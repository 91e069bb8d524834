--------------------------- MODULE NcReplyProofs ---------------------------
(* Theorems about NcReply, for every reply, whatever it contains and         *)
(* wherever it was cut off.                                                  *)
EXTENDS NcReply, TLAPS

-----------------------------------------------------------------------------
(* The reader of msgpack. Whatever a function of it returns, the cursor it   *)
(* yields is inside the message if the one it was given is.                  *)

Within(m, r) == /\ r.at \in 1 .. Len(m) + 1
                /\ r.len = Len(m) + 1 - r.at

(* A cursor further on in the message.                                       *)
Behind(m, r, next) == Within(m, next) /\ r.at < next.at

Message == Seq(Byte)

LEMMA Widths ==
  /\ DOMAIN Integer = {204, 205, 206, 208, 209, 210}
  /\ DOMAIN StringLen = {217, 218, 219}
  /\ DOMAIN ArrayLen = {220, 221}
  /\ DOMAIN MapLen = {222, 223}
  /\ DOMAIN Extension = {199, 200, 201}
  /\ DOMAIN Blob = {217, 196, 218, 197, 219, 198}
  /\ \A k \in DOMAIN Integer : Integer[k] \in {1, 2, 4}
  /\ \A k \in DOMAIN StringLen : StringLen[k] \in {1, 2, 4} /\ (StringLen[k] = 4 => k = 219)
  /\ \A k \in DOMAIN ArrayLen : ArrayLen[k] \in {2, 4}
  /\ \A k \in DOMAIN MapLen : MapLen[k] \in {2, 4}
  /\ \A k \in DOMAIN Extension : Extension[k] \in {1, 2, 4} /\ (Extension[k] = 4 => k = 201)
  /\ \A k \in DOMAIN Blob : Blob[k] \in {1, 2, 4} /\ (Blob[k] = 4 => k \in {198, 219})
  BY DEF Integer, StringLen, ArrayLen, MapLen, Extension, Blob, Sized

LEMMA Members == ASSUME NEW S, NEW q \in Seq(S) PROVE \A j \in 1 .. Len(q) : q[j] \in S
  OBVIOUS

LEMMA FixedSizes == \A k \in DOMAIN Fixed : Fixed[k] \in Nat
  <1> DEFINE sizes == <<4, 8, 1, 2, 4, 8, 1, 2, 4, 8, 2, 3, 5, 9, 17>>
  <1>1. \A j \in 1 .. 15 : sizes[j] \in Nat
    <2>1. sizes \in Seq(Nat) /\ Len(sizes) = 15
      OBVIOUS
    <2> HIDE DEF sizes
    <2>2. \A j \in 1 .. Len(sizes) : sizes[j] \in Nat
      BY <2>1, Members
    <2> QED BY <2>1, <2>2
  <1>2. \A k \in 202 .. 216 : k - 201 \in 1 .. 15
    OBVIOUS
  <1> HIDE DEF sizes
  <1> SUFFICES ASSUME NEW k \in DOMAIN Fixed PROVE Fixed[k] \in Nat
    OBVIOUS
  <1>3. Fixed[k] = IF k \in 202 .. 216 THEN sizes[k - 201] ELSE 0
    BY DEF Fixed, sizes
  <1>4. CASE k \in 202 .. 216
    <2>1. sizes[k - 201] \in Nat
      BY <1>1, <1>2, <1>4
    <2> QED BY <1>3, <1>4, <2>1
  <1>5. CASE k \notin 202 .. 216
    BY <1>3, <1>5
  <1> QED BY <1>4, <1>5

LEMMA Bytes ==
  ASSUME NEW m \in Seq(Byte)
  PROVE  Len(m) \in Nat /\ \A j \in 1 .. Len(m) : m[j] \in Nat
  <1>1. Len(m) \in Nat /\ \A j \in 1 .. Len(m) : m[j] \in Byte
    OBVIOUS
  <1>2. \A b \in Byte : b \in Nat
    BY DEF Byte
  <1> QED BY <1>1, <1>2

LEMMA NumberNatural ==
  ASSUME NEW m \in Seq(Byte), NEW w \in {1, 2, 4}, NEW at \in 1 .. Len(m),
         at + w <= Len(m) + 1, w = 4 => m[at] < 128
  PROVE  Number(m, at, w) \in Nat
  <1> DEFINE b1 == m[at]
             b2 == m[at + 1]
             b3 == m[at + 2]
             b4 == m[at + 3]
  <1>1. Len(m) \in Nat /\ \A j \in 1 .. Len(m) : m[j] \in Nat
    BY Bytes
  <1>2. b1 \in Nat /\ (w = 4 => b1 < 128)
    BY <1>1
  <1>3. w \in {2, 4} => b2 \in Nat
    <2>1. w \in {2, 4} => at + 1 \in 1 .. Len(m)
      BY <1>1
    <2> QED BY <1>1, <2>1
  <1>4. w = 4 => b3 \in Nat /\ b4 \in Nat
    <2>1. w = 4 => at + 2 \in 1 .. Len(m) /\ at + 3 \in 1 .. Len(m)
      BY <1>1
    <2> QED BY <1>1, <2>1
  <1>5. w = 1 => Number(m, at, w) = b1
    BY DEF Number
  <1>6. w = 2 => Number(m, at, w) = 256 * b1 + b2
    BY DEF Number
  <1>7. w = 4 => Number(m, at, w) = 256 * (256 * (256 * Signed(b1, 1) + b2) + b3) + b4
    BY DEF Number
  <1> HIDE DEF b1, b2, b3, b4
  <1>8. w = 4 => Signed(b1, 1) = b1
    BY <1>2 DEF Signed
  <1>9. CASE w = 1
    BY <1>2, <1>5, <1>9
  <1>10. CASE w = 2
    <2>1. b1 \in Nat /\ b2 \in Nat
      BY <1>2, <1>3, <1>10
    <2>2. 256 * b1 + b2 \in Nat
      BY <2>1
    <2> QED BY <1>6, <1>10, <2>2
  <1>11. CASE w = 4
    <2>1. b1 \in Nat /\ b2 \in Nat /\ b3 \in Nat /\ b4 \in Nat
      BY <1>2, <1>3, <1>4, <1>11
    <2>2. 256 * (256 * (256 * b1 + b2) + b3) + b4 \in Nat
      BY <2>1
    <2>3. Number(m, at, w) = 256 * (256 * (256 * b1 + b2) + b3) + b4
      BY <1>7, <1>8, <1>11
    <2> QED BY <2>2, <2>3
  <1> QED BY <1>9, <1>10, <1>11

(* Of any four bytes, as the length of an array may be.                      *)
LEMMA NumberInteger ==
  ASSUME NEW m \in Seq(Byte), NEW w \in {1, 2, 4}, NEW at \in 1 .. Len(m),
         at + w <= Len(m) + 1
  PROVE  Number(m, at, w) \in Int
  <1>1. CASE w = 4
    <2> DEFINE b1 == m[at]
               b2 == m[at + 1]
               b3 == m[at + 2]
               b4 == m[at + 3]
    <2>1. /\ at \in 1 .. Len(m) /\ at + 1 \in 1 .. Len(m)
          /\ at + 2 \in 1 .. Len(m) /\ at + 3 \in 1 .. Len(m)
      BY <1>1, Bytes
    <2>2. b1 \in Nat /\ b2 \in Nat /\ b3 \in Nat /\ b4 \in Nat
      BY <2>1, Bytes
    <2>3. Number(m, at, w) = 256 * (256 * (256 * Signed(b1, 1) + b2) + b3) + b4
      BY <1>1 DEF Number
    <2> HIDE DEF b1, b2, b3, b4
    <2>4. Signed(b1, 1) \in Int
      BY <2>2 DEF Signed
    <2> QED BY SMTT(30), <2>2, <2>3, <2>4
  <1>2. CASE w # 4
    <2>1. Number(m, at, w) \in Nat
      BY <1>2, NumberNatural
    <2> QED BY <2>1
  <1> QED BY <1>1, <1>2

LEMMA Forward ==
  ASSUME NEW m \in Seq(Byte), NEW r, Within(m, r), NEW n \in Nat
  PROVE  /\ r.len \in Nat
         /\ Advance(r, n).at = r.at + n /\ Advance(r, n).len = Len(m) + 1 - (r.at + n)
         /\ Advance(r, n).len = r.len - n
         /\ n <= r.len => Within(m, Advance(r, n))
         /\ n < r.len => r.at + n \in 1 .. Len(m)
  BY SMTT(30) DEF Within, Behind, Advance

LEMMA Taken ==
  ASSUME NEW m \in Seq(Byte), NEW r, Within(m, r), NEW n \in Nat \ {0}, n <= r.len
  PROVE  Behind(m, r, Advance(r, n))
  BY DEF Within, Behind, Advance

(* What all the functions have in common: they take at least a byte.         *)
Reads(m, r, res) == res.ok => Behind(m, r, res.next)

LEMMA GotReads ==
  ASSUME NEW m, NEW r, NEW v, NEW x, NEW res, res = Got(v, x)
  PROVE  /\ res.ok /\ res.val = v /\ res.next = x /\ (Behind(m, r, x) => Reads(m, r, res))
         /\ res # Astray
  BY DEF Reads, Got, Astray

LEMMA FailReads ==
  ASSUME NEW m, NEW r, NEW res, res = Fail PROVE ~res.ok /\ Reads(m, r, res) /\ res # Astray
  BY DEF Reads, Fail, Astray

LEMMA AstrayReads ==
  ASSUME NEW m, NEW r, NEW res, res = Astray PROVE ~res.ok /\ Reads(m, r, res)
  BY DEF Reads, Astray

LEMMA IntReads ==
  ASSUME NEW m \in Message, NEW r, Within(m, r)
  PROVE  Reads(m, r, nc_mp_parse_int(m, r))
  <1> DEFINE k == m[r.at]
             w == Integer[k]
             n == Number(m, r.at + 1, w)
             v == IF k = 209 \/ (k = 208 /\ SignedChar) THEN Signed(n, w) ELSE n
             u == Signed(k, 1)
             fix == k < 128 \/ k >= 224
             none == k \notin DOMAIN Integer
             res == nc_mp_parse_int(m, r)
  <1>1. m \in Seq(Byte) /\ r.len \in Nat
    BY Forward DEF Message
  <1>2. ~none => w \in {1, 2, 4}
    BY Widths
  <1>3. res = IF r.len < 1 THEN Fail
              ELSE IF fix THEN Got(u, Advance(r, 1))
              ELSE IF none \/ r.len - 1 < w THEN Fail
              ELSE Got(v, Advance(r, 1 + w))
    BY DEF nc_mp_parse_int
  <1> HIDE DEF k, w, n, v, u, fix, none, res
  <1>4. r.len >= 1 => Behind(m, r, Advance(r, 1))
    BY <1>1, Taken
  <1>5. ~none /\ ~(r.len - 1 < w) => Behind(m, r, Advance(r, 1 + w))
    <2> SUFFICES ASSUME ~none, ~(r.len - 1 < w) PROVE Behind(m, r, Advance(r, 1 + w))
      OBVIOUS
    <2>1. 1 + w \in Nat \ {0} /\ 1 + w <= r.len
      BY <1>1, <1>2
    <2> QED BY <1>1, <2>1, Taken
  <1>6. \/ res = Fail
        \/ res = Got(u, Advance(r, 1)) /\ Behind(m, r, Advance(r, 1))
        \/ res = Got(v, Advance(r, 1 + w)) /\ Behind(m, r, Advance(r, 1 + w))
    BY <1>1, <1>3, <1>4, <1>5
  <1>7. Reads(m, r, res)
    BY <1>6, FailReads, GotReads
  <1> QED BY <1>7 DEF res

(* Of a string the length is at least zero as well, unless it is 2^31 or     *)
(* more.                                                                     *)
LEMMA LengthReads ==
  ASSUME NEW m \in Message, NEW r, Within(m, r), NEW lowest \in Nat, NEW span \in Nat, NEW Wide,
         \A x \in DOMAIN Wide : Wide[x] \in {1, 2, 4}
  PROVE  /\ Reads(m, r, Length(m, r, lowest, span, Wide))
         /\ Length(m, r, lowest, span, Wide).ok => Length(m, r, lowest, span, Wide).val \in Int
         /\ Length(m, r, lowest, span, Wide).ok /\ Wide = StringLen /\ ShortLengths(m) =>
              Length(m, r, lowest, span, Wide).val \in Nat
  <1> DEFINE k == m[r.at]
             w == Wide[k]
             v == Number(m, r.at + 1, w)
             u == k - lowest
             fix == k \in lowest .. lowest + span - 1
             none == k \notin DOMAIN Wide
             res == Length(m, r, lowest, span, Wide)
  <1>1. /\ m \in Seq(Byte) /\ r.len \in Nat /\ Len(m) \in Nat
        /\ r.at \in 1 .. Len(m) + 1 /\ r.len = Len(m) + 1 - r.at
    <2>1. m \in Seq(Byte) /\ Len(m) \in Nat
      BY DEF Message
    <2> QED BY <2>1 DEF Within
  <1>2. ~none => w \in {1, 2, 4}
    OBVIOUS
  <1>3. res = IF r.len < 1 THEN Fail
              ELSE IF fix THEN Got(u, Advance(r, 1))
              ELSE IF none \/ r.len - 1 < w THEN Fail
              ELSE Got(v, Advance(r, 1 + w))
    BY DEF Length
  <1>4. fix => u \in Nat
    OBVIOUS
  <1>5. ~none /\ ~(r.len - 1 < w) /\ Wide = StringLen /\ ShortLengths(m) => v \in Nat
    <2> SUFFICES ASSUME ~none, ~(r.len - 1 < w), Wide = StringLen, ShortLengths(m)
                 PROVE  v \in Nat
      OBVIOUS
    <2>1. w = 4 => k = 219
      BY Widths
    <2>2. /\ r.at \in 1 .. Len(m) - 1 /\ r.at + 1 \in 1 .. Len(m)
          /\ (r.at + 1) + w <= Len(m) + 1
      <3> HIDE DEF w, none
      <3> QED BY SMTT(30), <1>1, <1>2
    <2>3. w = 4 => m[r.at + 1] < 128
      BY <2>1, <2>2 DEF ShortLengths
    <2> QED BY <1>1, <1>2, <2>2, <2>3, NumberNatural
  <1>51. ~none /\ ~(r.len - 1 < w) => v \in Int
    <2> SUFFICES ASSUME ~none, ~(r.len - 1 < w) PROVE v \in Int
      OBVIOUS
    <2>1. r.at + 1 \in 1 .. Len(m) /\ (r.at + 1) + w <= Len(m) + 1
      <3> HIDE DEF w, none
      <3> QED BY SMTT(30), <1>1, <1>2
    <2> QED BY <1>1, <1>2, <2>1, NumberInteger
  <1> HIDE DEF k, w, v, u, fix, none, res
  <1>6. r.len >= 1 => Behind(m, r, Advance(r, 1))
    BY <1>1, Taken
  <1>7. ~none /\ ~(r.len - 1 < w) => Behind(m, r, Advance(r, 1 + w))
    <2> SUFFICES ASSUME ~none, ~(r.len - 1 < w) PROVE Behind(m, r, Advance(r, 1 + w))
      OBVIOUS
    <2>1. 1 + w \in Nat \ {0} /\ 1 + w <= r.len
      BY SMTT(30), <1>1, <1>2
    <2> QED BY <1>1, <2>1, Taken
  <1>8. \/ res = Fail
        \/ res = Got(u, Advance(r, 1)) /\ Behind(m, r, Advance(r, 1)) /\ u \in Nat
        \/ /\ res = Got(v, Advance(r, 1 + w)) /\ Behind(m, r, Advance(r, 1 + w))
           /\ Wide = StringLen /\ ShortLengths(m) => v \in Nat
           /\ v \in Int
    BY <1>1, <1>3, <1>4, <1>5, <1>51, <1>6, <1>7
  <1>9. Reads(m, r, res)
    BY <1>8, FailReads, GotReads
  <1>10. res.ok /\ Wide = StringLen /\ ShortLengths(m) => res.val \in Nat
    BY <1>8, FailReads, GotReads
  <1>11. res.ok => res.val \in Int
    BY <1>8, FailReads, GotReads
  <1> QED BY <1>9, <1>10, <1>11 DEF res

LEMMA ArrayReads ==
  ASSUME NEW m \in Message, NEW r, Within(m, r)
  PROVE  /\ Reads(m, r, nc_mp_parse_array(m, r)) /\ Reads(m, r, nc_mp_parse_mapping(m, r))
         /\ nc_mp_parse_array(m, r).ok => nc_mp_parse_array(m, r).val \in Int
         /\ nc_mp_parse_mapping(m, r).ok => nc_mp_parse_mapping(m, r).val \in Int
  BY LengthReads, Widths DEF nc_mp_parse_array, nc_mp_parse_mapping

LEMMA StringReads ==
  ASSUME NEW m \in Message, NEW r, Within(m, r)
  PROVE  /\ Reads(m, r, nc_mp_parse_string(m, r))
         /\ nc_mp_parse_string(m, r) = Astray => ~ShortLengths(m)
  <1> DEFINE n == Length(m, r, 160, 32, StringLen)
             v == SubSeq(m, n.next.at, n.next.at + n.val - 1)
             res == nc_mp_parse_string(m, r)
  <1>1. Reads(m, r, n) /\ (n.ok => n.val \in Int) /\ (n.ok /\ ShortLengths(m) => n.val \in Nat)
    BY LengthReads, Widths
  <1>2. m \in Seq(Byte)
    BY DEF Message
  <1>3. res = IF ~n.ok THEN Fail
              ELSE IF n.next.len < n.val THEN Fail
              ELSE IF n.val < 0 THEN Astray
              ELSE Got(v, Advance(n.next, n.val))
    BY DEF nc_mp_parse_string
  <1> HIDE DEF n, v, res
  <1>4. n.ok /\ ~(n.next.len < n.val) /\ ~(n.val < 0) => Behind(m, r, Advance(n.next, n.val))
    <2> DEFINE x == Advance(n.next, n.val)
    <2> SUFFICES ASSUME n.ok, ~(n.next.len < n.val), ~(n.val < 0) PROVE Behind(m, r, x)
      OBVIOUS
    <2>1. Within(m, n.next) /\ r.at < n.next.at /\ n.val \in Nat
      BY <1>1 DEF Reads, Behind
    <2>2. n.val <= n.next.len
      BY <1>2, <2>1, Forward
    <2>3. Within(m, x) /\ x.at = n.next.at + n.val
      BY <1>2, <2>1, <2>2, Forward
    <2> HIDE DEF x
    <2>4. r.at < x.at
      BY SMTT(30), <1>2, <2>1, <2>3 DEF Within
    <2> QED BY <2>3, <2>4 DEF Behind
  <1>5. Reads(m, r, res)
    BY <1>3, <1>4, FailReads, GotReads, AstrayReads
  <1>6. res = Astray => n.ok /\ n.val < 0
    BY <1>3, FailReads, GotReads
  <1>7. res = Astray => ~ShortLengths(m)
    BY <1>1, <1>6
  <1> QED BY <1>5, <1>7 DEF res

(* What is skipped may end behind the message; nc_mp_skip_value notices.     *)
Ahead(m, r) == r.at \in Nat \ {0} /\ r.len = Len(m) + 1 - r.at

LEMMA Further ==
  ASSUME NEW m \in Seq(Byte), NEW r, Ahead(m, r), NEW n \in Nat
  PROVE  /\ Ahead(m, Advance(r, n)) /\ r.len \in Int
         /\ Advance(r, n).at = r.at + n /\ r.at <= Advance(r, n).at
  BY SMTT(30) DEF Ahead, Advance

LEMMA BlobAhead ==
  ASSUME NEW m \in Message, NEW r, Ahead(m, r), NEW w \in {1, 2, 4},
         NEW res, res = SkipBlob(m, r, w)
  PROVE  /\ res.ok => Ahead(m, res.next) /\ r.at <= res.next.at /\ res.val = 0
         /\ res = Astray => w = 4 /\ r.len >= 4 /\ ~(m[r.at] < 128)
         /\ res.ok \/ res = Fail \/ res = Astray
  <1> DEFINE n == Number(m, r.at, w)
             x == Advance(r, w + n)
             far == n < r.len - w - 2147483647
  <1>1. m \in Seq(Byte) /\ Len(m) \in Nat /\ r.len \in Int
    BY Further DEF Message
  <1>2. res = IF r.len < w THEN Fail
              ELSE IF w + n >= 0 THEN Got(0, x)
              ELSE IF far THEN Fail ELSE Astray
    BY DEF SkipBlob
  <1>3. ~(r.len < w) => r.at \in 1 .. Len(m) /\ r.at + w <= Len(m) + 1
    BY <1>1 DEF Ahead
  <1>4. ~(r.len < w) => n \in Int
    BY SMTT(30), <1>1, <1>3, NumberInteger
  <1>5. ~(r.len < w) /\ (w = 4 => m[r.at] < 128) => n \in Nat
    BY SMTT(30), <1>1, <1>3, NumberNatural
  <1> HIDE DEF n, far
  <1>6. ~(r.len < w) /\ w + n >= 0 => Ahead(m, x) /\ r.at <= x.at
    <2> SUFFICES ASSUME ~(r.len < w), w + n >= 0 PROVE Ahead(m, x) /\ r.at <= x.at
      OBVIOUS
    <2>1. w + n \in Nat
      BY <1>4
    <2> QED BY <1>1, <2>1, Further
  <1> HIDE DEF x
  <1>7. CASE ~(r.len < w) /\ w + n >= 0
    <2>1. res = Got(0, x)
      BY <1>2, <1>7
    <2>2. res.ok /\ res.next = x /\ res.val = 0 /\ res # Astray
      BY <2>1, GotReads
    <2> QED BY <1>6, <1>7, <2>2
  <1>8. CASE r.len < w \/ (~(w + n >= 0) /\ far)
    <2>1. res = Fail
      BY <1>2, <1>8
    <2> QED BY <2>1, FailReads
  <1>9. CASE ~(r.len < w) /\ ~(w + n >= 0) /\ ~far
    <2>1. res = Astray /\ ~res.ok
      BY <1>2, <1>9, AstrayReads
    <2>2. n \notin Nat
      BY <1>9
    <2> QED BY <1>1, <1>5, <1>9, <2>1, <2>2
  <1> QED BY <1>7, <1>8, <1>9

LEMMA CountAhead ==
  ASSUME NEW m \in Message, NEW r, Ahead(m, r), NEW w \in {2, 4}, NEW each \in Nat,
         NEW res, res = SkipCount(m, r, w, each), res.ok
  PROVE  Ahead(m, res.next) /\ r.at <= res.next.at /\ res.val \in Int
  <1> DEFINE k == Count(m, r.at, w)
             n == each * k
             x == Advance(r, w)
  <1>1. res = IF r.len < w THEN Fail ELSE Got(n, x)
    BY DEF SkipCount
  <1>2. m \in Seq(Byte) /\ Len(m) \in Nat
    BY DEF Message
  <1>3. Ahead(m, x) /\ r.at <= x.at /\ r.len \in Int
    BY <1>2, Further
  <1>4. ~(r.len < w)
    BY <1>1, FailReads
  <1>5. r.at \in 1 .. Len(m) /\ r.at + 2 <= Len(m) + 1
    BY SMTT(30), <1>2, <1>3, <1>4 DEF Ahead
  <1>6. Number(m, r.at, 2) \in Int
    BY <1>2, <1>5, NumberInteger
  <1>7. k \in Int
    BY <1>6 DEF Count
  <1> HIDE DEF k
  <1>8. n \in Int
    BY <1>7
  <1> HIDE DEF n, x
  <1>9. res.next = x /\ res.val = n
    BY <1>1, <1>4, GotReads
  <1> QED BY <1>3, <1>8, <1>9

LEMMA CountStraight ==
  ASSUME NEW m, NEW r, NEW w, NEW each PROVE SkipCount(m, r, w, each) # Astray
  <1> DEFINE x == Advance(r, w)
             n == each * Count(m, r.at, w)
  <1>1. SkipCount(m, r, w, each) = IF r.len < w THEN Fail ELSE Got(n, x)
    BY DEF SkipCount
  <1> HIDE DEF x, n
  <1> QED BY <1>1, FailReads, GotReads

LEMMA SkipReads ==
  ASSUME NEW m \in Message, NEW r, Within(m, r)
  PROVE  /\ Reads(m, r, nc_mp_skip_value(m, r))
         /\ nc_mp_skip_value(m, r).ok => nc_mp_skip_value(m, r).val \in Int
         /\ nc_mp_skip_value(m, r) = Astray => ~ShortLengths(m)
  <1> DEFINE k == m[r.at]
             h == Advance(r, 1)
             body == SkipContent(m, k, h)
             res == nc_mp_skip_value(m, r)
  <1>1. m \in Seq(Byte) /\ Len(m) \in Nat /\ r.at \in Nat \ {0}
        /\ r.len \in Nat /\ r.len = Len(m) + 1 - r.at
    <2>1. m \in Seq(Byte) /\ Len(m) \in Nat
      BY DEF Message
    <2>2. r.at \in Nat \ {0} /\ r.len \in Nat /\ r.len = Len(m) + 1 - r.at
      BY <2>1 DEF Within
    <2> QED BY <2>1, <2>2
  <1>2. res = IF r.len < 1 THEN Fail
              ELSE IF ~body.ok THEN body
              ELSE IF body.next.len < 0 THEN Fail ELSE body
    BY DEF nc_mp_skip_value
  <1>3. ASSUME r.len >= 1
        PROVE  /\ body.ok => Ahead(m, body.next) /\ h.at <= body.next.at /\ body.val \in Int
               /\ body = Astray => ~ShortLengths(m)
    <2>1. r.at \in 1 .. Len(m) /\ k \in Nat
      BY <1>1, <1>3, Bytes DEF Within
    <2>2. Ahead(m, h) /\ h.at = r.at + 1 /\ h.len = Len(m) + 1 - (r.at + 1)
      <3>1. Ahead(m, r)
        BY <1>1 DEF Ahead
      <3>2. Ahead(m, h) /\ h.at = r.at + 1
        BY <1>1, <3>1, Further
      <3> QED BY <3>2 DEF Ahead
    <2> HIDE DEF h
    <2>3. \/ k \in DOMAIN Fixed /\ body = Got(0, Advance(h, Fixed[k]))
          \/ k \in 128 .. 143 /\ body = Got(2 * (k - 128), h)
          \/ k \in 144 .. 159 /\ body = Got(k - 144, h)
          \/ k \in 160 .. 191 /\ body = Got(0, Advance(h, k - 160))
          \/ k \in DOMAIN Extension /\ body = SkipBlob(m, Advance(h, 1), Extension[k])
          \/ k \in DOMAIN Blob /\ body = SkipBlob(m, h, Blob[k])
          \/ k \in DOMAIN ArrayLen /\ body = SkipCount(m, h, ArrayLen[k], 1)
          \/ k \in DOMAIN MapLen /\ body = SkipCount(m, h, MapLen[k], 2)
          \/ body = Fail
      BY DEF SkipContent
    <2> HIDE DEF body
    <2>4. CASE k \in DOMAIN Fixed /\ body = Got(0, Advance(h, Fixed[k]))
      <3>0. m \in Seq(Byte) /\ Ahead(m, h) /\ Fixed[k] \in Nat
        BY <1>1, <2>2, <2>4, FixedSizes
      <3>1. Ahead(m, Advance(h, Fixed[k])) /\ h.at <= Advance(h, Fixed[k]).at
        BY <3>0, Further
      <3> QED BY <2>4, <3>1, GotReads
    <2>5. CASE \/ k \in 128 .. 143 /\ body = Got(2 * (k - 128), h)
               \/ k \in 144 .. 159 /\ body = Got(k - 144, h)
      <3>1. body.next = h /\ body.val \in {2 * (k - 128), k - 144}
        BY <2>5, GotReads
      <3>2. h.at <= h.at
        BY <2>1, <2>2
      <3>3. body # Astray
        BY <2>5, GotReads
      <3>4. body.val \in Int
        BY <2>1, <3>1
      <3> QED BY <2>2, <3>1, <3>2, <3>3, <3>4
    <2>6. CASE k \in 160 .. 191 /\ body = Got(0, Advance(h, k - 160))
      <3>1. k - 160 \in Nat
        BY <2>6
      <3>2. m \in Seq(Byte) /\ Ahead(m, h)
        BY <1>1, <2>2
      <3>3. Ahead(m, Advance(h, k - 160)) /\ h.at <= Advance(h, k - 160).at
        <4> DEFINE n == k - 160
        <4>1. n \in Nat /\ Ahead(m, h)
          BY <3>1, <3>2
        <4> HIDE DEF n
        <4>2. Ahead(m, Advance(h, n)) /\ h.at <= Advance(h, n).at
          BY <3>2, <4>1, Further
        <4> QED BY <4>2 DEF n
      <3> QED BY <2>6, <3>3, GotReads
    <2>7. CASE k \in DOMAIN Extension /\ body = SkipBlob(m, Advance(h, 1), Extension[k])
      <3> DEFINE g == Advance(h, 1)
      <3>1. Ahead(m, g) /\ g.at = r.at + 2 /\ g.len = Len(m) + 1 - (r.at + 2)
        <4>0. m \in Seq(Byte) /\ 1 \in Nat /\ Ahead(m, h)
          BY <1>1, <2>2
        <4>1. Ahead(m, g) /\ g.at = h.at + 1
          BY <4>0, Further
        <4>2. g.at = r.at + 2
          BY <1>1, <2>2, <4>1
        <4> QED BY <4>1, <4>2 DEF Ahead
      <3> HIDE DEF g
      <3>2. Extension[k] \in {1, 2, 4} /\ (Extension[k] = 4 => k = 201)
        BY <2>7, Widths
      <3>3. g.len >= 4 => r.at \in 1 .. Len(m) - 2
        BY <1>1, <2>1, <3>1
      <3>4. Extension[k] = 4 /\ g.len >= 4 /\ ShortLengths(m) => m[g.at] < 128
        BY <1>1, <3>1, <3>2, <3>3 DEF ShortLengths
      <3>5. body = SkipBlob(m, g, Extension[k])
        BY <2>7 DEF g
      <3>6. /\ body.ok => Ahead(m, body.next) /\ g.at <= body.next.at /\ body.val = 0
            /\ body = Astray => Extension[k] = 4 /\ g.len >= 4 /\ ~(m[g.at] < 128)
        BY SMTT(30), <3>1, <3>2, <3>5, BlobAhead
      <3>7. body.ok => h.at <= body.next.at
        BY SMTT(30), <2>1, <2>2, <3>1, <3>6 DEF Ahead
      <3> QED BY <3>4, <3>6, <3>7
    <2>8. CASE k \in DOMAIN Blob /\ body = SkipBlob(m, h, Blob[k])
      <3>1. Blob[k] \in {1, 2, 4} /\ (Blob[k] = 4 => k \in {198, 219})
        BY <2>8, Widths
      <3>2. h.len >= 4 => r.at \in 1 .. Len(m) - 1
        BY <1>1, <2>1, <2>2
      <3>3. Blob[k] = 4 /\ h.len >= 4 /\ ShortLengths(m) => m[h.at] < 128
        BY ZenonT(30), <1>1, <2>2, <3>1, <3>2 DEF ShortLengths
      <3>4. /\ body.ok => Ahead(m, body.next) /\ h.at <= body.next.at /\ body.val = 0
            /\ body = Astray => Blob[k] = 4 /\ h.len >= 4 /\ ~(m[h.at] < 128)
        BY <2>2, <2>8, <3>1, BlobAhead
      <3> QED BY <3>3, <3>4
    <2>9. CASE \/ k \in DOMAIN ArrayLen /\ body = SkipCount(m, h, ArrayLen[k], 1)
               \/ k \in DOMAIN MapLen /\ body = SkipCount(m, h, MapLen[k], 2)
      <3>1. /\ k \in DOMAIN ArrayLen => ArrayLen[k] \in {2, 4}
            /\ k \in DOMAIN MapLen => MapLen[k] \in {2, 4}
        BY Widths
      <3>2. body # Astray
        BY <2>9, CountStraight
      <3>3. body.ok => Ahead(m, body.next) /\ h.at <= body.next.at /\ body.val \in Int
        BY <2>2, <2>9, <3>1, CountAhead
      <3> QED BY <3>2, <3>3
    <2>10. CASE body = Fail
      BY <2>10, FailReads
    <2> QED BY <2>3, <2>4, <2>5, <2>6, <2>7, <2>8, <2>9, <2>10
  <1>4. h.at = r.at + 1
    BY DEF Advance
  <1> HIDE DEF body, h
  <1>5. \/ res = Fail
        \/ r.len >= 1 /\ body.ok /\ ~(body.next.len < 0) /\ res = body
        \/ r.len >= 1 /\ ~body.ok /\ res = body
    BY <1>1, <1>2
  <1> HIDE DEF res
  <1>6. CASE r.len >= 1 /\ body.ok /\ ~(body.next.len < 0) /\ res = body
    <2>1. Ahead(m, body.next) /\ h.at <= body.next.at /\ body.val \in Int
      BY <1>3, <1>6
    <2>2. Within(m, body.next) /\ r.at < body.next.at
      BY SMTT(30), <1>1, <1>4, <1>6, <2>1 DEF Ahead, Within
    <2>3. Reads(m, r, res) /\ res.val \in Int
      BY <1>6, <2>1, <2>2 DEF Reads, Behind
    <2>4. res = Astray => ~ShortLengths(m)
      BY <1>3, <1>6
    <2> QED BY <2>3, <2>4 DEF res
  <1>7. CASE res = Fail
    <2>1. Reads(m, r, res) /\ ~res.ok /\ res # Astray
      BY <1>7, FailReads
    <2> QED BY <2>1 DEF res
  <1>8. CASE r.len >= 1 /\ ~body.ok /\ res = body
    <2>1. Reads(m, r, res) /\ ~res.ok
      BY <1>8 DEF Reads
    <2>2. res = Astray => ~ShortLengths(m)
      BY <1>3, <1>8
    <2> QED BY <2>1, <2>2 DEF res
  <1> QED BY <1>5, <1>6, <1>7, <1>8

(* The two halves of the reader, case by case of the marker.                 *)
LEMMA Contents ==
  ASSUME NEW m, NEW k \in Nat, NEW h
  PROVE  /\ k \in DOMAIN Fixed => SkipContent(m, k, h) = Got(0, Advance(h, Fixed[k]))
         /\ k \in 128 .. 143 => SkipContent(m, k, h) = Got(2 * (k - 128), h)
         /\ k \in 144 .. 159 => SkipContent(m, k, h) = Got(k - 144, h)
         /\ k \in 160 .. 191 => SkipContent(m, k, h) = Got(0, Advance(h, k - 160))
         /\ k \in DOMAIN Blob => SkipContent(m, k, h) = SkipBlob(m, h, Blob[k])
         /\ k \in DOMAIN ArrayLen => SkipContent(m, k, h) = SkipCount(m, h, ArrayLen[k], 1)
         /\ k \in DOMAIN MapLen => SkipContent(m, k, h) = SkipCount(m, h, MapLen[k], 2)
  <1>1. /\ k \in DOMAIN Fixed <=> \/ k \in 0 .. 127 \/ k \in 224 .. 255
                                  \/ k \in {192, 194, 195} \/ k \in 202 .. 216
    BY DEF Fixed
  <1>2. \/ k \notin DOMAIN Fixed
        \/ /\ k \notin 128 .. 191 /\ k \notin DOMAIN Blob
           /\ k \notin DOMAIN ArrayLen /\ k \notin DOMAIN MapLen
    BY <1>1, Widths
  <1> QED BY <1>2, Widths DEF SkipContent

LEMMA SkipTakes ==
  ASSUME NEW m, NEW r, ~(r.len < 1), NEW v, NEW x,
         SkipContent(m, m[r.at], Advance(r, 1)) = Got(v, x), ~(x.len < 0)
  PROVE  nc_mp_skip_value(m, r) = Got(v, x)
  <1> DEFINE body == SkipContent(m, m[r.at], Advance(r, 1))
  <1>1. nc_mp_skip_value(m, r) = IF ~body.ok THEN body
                                 ELSE IF body.next.len < 0 THEN Fail ELSE body
    BY DEF nc_mp_skip_value
  <1>2. body.ok /\ body.next = x /\ body = Got(v, x)
    BY GotReads
  <1> HIDE DEF body
  <1> QED BY <1>1, <1>2

LEMMA TwiceAdvanced ==
  ASSUME NEW m \in Seq(Byte), NEW r, Within(m, r), NEW a \in Nat, NEW b \in Nat
  PROVE  Advance(Advance(r, a), b) = Advance(r, a + b)
  BY DEF Within, Advance

LEMMA FixedIntegers ==
  /\ \A k \in DOMAIN Integer : k \in DOMAIN Fixed /\ Fixed[k] = Integer[k]
  /\ \A k \in 0 .. 127 : k \in DOMAIN Fixed /\ Fixed[k] = 0
  /\ \A k \in 224 .. 255 : k \in DOMAIN Fixed /\ Fixed[k] = 0
  <1>1. \A k \in DOMAIN Integer : k \in DOMAIN Fixed /\ Fixed[k] = Integer[k]
    <2> SUFFICES ASSUME NEW k \in DOMAIN Integer
                 PROVE  k \in DOMAIN Fixed /\ Fixed[k] = Integer[k]
      OBVIOUS
    <2>1. k \in {204, 205, 206, 208, 209, 210}
      BY Widths
    <2>2. k \in DOMAIN Fixed
      BY <2>1 DEF Fixed
    <2>3. Fixed[k] = <<4, 8, 1, 2, 4, 8, 1, 2, 4, 8, 2, 3, 5, 9, 17>>[k - 201]
      BY <2>1, <2>2 DEF Fixed
    <2>4. Integer[k] = IF k \in {204, 208} THEN 1 ELSE IF k \in {205, 209} THEN 2 ELSE 4
      BY <2>1 DEF Integer, Sized
    <2> QED BY <2>1, <2>2, <2>3, <2>4
  <1>2. \A k \in 0 .. 127 : k \in DOMAIN Fixed /\ Fixed[k] = 0
    BY DEF Fixed
  <1>3. \A k \in 224 .. 255 : k \in DOMAIN Fixed /\ Fixed[k] = 0
    BY DEF Fixed
  <1> QED BY <1>1, <1>2, <1>3

LEMMA MarkerRange ==
  ASSUME NEW m \in Seq(Byte), NEW j \in 1 .. Len(m) PROVE m[j] \in Nat /\ m[j] <= 255
  <1>1. m[j] \in Byte
    OBVIOUS
  <1>2. \A b \in Byte : b \in Nat /\ b <= 255
    BY DEF Byte
  <1> QED BY <1>1, <1>2

LEMMA SkipsInt ==
  ASSUME NEW m \in Message, NEW r, Within(m, r), nc_mp_parse_int(m, r).ok
  PROVE  nc_mp_skip_value(m, r) = Got(0, nc_mp_parse_int(m, r).next)
  <1> DEFINE k == m[r.at]
             w == Integer[k]
             n == Number(m, r.at + 1, w)
             v == IF k = 209 \/ (k = 208 /\ SignedChar) THEN Signed(n, w) ELSE n
             u == Signed(k, 1)
             fix == k < 128 \/ k >= 224
             none == k \notin DOMAIN Integer
             h == Advance(r, 1)
             res == nc_mp_parse_int(m, r)
  <1>1. m \in Seq(Byte) /\ Len(m) \in Nat /\ r.len \in Nat
    BY Forward DEF Message
  <1>2. res = IF r.len < 1 THEN Fail
              ELSE IF fix THEN Got(u, h)
              ELSE IF none \/ r.len - 1 < w THEN Fail
              ELSE Got(v, Advance(r, 1 + w))
    BY DEF nc_mp_parse_int
  <1>3. ~(r.len < 1) /\ (~fix => ~none /\ ~(r.len - 1 < w))
    <2> HIDE DEF fix, none, w, h, res
    <2>1. res.ok
      BY DEF res
    <2> QED BY <1>2, <2>1, FailReads
  <1>4. r.at \in 1 .. Len(m)
    BY <1>1, <1>3 DEF Within
  <1>5. k \in Nat /\ k <= 255
    BY <1>1, <1>4, MarkerRange
  <1>6. CASE fix
    <2>1. k \in DOMAIN Fixed /\ Fixed[k] = 0
      <3>1. k \in 0 .. 127 \/ k \in 224 .. 255
        BY <1>5, <1>6
      <3> QED BY <3>1, FixedIntegers
    <2>2. Advance(h, 0) = h /\ ~(h.len < 0)
      <3>1. Advance(h, 0) = Advance(r, 1 + 0)
        BY <1>1, TwiceAdvanced
      <3>2. h.len = r.len - 1
        BY <1>1, Forward
      <3> QED BY <1>1, <1>3, <3>1, <3>2
    <2>3. res.next = h
      BY <1>2, <1>3, <1>6, GotReads
    <2> HIDE DEF res, h
    <2>4. SkipContent(m, k, h) = Got(0, h)
      BY <1>5, <2>1, <2>2, Contents
    <2>5. nc_mp_skip_value(m, r) = Got(0, h)
      BY <1>3, <2>2, <2>4, SkipTakes DEF h
    <2> QED BY <2>3, <2>5 DEF res
  <1>7. CASE ~fix
    <2>1. k \in DOMAIN Fixed /\ Fixed[k] = w /\ w \in {1, 2, 4}
      BY <1>3, <1>7, FixedIntegers, Widths
    <2>0. ~(r.len - 1 < w)
      BY <1>3, <1>7
    <2> HIDE DEF w
    <2> DEFINE x == Advance(r, 1 + w)
    <2>2. Advance(h, w) = x /\ ~(x.len < 0)
      <3>1. 1 + w \in Nat /\ w \in Nat
        BY <2>1
      <3>2. Advance(h, w) = x
        BY <1>1, <3>1, TwiceAdvanced
      <3>3. x.len = r.len - (1 + w)
        BY <1>1, <3>1, Forward
      <3> HIDE DEF x
      <3> QED BY <1>1, <2>0, <3>1, <3>2, <3>3
    <2>3. res.next = x
      <3> HIDE DEF x, none, fix, res, v
      <3> QED BY <1>2, <1>3, <1>7, GotReads DEF x
    <2> HIDE DEF res, h, x
    <2>4. SkipContent(m, k, h) = Got(0, x)
      BY <1>5, <2>1, <2>2, Contents
    <2>5. nc_mp_skip_value(m, r) = Got(0, x)
      BY <1>3, <2>2, <2>4, SkipTakes DEF h
    <2> QED BY <2>3, <2>5 DEF res
  <1> QED BY <1>6, <1>7

(* What a length that was read stood in.                                     *)
LEMMA LengthFrom ==
  ASSUME NEW m \in Message, NEW r, Within(m, r), NEW lowest, NEW span, NEW Wide,
         Length(m, r, lowest, span, Wide).ok
  PROVE  /\ ~(r.len < 1) /\ m[r.at] \in Nat
         /\ \/ /\ m[r.at] \in lowest .. lowest + span - 1
               /\ Length(m, r, lowest, span, Wide) = Got(m[r.at] - lowest, Advance(r, 1))
            \/ /\ m[r.at] \in DOMAIN Wide /\ ~(r.len - 1 < Wide[m[r.at]])
               /\ Length(m, r, lowest, span, Wide)
                    = Got(Number(m, r.at + 1, Wide[m[r.at]]), Advance(r, 1 + Wide[m[r.at]]))
  <1> DEFINE k == m[r.at]
             w == Wide[k]
             v == Number(m, r.at + 1, w)
             u == k - lowest
             h == Advance(r, 1)
             x == Advance(r, 1 + w)
             fix == k \in lowest .. lowest + span - 1
             none == k \notin DOMAIN Wide
             res == Length(m, r, lowest, span, Wide)
  <1>1. res = IF r.len < 1 THEN Fail
              ELSE IF fix THEN Got(u, h)
              ELSE IF none \/ r.len - 1 < w THEN Fail
              ELSE Got(v, x)
    BY DEF Length
  <1>2. m \in Seq(Byte) /\ Len(m) \in Nat /\ r.len \in Nat
    BY Forward DEF Message
  <1>3. ~(r.len < 1) /\ \/ fix /\ res = Got(u, h)
                        \/ ~none /\ ~(r.len - 1 < w) /\ res = Got(v, x)
    <2> HIDE DEF fix, none, w, u, v, h, x, res
    <2>1. res.ok
      BY DEF res
    <2> QED BY <1>1, <2>1, FailReads
  <1>4. r.at \in 1 .. Len(m)
    BY <1>2, <1>3 DEF Within
  <1>5. k \in Nat
    BY <1>2, <1>4, Bytes
  <1> QED BY <1>3, <1>5

(* The bytes of a length, after the marker.                                  *)
LEMMA AfterMarker ==
  ASSUME NEW m \in Message, NEW r, Within(m, r), NEW w \in {1, 2, 4}, ~(r.len - 1 < w)
  PROVE  /\ Advance(r, 1).at = r.at + 1 /\ ~(Advance(r, 1).len < w)
         /\ Advance(Advance(r, 1), w) = Advance(r, 1 + w) /\ ~(Advance(r, 1 + w).len < 0)
         /\ r.at + 1 \in 1 .. Len(m) /\ (r.at + 1) + w <= Len(m) + 1
         /\ Within(m, Advance(r, 1 + w))
  <1>1. m \in Seq(Byte) /\ Len(m) \in Nat /\ w \in Nat /\ 1 + w \in Nat
    BY DEF Message
  <1>2. /\ r.len \in Nat /\ Advance(r, 1).at = r.at + 1 /\ Advance(r, 1).len = r.len - 1
        /\ Advance(r, 1 + w).len = r.len - (1 + w)
    BY <1>1, Forward
  <1>3. Advance(Advance(r, 1), w) = Advance(r, 1 + w)
    BY <1>1, TwiceAdvanced
  <1>4. r.at \in 1 .. Len(m) + 1 /\ r.len = Len(m) + 1 - r.at
    BY DEF Within
  <1>5. 1 + w <= r.len
    BY <1>2
  <1>6. Within(m, Advance(r, 1 + w))
    BY <1>1, <1>5, Forward
  <1> QED BY SMTT(30), <1>1, <1>2, <1>3, <1>4, <1>5, <1>6

LEMMA SkipsString ==
  ASSUME NEW m \in Message, NEW r, Within(m, r), nc_mp_parse_string(m, r).ok
  PROVE  nc_mp_skip_value(m, r) = Got(0, nc_mp_parse_string(m, r).next)
  <1> DEFINE k == m[r.at]
             w == StringLen[k]
             v == Number(m, r.at + 1, w)
             n == Length(m, r, 160, 32, StringLen)
             h == Advance(r, 1)
             g == Advance(r, 1 + w)
             x == Advance(n.next, n.val)
             str == SubSeq(m, n.next.at, n.next.at + n.val - 1)
             res == nc_mp_parse_string(m, r)
  <1>1. res = IF ~n.ok THEN Fail ELSE IF n.next.len < n.val THEN Fail
              ELSE IF n.val < 0 THEN Astray ELSE Got(str, x)
    BY DEF nc_mp_parse_string
  <1>2. n.ok /\ ~(n.next.len < n.val) /\ ~(n.val < 0) /\ res.next = x
    <2> HIDE DEF n, str, x, res
    <2>1. res.ok
      BY DEF res
    <2> QED BY <1>1, <2>1, FailReads, AstrayReads, GotReads
  <1>3. m \in Seq(Byte) /\ Len(m) \in Nat
    BY DEF Message
  <1>4. Within(m, n.next) /\ n.val \in Nat
    <2>1. Within(m, n.next) /\ n.val \in Int
      BY <1>2, LengthReads, Widths DEF Reads, Behind
    <2> HIDE DEF n
    <2> QED BY <1>2, <2>1
  <1>5. ~(x.len < 0)
    <2> HIDE DEF n
    <2>1. x.len = n.next.len - n.val /\ n.next.len \in Nat
      BY <1>3, <1>4, Forward
    <2> HIDE DEF x
    <2> QED BY <1>2, <1>4, <2>1
  <1>6. /\ ~(r.len < 1) /\ k \in Nat
        /\ \/ k \in 160 .. 191 /\ n = Got(k - 160, h)
           \/ k \in DOMAIN StringLen /\ ~(r.len - 1 < w) /\ n = Got(v, g)
    BY <1>2, LengthFrom
  <1>7. SkipContent(m, k, h) = Got(0, x)
    <2>1. CASE k \in 160 .. 191 /\ n = Got(k - 160, h)
      <3>1. x = Advance(h, k - 160)
        BY <2>1, GotReads
      <3> HIDE DEF x, n, h
      <3> QED BY <1>6, <2>1, <3>1, Contents
    <2>2. CASE k \in DOMAIN StringLen /\ ~(r.len - 1 < w) /\ n = Got(v, g)
      <3>1. w \in {1, 2, 4} /\ k \in DOMAIN Blob /\ Blob[k] = w
        <4>1. k \in {217, 218, 219}
          BY <2>2, Widths
        <4> QED BY <4>1 DEF StringLen, Blob, Sized
      <3> HIDE DEF w
      <3>2. /\ h.at = r.at + 1 /\ ~(h.len < w) /\ Advance(h, w) = g
            /\ r.at + 1 \in 1 .. Len(m) /\ (r.at + 1) + w <= Len(m) + 1
        BY SMTT(30), <2>2, <3>1, AfterMarker
      <3>3. n.val = v /\ n.next = g
        BY <2>2, GotReads
      <3>4. v \in Nat
        BY <1>4, <3>3
      <3>5. Number(m, h.at, w) = v
        BY <3>2
      <3>6. x = Advance(h, w + v)
        <4>1. x = Advance(g, v)
          BY <3>3
        <4>2. g = Advance(r, 1 + w) /\ 1 + w \in Nat /\ 1 + w + v \in Nat /\ w + v \in Nat
          <5> HIDE DEF v
          <5> QED BY <3>1, <3>4
        <4> HIDE DEF x, v
        <4>3. Advance(g, v) = Advance(r, (1 + w) + v)
          BY <1>3, <3>4, <4>2, TwiceAdvanced
        <4>4. Advance(h, w + v) = Advance(r, 1 + (w + v))
          BY <1>3, <4>2, TwiceAdvanced
        <4>5. (1 + w) + v = 1 + (w + v)
          BY <3>1, <3>4
        <4> QED BY <4>1, <4>3, <4>4, <4>5
      <3> HIDE DEF x, v, n, h, g
      <3>8. w + v >= 0
        BY <3>1, <3>4
      <3>7. SkipBlob(m, h, w) = Got(0, x)
        BY <3>2, <3>5, <3>6, <3>8 DEF SkipBlob
      <3> QED BY <1>6, <3>1, <3>7, Contents
    <2> QED BY <1>6, <2>1, <2>2
  <1> HIDE DEF x, n, res
  <1>8. nc_mp_skip_value(m, r) = Got(0, x)
    BY <1>5, <1>6, <1>7, SkipTakes
  <1> QED BY <1>2, <1>8 DEF res

LEMMA SkipsCount ==
  ASSUME NEW m \in Message, NEW r, Within(m, r), NEW each \in Nat, ~(r.len - 1 < 2)
  PROVE  SkipCount(m, Advance(r, 1), 2, each)
           = Got(each * Number(m, r.at + 1, 2), Advance(r, 3))
  <1> DEFINE h == Advance(r, 1)
  <1>1. h.at = r.at + 1 /\ ~(h.len < 2) /\ Advance(h, 2) = Advance(r, 1 + 2)
    BY AfterMarker
  <1> HIDE DEF h
  <1>2. SkipCount(m, h, 2, each) = Got(each * Number(m, r.at + 1, 2), Advance(r, 3))
    BY <1>1 DEF SkipCount, Count
  <1> QED BY <1>2 DEF h

LEMMA SkipsArray ==
  ASSUME NEW m \in Message, NEW r, Within(m, r), nc_mp_parse_array(m, r).ok, m[r.at] # 221
  PROVE  nc_mp_skip_value(m, r) = Got(nc_mp_parse_array(m, r).val, nc_mp_parse_array(m, r).next)
  <1> DEFINE k == m[r.at]
             v == Number(m, r.at + 1, 2)
             h == Advance(r, 1)
             g == Advance(r, 3)
             res == nc_mp_parse_array(m, r)
  <1>1. /\ ~(r.len < 1) /\ k \in Nat
        /\ \/ k \in 144 .. 159 /\ res = Got(k - 144, h)
           \/ k \in DOMAIN ArrayLen /\ ~(r.len - 1 < ArrayLen[k])
              /\ res = Got(Number(m, r.at + 1, ArrayLen[k]), Advance(r, 1 + ArrayLen[k]))
    BY LengthFrom DEF nc_mp_parse_array
  <1>2. m \in Seq(Byte) /\ Len(m) \in Nat /\ r.len \in Nat
    BY Forward DEF Message
  <1>3. CASE k \in 144 .. 159 /\ res = Got(k - 144, h)
    <2>1. ~(h.len < 0)
      <3>1. h.len = r.len - 1
        BY <1>2, Forward
      <3> HIDE DEF h
      <3> QED BY <1>1, <1>2, <3>1
    <2>2. res.val = k - 144 /\ res.next = h
      BY <1>3, GotReads
    <2> HIDE DEF res
    <2>3. SkipContent(m, k, h) = Got(k - 144, h)
      BY <1>1, <1>3, Contents
    <2>4. nc_mp_skip_value(m, r) = Got(k - 144, h)
      BY <1>1, <2>1, <2>3, SkipTakes
    <2> QED BY <2>2, <2>4 DEF res
  <1>4. CASE k \in DOMAIN ArrayLen /\ ~(r.len - 1 < ArrayLen[k])
             /\ res = Got(Number(m, r.at + 1, ArrayLen[k]), Advance(r, 1 + ArrayLen[k]))
    <2>1. k = 220 /\ ArrayLen[k] = 2
      BY <1>4, Widths DEF ArrayLen, Sized
    <2>2. ~(r.len - 1 < 2) /\ res = Got(v, g)
      BY <1>4, <2>1
    <2>3. SkipCount(m, h, 2, 1) = Got(1 * v, g) /\ ~(g.len < 0)
      BY <2>2, SkipsCount, AfterMarker
    <2>4. v \in Int
      BY <1>2, <2>2, AfterMarker, NumberInteger
    <2>5. res.val = v /\ res.next = g
      BY <2>2, GotReads
    <2> HIDE DEF res, v, g, h
    <2>6. SkipContent(m, k, h) = Got(v, g)
      BY <1>1, <1>4, <2>1, <2>3, <2>4, Contents
    <2>7. nc_mp_skip_value(m, r) = Got(v, g)
      BY <1>1, <2>3, <2>6, SkipTakes DEF h
    <2> QED BY <2>5, <2>7 DEF res
  <1> QED BY <1>1, <1>3, <1>4

LEMMA SkipsMapping ==
  ASSUME NEW m \in Message, NEW r, Within(m, r), nc_mp_parse_mapping(m, r).ok, m[r.at] # 223
  PROVE  nc_mp_skip_value(m, r) = Got(2 * nc_mp_parse_mapping(m, r).val,
                                     nc_mp_parse_mapping(m, r).next)
  <1> DEFINE k == m[r.at]
             v == Number(m, r.at + 1, 2)
             h == Advance(r, 1)
             g == Advance(r, 3)
             res == nc_mp_parse_mapping(m, r)
  <1>1. /\ ~(r.len < 1) /\ k \in Nat
        /\ \/ k \in 128 .. 143 /\ res = Got(k - 128, h)
           \/ k \in DOMAIN MapLen /\ ~(r.len - 1 < MapLen[k])
              /\ res = Got(Number(m, r.at + 1, MapLen[k]), Advance(r, 1 + MapLen[k]))
    BY LengthFrom DEF nc_mp_parse_mapping
  <1>2. m \in Seq(Byte) /\ Len(m) \in Nat /\ r.len \in Nat
    BY Forward DEF Message
  <1>3. CASE k \in 128 .. 143 /\ res = Got(k - 128, h)
    <2>1. ~(h.len < 0)
      <3>1. h.len = r.len - 1
        BY <1>2, Forward
      <3> HIDE DEF h
      <3> QED BY <1>1, <1>2, <3>1
    <2>2. res.val = k - 128 /\ res.next = h
      BY <1>3, GotReads
    <2> HIDE DEF res
    <2>3. SkipContent(m, k, h) = Got(2 * (k - 128), h)
      BY <1>1, <1>3, Contents
    <2>4. nc_mp_skip_value(m, r) = Got(2 * (k - 128), h)
      BY <1>1, <2>1, <2>3, SkipTakes
    <2> QED BY <2>2, <2>4 DEF res
  <1>4. CASE k \in DOMAIN MapLen /\ ~(r.len - 1 < MapLen[k])
             /\ res = Got(Number(m, r.at + 1, MapLen[k]), Advance(r, 1 + MapLen[k]))
    <2>1. k = 222 /\ MapLen[k] = 2
      BY <1>4, Widths DEF MapLen, Sized
    <2>2. ~(r.len - 1 < 2) /\ res = Got(v, g)
      BY <1>4, <2>1
    <2>3. SkipCount(m, h, 2, 2) = Got(2 * v, g) /\ ~(g.len < 0)
      BY <2>2, SkipsCount, AfterMarker
    <2>4. v \in Int
      BY <1>2, <2>2, AfterMarker, NumberInteger
    <2>5. res.val = v /\ res.next = g
      BY <2>2, GotReads
    <2> HIDE DEF res, v, g, h
    <2>6. SkipContent(m, k, h) = Got(2 * v, g)
      BY <1>1, <1>4, <2>1, <2>3, <2>4, Contents
    <2>7. nc_mp_skip_value(m, r) = Got(2 * v, g)
      BY <1>1, <2>3, <2>6, SkipTakes DEF h
    <2> QED BY <2>5, <2>7 DEF res
  <1> QED BY <1>1, <1>3, <1>4

-----------------------------------------------------------------------------
(* The steps of nc_parse_and_apply. Each takes the cursor from what the      *)
(* functions of the reader yielded, one after the other, or leaves a loop or *)
(* counts down.                                                              *)

Held == msg \in Replies /\ Within(M, c) /\ rest \in Int
Moves == /\ msg' = msg /\ rest' \in Int
         /\ \/ Behind(M, c, c')
            \/ c' = c /\ Depth[phase'] < Depth[phase]
            \/ c' = c /\ phase' = phase /\ 0 <= rest' /\ rest' < rest

LEMMA HeldMessage == msg \in Replies => M \in Message
  BY ReplyAssumption DEF ReplyAssumption, Message, M

LEMMA Depths ==
  /\ \A p \in Verdicts : Depth[p] = 0
  /\ \A p \in Outer : Depth[p] = 1
  /\ \A p \in Inner : Depth[p] = 2
  /\ \A p \in Innermost : Depth[p] = 3
  BY DEF Depth, Verdicts, Outer, Inner, Innermost

Reading == Outer \union Inner \union Innermost

(* A cursor that is no further back than one that was read from.             *)
LEMMA Onward ==
  ASSUME Held, NEW r, NEW x, c.at <= r.at, Within(M, r), Behind(M, r, x)
  PROVE  Behind(M, c, x)
  <1>1. Len(M) \in Nat
    BY HeldMessage DEF Held, Message
  <1> QED BY <1>1 DEF Held, Behind, Within

LEMMA Chained ==
  ASSUME Held, NEW r, Behind(M, c, r) PROVE c.at <= r.at /\ Within(M, r)
  <1>1. Len(M) \in Nat
    BY HeldMessage DEF Held, Message
  <1> QED BY <1>1 DEF Held, Behind, Within

LEMMA StopMoves ==
  ASSUME Held, phase \in Reading, NEW verdict \in Verdicts, Stop(verdict) PROVE Moves
  <1>1. Depth[verdict] < Depth[phase]
    BY Depths DEF Reading
  <1> QED BY <1>1 DEF Held, Stop, Moves

LEMMA RefuseMoves ==
  ASSUME Held, phase \in Reading, Refuse \/ \E res : Reject(res) PROVE Moves
  BY StopMoves DEF Refuse, Reject, Verdicts

LEMMA ScalarReads ==
  ASSUME Held, NEW r, Within(M, r)
  PROVE  Reads(M, r, Scalar(r)) /\ (Scalar(r) = Astray => ~ShortLengths(M))
  <1> DEFINE int == nc_mp_parse_int(M, r)
             str == nc_mp_parse_string(M, r)
             u == [int |-> int.val]
             v == [str |-> str.val]
             res == Scalar(r)
  <1>1. M \in Message
    BY HeldMessage DEF Held
  <1>2. Reads(M, r, int) /\ Reads(M, r, str)
    BY <1>1, IntReads, StringReads
  <1>3. res = IF int.ok THEN Got(u, int.next) ELSE IF str.ok THEN Got(v, str.next) ELSE str
    BY DEF Scalar
  <1>4. str = Astray => ~ShortLengths(M)
    BY <1>1, StringReads
  <1> HIDE DEF int, str, u, v, res
  <1>5. \/ res = str
        \/ res = Got(u, int.next) /\ Behind(M, r, int.next)
        \/ res = Got(v, str.next) /\ Behind(M, r, str.next)
    BY <1>2, <1>3 DEF Reads
  <1>6. Reads(M, r, res) /\ (res = Astray => ~ShortLengths(M))
    BY <1>2, <1>4, <1>5, GotReads
  <1> QED BY <1>6 DEF res

LEMMA SetMoves ==
  ASSUME Held, phase \in Reading, NEW lev, NEW id, NEW r, c.at <= r.at, Within(M, r),
         nc_parse_and_set_option(lev, id, r)
  PROVE  Moves
  <1> DEFINE one == Scalar(r)
             arr == nc_mp_parse_array(M, r)
  <1>1. Reads(M, r, one) /\ Reads(M, r, arr) /\ (arr.ok => arr.val \in Int)
    BY HeldMessage, ScalarReads, ArrayReads DEF Held
  <1>2. \/ one.ok /\ c' = one.next /\ msg' = msg /\ rest' = rest
        \/ arr.ok /\ c' = arr.next /\ msg' = msg /\ rest' = arr.val
        \/ Reject(one)
    BY DEF nc_parse_and_set_option
  <1> HIDE DEF one, arr
  <1> QED BY <1>1, <1>2, RefuseMoves, Onward DEF Reads, Moves, Held

LEMMA BeginMoves == ASSUME Held, Begin PROVE Moves
  <1> DEFINE arr == nc_mp_parse_array(M, c)
             code == nc_mp_parse_int(M, arr.next)
             opts == nc_mp_parse_mapping(M, code.next)
  <1>1. M \in Message /\ Within(M, c) /\ phase \in Reading
    BY HeldMessage DEF Held, Begin, Reading, Outer, Inner, Innermost
  <1>2. /\ Reads(M, c, arr)
        /\ Within(M, arr.next) => Reads(M, arr.next, code)
        /\ Within(M, code.next) => Reads(M, code.next, opts)
    BY <1>1, ArrayReads, IntReads
  <1>3. \/ Stop("refused") \/ Stop("crashed")
        \/ arr.ok /\ code.ok /\ opts.ok /\ c' = opts.next /\ msg' = msg /\ rest' = rest
    BY DEF Begin, ErrorReply, Refuse
  <1> HIDE DEF arr, code, opts
  <1>4. CASE arr.ok /\ code.ok /\ opts.ok /\ c' = opts.next /\ msg' = msg /\ rest' = rest
    <2>1. Behind(M, c, arr.next)
      BY <1>2, <1>4 DEF Reads
    <2>2. Behind(M, c, code.next)
      BY <1>2, <1>4, <2>1, Chained, Onward DEF Reads
    <2>3. Behind(M, c, opts.next)
      BY <1>2, <1>4, <2>2, Chained, Onward DEF Reads
    <2> QED BY <1>4, <2>3 DEF Moves, Held
  <1> QED BY <1>1, <1>3, <1>4, StopMoves DEF Verdicts

LEMMA OptionMoves == ASSUME Held, SocketOption \/ AddressOption PROVE Moves
  <1> DEFINE key == nc_mp_parse_string(M, c)
  <1>1. Reads(M, c, key) /\ phase \in Reading
    BY HeldMessage, StringReads DEF Held, SocketOption, AddressOption, Reading, Outer, Inner, Innermost
  <1>2. \/ Reject(key)
        \/ key.ok /\ \E lev : nc_parse_and_set_option(lev, key.val, key.next)
        \/ key.ok /\ StartSkip(1, key.next)
    BY DEF SocketOption, AddressOption
  <1> HIDE DEF key
  <1>3. CASE Reject(key)
    BY <1>1, <1>3, RefuseMoves
  <1>4. CASE key.ok /\ \E lev : nc_parse_and_set_option(lev, key.val, key.next)
    BY <1>1, <1>4, SetMoves, Chained DEF Reads
  <1>5. CASE key.ok /\ StartSkip(1, key.next)
    BY <1>1, <1>5 DEF Reads, StartSkip, Moves
  <1> QED BY <1>2, <1>3, <1>4, <1>5

LEMMA ValueMoves ==
  ASSUME Held, Element \/ ElementsEnd \/ Skip \/ SocketSkipped \/ AddressSkipped
  PROVE  Moves
  <1> DEFINE v == Scalar(c)
             over == nc_mp_skip_value(M, c)
  <1>1. /\ Within(M, c) /\ rest \in Int /\ Reads(M, c, v) /\ Reads(M, c, over)
        /\ over.ok => over.val \in Int
    BY HeldMessage, ScalarReads, SkipReads DEF Held
  <1>2. CASE Element
    <2>1. /\ phase \in Reading
          /\ \/ Reject(v)
             \/ /\ msg' = msg /\ phase' = phase /\ rest > 0 /\ rest' = rest - 1
                /\ c' = c \/ (v.ok /\ c' = v.next)
      BY <1>2 DEF Element, Reading, Outer, Inner, Innermost
    <2> HIDE DEF v
    <2> QED BY <1>1, <2>1, RefuseMoves DEF Reads, Moves
  <1>3. CASE Skip
    <2>1. /\ phase \in Reading
          /\ Reject(over) \/ (msg' = msg /\ over.ok /\ c' = over.next /\ rest' = rest - 1 + over.val)
      BY <1>3 DEF Skip, Reading, Outer, Inner, Innermost
    <2> HIDE DEF over
    <2> QED BY <1>1, <2>1, RefuseMoves DEF Reads, Moves
  <1>4. CASE ElementsEnd \/ SocketSkipped
    <2>1. /\ msg' = msg /\ c' = c /\ rest' = rest
          /\ phase \in Innermost /\ phase' \in Inner
      BY <1>4 DEF ElementsEnd, SocketSkipped, NextOption, Inner, Innermost
    <2>2. Depth[phase] = 3 /\ Depth[phase'] = 2
      BY <2>1, Depths
    <2> QED BY <1>1, <2>1, <2>2 DEF Moves
  <1>5. CASE AddressSkipped
    <2>1. phase \in Reading /\ c.at <= c.at
      BY SMTT(30), <1>1, <1>5 DEF AddressSkipped, Reading, Outer, Inner, Innermost, Within
    <2> QED BY <1>1, <1>5, <2>1, SetMoves DEF AddressSkipped
  <1> QED BY <1>2, <1>3, <1>4, <1>5

LEMMA AddressMoves == ASSUME Held, Address PROVE Moves
  <1> DEFINE n == nc_mp_parse_array(M, c)
             kind == nc_mp_parse_int(M, n.next)
             addr == nc_mp_parse_string(M, kind.next)
             opts == nc_mp_parse_mapping(M, addr.next)
             start == addr.next.at - Len(addr.val)
             transport(at) == SubSeq(M, start, at - 1)
  <1>1. M \in Message /\ Within(M, c) /\ phase \in Reading /\ rest \in Int
    BY HeldMessage DEF Held, Address, Reading, Outer, Inner, Innermost
  <1>2. /\ Reads(M, c, n)
        /\ Within(M, n.next) => Reads(M, n.next, kind)
        /\ Within(M, kind.next) => Reads(M, kind.next, addr)
        /\ Within(M, addr.next) => Reads(M, addr.next, opts)
    BY <1>1, ArrayReads, IntReads, StringReads
  <1>3. Len(M) + 1 \in Int
    BY <1>1 DEF Message
  <1> DEFINE Rest(at) == \/ SkipTransport(n.val, addr.next)
                         \/ WithOptions(kind.val, addr.val, transport(at), addr.next)
                         \/ /\ TakeAddress(kind.val, addr.val, addr.next)
                            /\ msg' = msg /\ rest' = rest
  <1>4. Refuse \/ Reject(addr) \/ (n.ok /\ kind.ok /\ addr.ok /\ \E at : Rest(at))
    BY DEF Address
  <1>5. CASE Refuse \/ Reject(addr)
    BY <1>1, <1>5, RefuseMoves
  <1>6. ASSUME n.ok, kind.ok, addr.ok, NEW at, Rest(at)
        PROVE  Moves
    <2>1. \/ Refuse
          \/ msg' = msg /\ rest' \in {rest, Len(M) + 1} /\ c' = addr.next
          \/ msg' = msg /\ rest' = rest /\ opts.ok /\ c' = opts.next
      BY Zenon, <1>6 DEF SkipTransport, StartSkip, WithOptions, TakeAddress
    <2> HIDE DEF n, kind, addr, opts, Rest
    <2>2. Behind(M, c, n.next)
      BY <1>2, <1>6 DEF Reads
    <2>3. Behind(M, c, kind.next)
      BY <1>2, <1>6, <2>2, Chained, Onward DEF Reads
    <2>4. Behind(M, c, addr.next)
      BY <1>2, <1>6, <2>3, Chained, Onward DEF Reads
    <2>5. opts.ok => Behind(M, c, opts.next)
      BY <1>2, <2>4, Chained, Onward DEF Reads
    <2>6. rest' \in Int \/ Refuse
      BY <1>1, <1>3, <2>1
    <2> QED BY SMTT(30), <1>1, <2>1, <2>4, <2>5, <2>6, RefuseMoves DEF Moves
  <1> QED BY <1>4, <1>5, <1>6

LEMMA ListMoves ==
  ASSUME Held, AddressList \/ AddressOptionsEnd \/ TopicList \/ Topic \/ Done
  PROVE  Moves
  <1> DEFINE arr == nc_mp_parse_array(M, c)
             name == nc_mp_parse_string(M, c)
  <1>1. Within(M, c) /\ rest \in Int /\ Reads(M, c, arr) /\ Reads(M, c, name)
    BY HeldMessage, ArrayReads, StringReads DEF Held
  <1>2. phase \in Reading
    BY DEF AddressList, AddressOptionsEnd, TopicList, Topic, Done, Reading, Outer, Inner, Innermost
  <1>3. \/ Stop("refused") \/ Stop("applied") \/ Reject(name)
        \/ /\ msg' = msg /\ c' = c /\ rest' = rest
           /\ phase \in Inner /\ phase' \in Outer
        \/ msg' = msg /\ rest' = rest /\ arr.ok /\ c' = arr.next
        \/ msg' = msg /\ rest' = rest /\ name.ok /\ c' = name.next
    BY DEF AddressList, AddressOptionsEnd, TakeAddress, TopicList, Topic, Done, Refuse, Inner, Outer
  <1> HIDE DEF arr, name
  <1>4. CASE Stop("refused") \/ Stop("applied") \/ Reject(name)
    BY <1>2, <1>4, StopMoves, RefuseMoves DEF Verdicts
  <1>5. CASE /\ msg' = msg /\ c' = c /\ rest' = rest
             /\ phase \in Inner /\ phase' \in Outer
    <2>1. Depth[phase] = 2 /\ Depth[phase'] = 1
      BY <1>5, Depths
    <2> QED BY <1>1, <1>5, <2>1 DEF Moves
  <1> QED BY <1>1, <1>3, <1>4, <1>5 DEF Reads, Moves

LEMMA HeldInit == Init => Held
  <1> SUFFICES ASSUME Init PROVE Held
    OBVIOUS
  <1>1. msg \in Replies /\ c = [at |-> 1, len |-> Len(M)] /\ rest = 0
    BY DEF Init
  <1>2. Len(M) \in Nat
    BY <1>1, HeldMessage DEF Message
  <1> QED BY <1>1, <1>2 DEF Held, Within

LEMMA HeldStep == ASSUME Held, [Next]_vars PROVE Held' /\ [NextCloser]_vars
  <1>1. CASE UNCHANGED vars
    BY <1>1 DEF vars, Held, M, Within
  <1>2. CASE Next /\ ~Returned
    <2>1. Moves
      BY <1>2, BeginMoves, OptionMoves, ValueMoves, AddressMoves, ListMoves DEF Next
    <2>2. M' = M /\ Len(M) \in Nat
      BY <2>1, HeldMessage DEF Moves, M, Held, Message
    <2>3. Within(M, c')
      BY <2>1 DEF Moves, Behind, Held
    <2>4. CASE Behind(M, c, c')
      <3>1. c'.len < c.len
        BY <2>2, <2>4 DEF Behind, Within, Held
      <3> QED BY <2>1, <2>2, <2>3, <3>1 DEF Held, Moves, NextCloser
    <2>5. CASE c' = c /\ \/ Depth[phase'] < Depth[phase]
                         \/ phase' = phase /\ 0 <= rest' /\ rest' < rest
      BY <2>1, <2>2, <2>3, <2>5 DEF Held, Moves, NextCloser
    <2> QED BY <2>1, <2>4, <2>5 DEF Moves
  <1> QED BY <1>1, <1>2 DEF Returned

(* Only a function that reads a string or skips a value leads astray.        *)
LEMMA RejectedFor ==
  ASSUME NEW res, phase' = "astray", Reject(res) PROVE res = Astray
  BY DEF Reject, Stop

LEMMA SetAstray ==
  ASSUME Held, phase' = "astray", NEW lev, NEW id, NEW r, Within(M, r),
         nc_parse_and_set_option(lev, id, r)
  PROVE  ~ShortLengths(M)
  <1> DEFINE one == Scalar(r)
  <1>1. one = Astray => ~ShortLengths(M)
    BY ScalarReads
  <1>2. Reject(one) \/ NextOption \/ phase' = "values"
    BY DEF nc_parse_and_set_option
  <1> HIDE DEF one
  <1> QED BY <1>1, <1>2, RejectedFor DEF NextOption

LEMMA GoesAstray ==
  ASSUME Held, Next, phase # "astray", phase' = "astray" PROVE ~ShortLengths(M)
  <1> DEFINE str == nc_mp_parse_string(M, c)
             one == Scalar(c)
             over == nc_mp_skip_value(M, c)
  <1>1. /\ M \in Message /\ Within(M, c) /\ Reads(M, c, str)
        /\ str = Astray \/ one = Astray \/ over = Astray => ~ShortLengths(M)
    BY HeldMessage, StringReads, ScalarReads, SkipReads DEF Held
  <1>2. CASE SocketOption \/ AddressOption
    <2>1. \/ Reject(str) \/ phase' = "skip"
          \/ str.ok /\ \E lev : nc_parse_and_set_option(lev, str.val, str.next)
      BY <1>2 DEF SocketOption, AddressOption, StartSkip
    <2> HIDE DEF str
    <2> QED BY <1>1, <2>1, RejectedFor, SetAstray DEF Reads, Behind
  <1>3. CASE AddressSkipped
    BY <1>1, <1>3, SetAstray DEF AddressSkipped
  <1>4. CASE Element
    <2>1. Reject(one) \/ phase' = phase
      BY <1>4 DEF Element
    <2> HIDE DEF one
    <2> QED BY <1>1, <2>1, RejectedFor
  <1>5. CASE Skip
    <2>1. Reject(over) \/ phase' = phase
      BY <1>5 DEF Skip
    <2> HIDE DEF over
    <2> QED BY <1>1, <2>1, RejectedFor
  <1>6. CASE Topic
    <2>1. Reject(str) \/ phase' = phase
      BY <1>6 DEF Topic
    <2> HIDE DEF str
    <2> QED BY <1>1, <2>1, RejectedFor
  <1>7. CASE Address
    <2> DEFINE n == nc_mp_parse_array(M, c)
               kind == nc_mp_parse_int(M, n.next)
               addr == nc_mp_parse_string(M, kind.next)
    <2>1. Reads(M, c, n) /\ (Within(M, n.next) => Reads(M, n.next, kind))
      BY <1>1, ArrayReads, IntReads
    <2>2. n.ok /\ kind.ok => (addr = Astray => ~ShortLengths(M))
      BY <1>1, <2>1, StringReads DEF Reads, Behind
    <2>3. n.ok /\ kind.ok /\ Reject(addr)
      <3>1. \/ n.ok /\ kind.ok /\ Reject(addr)
            \/ phase' = "refused"
            \/ phase' = phase
            \/ phase' \in {"skip", "addresses", "address options"}
        BY Zenon, <1>7 DEF Address, Refuse, Stop, SkipTransport, StartSkip, WithOptions, TakeAddress
      <3> HIDE DEF n, kind, addr
      <3> QED BY <3>1
    <2> HIDE DEF n, kind, addr
    <2> QED BY <2>2, <2>3, RejectedFor
  <1>8. CASE \/ Begin \/ ElementsEnd \/ SocketSkipped \/ AddressList
             \/ AddressOptionsEnd \/ TopicList \/ Done \/ Returned
    <2>1. phase' \in {phase, "refused", "crashed", "applied", "options", "address options",
                      "addresses", "topics"}
      BY <1>8 DEF Begin, ErrorReply, Refuse, Stop, ElementsEnd, SocketSkipped, NextOption,
                  AddressList, AddressOptionsEnd, TakeAddress, TopicList, Done, Returned, vars
    <2> QED BY <2>1
  <1> QED BY <1>2, <1>3, <1>4, <1>5, <1>6, <1>7, <1>8 DEF Next

(* Whatever a reply contains, wherever it was cut off and whatever it        *)
(* claims, the reader never passes its end or goes back, unless it meets a   *)
(* length of 2^31 or more.                                                   *)
THEOREM StaysInside == Spec => []Inside
  <1> DEFINE Straight == phase = "astray" => ~ShortLengths(M)
  <1>1. Init => Held /\ Straight
    BY HeldInit DEF Init
  <1>2. Held /\ Straight /\ [Next]_vars => (Held /\ Straight)'
    <2> SUFFICES ASSUME Held, Straight, [Next]_vars PROVE Held' /\ Straight'
      OBVIOUS
    <2>1. Held'
      BY HeldStep
    <2>2. M' = M
      <3>1. CASE UNCHANGED vars
        BY <3>1 DEF vars, M
      <3>2. CASE Next /\ ~Returned
        BY <3>2, BeginMoves, OptionMoves, ValueMoves, AddressMoves, ListMoves DEF Next, Moves, M
      <3> QED BY <3>1, <3>2 DEF Returned
    <2>3. phase' = "astray" /\ phase # "astray" => ~ShortLengths(M)
      <3>1. CASE UNCHANGED vars
        BY <3>1 DEF vars
      <3>2. CASE Next
        BY <3>2, GoesAstray
      <3> QED BY <3>1, <3>2
    <2> QED BY <2>1, <2>2, <2>3
  <1>3. Held /\ Straight => Inside
    BY DEF Held, Within, Inside
  <1> QED BY <1>1, <1>2, <1>3, PTL DEF Spec

(* Nor does any reply keep it for ever: with each step the part of the       *)
(* message still to read, the depth of the loops and what is left to count   *)
(* become less, the first before the second and the second before the third. *)
(* A reader that is led astray stops in the model: what it does from there   *)
(* is not claimed.                                                           *)
THEOREM ComesToAnEnd == Spec => Closer
  <1>1. Held /\ [Next]_vars => Held' /\ [NextCloser]_vars
    BY HeldStep
  <1> QED BY HeldInit, <1>1, PTL DEF Spec, Closer

(* Wherever the reader stands and whatever lies there, skipping a value ends *)
(* where a successful reading of it ends.                                    *)
THEOREM SkippedAsRead == Spec => []SkipsAlike
  <1>1. Held => SkipsAlike
    <2> DEFINE one == Scalar(c)
               int == nc_mp_parse_int(M, c)
               str == nc_mp_parse_string(M, c)
               over == nc_mp_skip_value(M, c)
    <2> SUFFICES ASSUME Held PROVE SkipsAlike
      OBVIOUS
    <2>1. M \in Message /\ Within(M, c)
      BY HeldMessage DEF Held
    <2>2. /\ int.ok => over = Got(0, int.next)
          /\ str.ok => over = Got(0, str.next)
      BY <2>1, SkipsInt, SkipsString
    <2>3. one.ok => (int.ok /\ one.next = int.next) \/ (str.ok /\ one.next = str.next)
      <3> DEFINE u == [int |-> int.val]
                 v == [str |-> str.val]
      <3>1. one = IF int.ok THEN Got(u, int.next)
                  ELSE IF str.ok THEN Got(v, str.next) ELSE str
        BY DEF Scalar
      <3> HIDE DEF one, int, str, u, v
      <3> QED BY <3>1, FailReads, GotReads
    <2>4. one.ok => over = Got(0, one.next)
      <3> HIDE DEF one, int, str, over
      <3> QED BY <2>2, <2>3
    <2>5. /\ nc_mp_parse_array(M, c).ok /\ M[c.at] # 221
               => over = Got(nc_mp_parse_array(M, c).val, nc_mp_parse_array(M, c).next)
          /\ nc_mp_parse_mapping(M, c).ok /\ M[c.at] # 223
               => over = Got(2 * nc_mp_parse_mapping(M, c).val, nc_mp_parse_mapping(M, c).next)
      BY <2>1, SkipsArray, SkipsMapping
    <2> QED BY <2>4, <2>5 DEF SkipsAlike
  <1>2. Held /\ [Next]_vars => Held'
    BY HeldStep
  <1> QED BY HeldInit, <1>1, <1>2, PTL DEF Spec
=============================================================================
