------------------------------ MODULE Msgpack ------------------------------
(* The msgpack reader (src/src/utils/msgpack.c). A message is a sequence of  *)
(* bytes; a cursor says which byte is the next one and how many are left,    *)
(* like the buf and len of the code, and stays put when a function fails.    *)
(* The code keeps a length in an int, so that one of 2^31 or more is below   *)
(* zero: see Astray.                                                         *)
EXTENDS Integers, FiniteSetsExt, SequencesExt, TLC

CONSTANT SignedChar    \* is char a signed type, as it is on x86?

Byte == 0 .. 255

(* No string, binary data or extension in m claims a length of 2^31 or more. *)
(* This asks more than that: not every byte that looks like a marker is one. *)
ShortLengths(m) ==
  /\ \A k \in 1 .. Len(m) - 1 : m[k] \in {198, 219} => m[k + 1] < 128
  /\ \A k \in 1 .. Len(m) - 2 : m[k] = 201 => m[k + 2] < 128

(* The code fails, or takes a length below zero for a good one and points    *)
(* its buf at bytes that are not the next ones: further back, maybe in front *)
(* of the message, or 2^32 - 1 bytes and less ahead. What the code makes of  *)
(* the bytes it finds there is not modelled.                                 *)
Fail == [ok |-> FALSE, astray |-> FALSE]
Astray == [ok |-> FALSE, astray |-> TRUE]
Advance(c, n) == [at |-> c.at + n, len |-> c.len - n]
Got(v, c) == [ok |-> TRUE, val |-> v, next |-> c]

(* The value of one or two bytes as a signed number of that width.           *)
Signed(n, w) == LET half == IF w = 1 THEN 128 ELSE 32768 IN
                IF n < half THEN n ELSE n - 2 * half

(* Mutant of Number: the bytes are taken in the order of an x86.             *)
LittleEndian(m, at, w) ==
  LET top == m[at + w - 1] IN
  FoldRight(LAMBDA b, n : 256 * n + b, SubSeq(m, at, at + w - 2),
            IF w = 4 THEN Signed(top, 1) ELSE top)

(* be16toh and be32toh of the w bytes at a position. 32 bits end up in an    *)
(* int; for those that do not see SkipBlob.                                  *)
Number(m, at, w) ==
  CASE w = 1 -> m[at]
    [] w = 2 -> 256 * m[at] + m[at + 1]
    [] w = 4 -> 256 * (256 * (256 * Signed(m[at], 1) + m[at + 1]) + m[at + 2])
                  + m[at + 3]

(* The bytes that follow a marker: one, two or four.                         *)
Sized(one, two, four) == [k \in one \union two \union four |->
                            IF k \in one THEN 1 ELSE IF k \in two THEN 2 ELSE 4]
Integer == Sized({204, 208}, {205, 209}, {206, 210})
StringLen == Sized({217}, {218}, {219})
ArrayLen == Sized({}, {220}, {221})
MapLen == Sized({}, {222}, {223})

(* 64-bit integers are an error.                                             *)
nc_mp_parse_int(m, c) ==
  IF c.len < 1 THEN Fail
  ELSE LET k == m[c.at]
           w == Integer[k]
           n == Number(m, c.at + 1, w) IN
       IF k < 128 \/ k >= 224 THEN Got(Signed(k, 1), Advance(c, 1))
       ELSE IF k \notin DOMAIN Integer \/ c.len - 1 < w THEN Fail
       ELSE Got(IF k = 209 \/ (k = 208 /\ SignedChar) THEN Signed(n, w) ELSE n,
                Advance(c, 1 + w))

(* The length of a string, array or mapping: within the marker for those     *)
(* from fix on, or in the bytes after it.                                    *)
Length(m, c, fix, span, Wide) ==
  IF c.len < 1 THEN Fail
  ELSE LET k == m[c.at]
           w == Wide[k] IN
       IF k \in fix .. fix + span - 1 THEN Got(k - fix, Advance(c, 1))
       ELSE IF k \notin DOMAIN Wide \/ c.len - 1 < w THEN Fail
       ELSE Got(Number(m, c.at + 1, w), Advance(c, 1 + w))

nc_mp_parse_array(m, c) == Length(m, c, 144, 16, ArrayLen)
nc_mp_parse_mapping(m, c) == Length(m, c, 128, 16, MapLen)

(* Mutant of nc_mp_parse_string: the length is believed, and zeros are read. *)
StringUnchecked(m, c) ==
  LET n == Length(m, c, 160, 32, StringLen) IN
  IF ~n.ok THEN Fail
  ELSE Got([k \in 1 .. n.val |-> IF n.next.at + k - 1 \in DOMAIN m
                                 THEN m[n.next.at + k - 1] ELSE 0],
           Advance(n.next, n.val))

nc_mp_parse_string(m, c) ==
  LET n == Length(m, c, 160, 32, StringLen) IN
  IF ~n.ok THEN Fail
  ELSE IF n.next.len < n.val THEN Fail
  ELSE IF n.val < 0 THEN Astray
  ELSE Got(SubSeq(m, n.next.at, n.next.at + n.val - 1), Advance(n.next, n.val))

-----------------------------------------------------------------------------
(* nc_mp_skip_value, for one value. It yields how many values this one       *)
(* contains: for those the code calls itself, and fails where one of these   *)
(* calls fails.                                                              *)

(* Markers whose value has a fixed size: the bytes after the marker.         *)
Fixed == [k \in (0 .. 127) \union (224 .. 255) \union {192, 194, 195}
                 \union (202 .. 216) |->
            IF k \in 202 .. 216
              THEN <<4, 8, 1, 2, 4, 8, 1, 2, 4, 8, 2, 3, 5, 9, 17>>[k - 201]
              ELSE 0]

(* Binary data and strings, and extensions, whose type byte the code expects *)
(* before the length.                                                        *)
Extension == Sized({199}, {200}, {201})
Blob == Sized({217, 196}, {218, 197}, {219, 198})

(* The length of an array or mapping. Four bytes are read as two of them,    *)
(* which on a little-endian machine are the upper half.                      *)
Count(m, at, w) == IF w = 2 THEN Number(m, at, 2)
                   ELSE Number(m, at, 2) * 65536

(* Mutant of SkipBlob: only the content is skipped, not its length.          *)
SkipBlobContent(m, c, w) ==
  IF c.len < w THEN Fail ELSE Got(0, Advance(c, Number(m, c.at, w)))

(* Here 32 bits are unsigned, and so is the sum by which buf goes ahead; len *)
(* wraps, and where it does not pass 2^31 - 1 it grows by what is left out.  *)
SkipBlob(m, c, w) ==
  LET n == Number(m, c.at, w) IN
  IF c.len < w THEN Fail
  ELSE IF w + n >= 0 THEN Got(0, Advance(c, w + n))
  ELSE IF n < c.len - w - 2147483647 THEN Fail
  ELSE Astray

SkipCount(m, c, w, each) ==
  IF c.len < w THEN Fail
  ELSE Got(each * Count(m, c.at, w), Advance(c, w))

SkipContent(m, k, c) ==
  IF k \in DOMAIN Fixed THEN Got(0, Advance(c, Fixed[k]))
  ELSE IF k \in 128 .. 143 THEN Got(2 * (k - 128), c)
  ELSE IF k \in 144 .. 159 THEN Got(k - 144, c)
  ELSE IF k \in 160 .. 191 THEN Got(0, Advance(c, k - 160))
  ELSE IF k \in DOMAIN Extension THEN SkipBlob(m, Advance(c, 1), Extension[k])
  ELSE IF k \in DOMAIN Blob THEN SkipBlob(m, c, Blob[k])
  ELSE IF k \in DOMAIN ArrayLen THEN SkipCount(m, c, ArrayLen[k], 1)
  ELSE IF k \in DOMAIN MapLen THEN SkipCount(m, c, MapLen[k], 2)
  ELSE Fail

(* Mutant of nc_mp_skip_value: the marker is not taken off.                  *)
SkipUnmarked(m, c) ==
  IF c.len < 1 THEN Fail
  ELSE LET r == SkipContent(m, m[c.at], c) IN
       IF ~r.ok THEN Fail
       ELSE IF r.next.len < 0 THEN Fail ELSE r

nc_mp_skip_value(m, c) ==
  IF c.len < 1 THEN Fail
  ELSE LET r == SkipContent(m, m[c.at], Advance(c, 1)) IN
       IF ~r.ok THEN r
       ELSE IF r.next.len < 0 THEN Fail ELSE r
=============================================================================
