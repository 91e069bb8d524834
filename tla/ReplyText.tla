----------------------------- MODULE ReplyText -----------------------------
(* How a reply is written, as the author of a configuration service finds it *)
(* in the format of msgpack and in the documentation of nanoconfig: what     *)
(* NcReply reads is measured against this. A text is a reply with the places *)
(* where its parts begin and with what it asks the worker to do, in turn:    *)
(*   bytes, end    the message, and where that ends which matters today      *)
(*   meant         the calls it asks for                                     *)
(*   ralen         the elements of the reply                                 *)
(*   options, addresses, topics   lists: the items, the places between them, *)
(*                 from 0 on, and how many calls come before each place      *)
EXTENDS Msgpack

CONSTANTS Symbols,     \* nn_symbol: names of options, with the protocol or
                       \* transport that is the prefix of the name, and length
          Transports,  \* names of transports, without the NN_
          Protocol,    \* self->protocol, and
          ProtocolLen  \* its length

Colon == 58
SolSocket == <<>>    \* the level NN_SOL_SOCKET; others bear their owner's name

SetCall(lev, id, v) == [call |-> "option", level |-> lev, id |-> id, val |-> v]
Endpoint(kind, addr) == [call |-> "endpoint", kind |-> kind, addr |-> addr]
Subscribed(name) == [call |-> "topic", name |-> name]

-----------------------------------------------------------------------------
(* The format of msgpack: what is written in text w from place p up to q.    *)

Part(w, p, q) == p \in 1 .. w.end /\ q \in 1 .. w.end /\ p < q

(* The last bytes of n, the highest first.                                   *)
Power == <<1, 256, 65536, 16777216>>
BigEndian(w, p, width, n) ==
  \A k \in 0 .. width - 1 : w.bytes[p + k] = (n \div Power[width - k]) % 256

(* An integer of at most 32 bits. Where char is not signed the worker takes  *)
(* a negative one of eight bits for a positive one.                          *)
IntAt(w, p, n, q) ==
  /\ Part(w, p, q) /\ n \in Int
  /\ LET k == w.bytes[p] IN
     \/ q = p + 1 /\ -32 <= n /\ n < 128 /\ k = n % 256
     \/ /\ q = p + 2 /\ BigEndian(w, p + 1, 1, n)
        /\ \/ k = 204 /\ 0 <= n /\ n < 256
           \/ k = 208 /\ -128 <= n /\ n < 128 /\ (n < 0 => SignedChar)
     \/ /\ q = p + 3 /\ BigEndian(w, p + 1, 2, n)
        /\ \/ k = 205 /\ 0 <= n /\ n < 65536
           \/ k = 209 /\ -32768 <= n /\ n < 32768
     \/ /\ q = p + 5 /\ BigEndian(w, p + 1, 4, n)
        /\ -128 <= n \div 16777216 /\ n \div 16777216 < 128
        /\ (k = 206 /\ 0 <= n) \/ k = 210

(* A length: within the marker, or after a marker of its own for each width. *)
Marks(one, two, four) == [width \in {1, 2, 4} |-> IF width = 1 THEN one
                                                 ELSE IF width = 2 THEN two ELSE four]
StrMarks == Marks(217, 218, 219)
BinMarks == Marks(196, 197, 198)
ArrMarks == Marks(-1, 220, 221)
MapMarks == Marks(-1, 222, 223)
ShortArrMarks == Marks(-1, 220, -1)
ShortMapMarks == Marks(-1, 222, -1)

LengthAt(w, p, n, fix, span, marks, q) ==
  /\ Part(w, p, q) /\ n \in Nat
  /\ \/ q = p + 1 /\ n < span /\ w.bytes[p] = fix + n
     \/ \E width \in {1, 2, 4} :
          /\ q = p + 1 + width /\ w.bytes[p] = marks[width]
          /\ n \div Power[width] < (IF width = 4 THEN 128 ELSE 256)
          /\ BigEndian(w, p + 1, width, n)

ArrAt(w, p, n, q) == LengthAt(w, p, n, 144, 16, ArrMarks, q)
MapAt(w, p, n, q) == LengthAt(w, p, n, 128, 16, MapMarks, q)

StrAt(w, p, s, q) ==
  \E d \in p + 1 .. q : /\ LengthAt(w, p, q - d, 160, 32, StrMarks, d)
                        /\ Part(w, p, q) /\ s = SubSeq(w.bytes, d, q - 1)

ScalarAt(w, p, v, q) ==
  \/ "int" \in DOMAIN v /\ v = [int |-> v.int] /\ IntAt(w, p, v.int, q)
  \/ "str" \in DOMAIN v /\ v = [str |-> v.str] /\ StrAt(w, p, v.str, q)

(* One value of any type without the n values in it: a number, nil or        *)
(* Boolean, an extension of fixed size, binary data or a string, an array or *)
(* a mapping. The worker does not skip extensions of other sizes, and takes  *)
(* arrays and mappings with lengths of four bytes for shorter ones.          *)
ValueAt(w, p, n, q) ==
  /\ Part(w, p, q)
  /\ LET k == w.bytes[p] IN
     \/ n = 0 /\ q = p + 1 /\ (k < 128 \/ k >= 224 \/ k \in {192, 194, 195})
     \/ /\ n = 0 /\ 202 <= k /\ k <= 216
        /\ q = p + 1 + <<4, 8, 1, 2, 4, 8, 1, 2, 4, 8, 2, 3, 5, 9, 17>>[k - 201]
     \/ n = 0 /\ \E d \in p + 1 .. q : \/ LengthAt(w, p, q - d, 160, 32, StrMarks, d)
                                       \/ LengthAt(w, p, q - d, 0, 0, BinMarks, d)
     \/ LengthAt(w, p, n, 144, 16, ShortArrMarks, q)
     \/ \E pairs \in 0 .. n : n = 2 * pairs /\ LengthAt(w, p, pairs, 128, 16, ShortMapMarks, q)

-----------------------------------------------------------------------------
(* Item k of list l is written between two places of the list.               *)
Places(l) == /\ Len(l.items) \in Nat
             /\ \A k \in 0 .. Len(l.items) : l.at[k] \in Nat /\ l.mark[k] \in Nat
EndOf(l) == l.at[Len(l.items)]
CallsOf(l) == l.mark[Len(l.items)]

(* Call e, the one after the first d, is x.                                  *)
Asks(w, d, e, x) == d \in Nat /\ e = d + 1 /\ e <= Len(w.meant) /\ w.meant[e] = x

(* An option that worker and nanomsg know, of the level of all sockets or of *)
(* that of its owner.                                                        *)
Level(o) == Symbols[o.name].owner
Fits(o, owner) ==
  /\ o.name \in DOMAIN Symbols
  /\ \/ Level(o) = SolSocket
     \/ Level(o) = owner /\ Symbols[o.name].len > ProtocolLen

(* An option with a single value.                                            *)
OptionOf(w, l, k, owner) ==
  LET o == l.items[k] IN
  /\ o.kind = "one" /\ Fits(o, owner)
  /\ \E v \in 1 .. w.end : /\ StrAt(w, l.at[k - 1], o.name, v)
                           /\ ScalarAt(w, v, o.val, l.at[k])
  /\ Asks(w, l.mark[k - 1], l.mark[k], SetCall(Level(o), o.name, o.val))

(* One with an array of values, which are given one after the other.         *)
Several(w, l, k, owner) ==
  LET o == l.items[k]
      n == Len(o.vals) IN
  /\ o.kind = "many" /\ Fits(o, owner) /\ n \in Nat
  /\ \E v \in 1 .. w.end : /\ StrAt(w, l.at[k - 1], o.name, v)
                           /\ ArrAt(w, v, n, o.at[0])
  /\ \A j \in 1 .. n :
       /\ ScalarAt(w, o.at[j - 1], o.vals[j], o.at[j])
       /\ Asks(w, l.mark[k - 1] + (j - 1), l.mark[k - 1] + j,
               SetCall(Level(o), o.name, o.vals[j]))
  /\ o.at[n] = l.at[k] /\ l.mark[k] = l.mark[k - 1] + n

(* One of a later version, of which the worker does not know anything: its   *)
(* value and those in it one by one; todo is how many are still to come.     *)
Unknown(w, l, k) ==
  LET o == l.items[k] IN
  /\ o.kind = "unknown" /\ o.name \notin DOMAIN Symbols /\ o.values \in Nat
  /\ StrAt(w, l.at[k - 1], o.name, o.at[0]) /\ o.todo[0] = 1
  /\ \A j \in 1 .. o.values : /\ o.todo[j - 1] > 0
                              /\ o.todo[j] \in Nat
                              /\ ValueAt(w, o.at[j - 1], o.todo[j] - o.todo[j - 1] + 1, o.at[j])
  /\ o.todo[o.values] = 0 /\ o.at[o.values] = l.at[k] /\ l.mark[k] = l.mark[k - 1]

(* The address of an endpoint begins with the name of its transport.         *)
HasTransport(a) ==
  \E j \in 1 .. Len(a.addr) : /\ a.addr[j] = Colon /\ \A b \in 1 .. j - 1 : a.addr[b] \notin {0, Colon}
                              /\ a.transport = SubSeq(a.addr, 1, j - 1)
                              /\ a.transport \in Transports

(* An endpoint, with or without options: each of them has one value, see the *)
(* differences in README.md.                                                 *)
AddressOf(w, l, k) ==
  LET a == l.items[k]
      os == a.options IN
  /\ a.kind \in {0, 1} /\ a.addr \in Seq(Byte) /\ HasTransport(a)
  /\ \E p \in 1 .. w.end :
       /\ ArrAt(w, l.at[k - 1], IF a.bare THEN 2 ELSE 3, p)
       /\ \E q \in 1 .. w.end :
            /\ IntAt(w, p, a.kind, q)
            /\ \E r \in 1 .. w.end :
                 /\ StrAt(w, q, a.addr, r)
                 /\ IF a.bare THEN r = l.at[k]
                    ELSE /\ MapAt(w, r, Len(os.items), os.at[0])
                         /\ EndOf(os) = l.at[k]
  /\ IF a.bare THEN Asks(w, l.mark[k - 1], l.mark[k], Endpoint(a.kind, a.addr))
     ELSE /\ Places(os) /\ os.mark[0] = l.mark[k - 1]
          /\ \A j \in 1 .. Len(os.items) : OptionOf(w, os, j, a.transport)
          /\ Asks(w, CallsOf(os), l.mark[k], Endpoint(a.kind, a.addr))

TopicOf(w, l, k) ==
  /\ StrAt(w, l.at[k - 1], l.items[k], l.at[k])
  /\ Asks(w, l.mark[k - 1], l.mark[k], Subscribed(l.items[k]))

(* The elements of a reply: its kind, options, addresses, and often topics.  *)
WellWritten(w) ==
  LET os == w.options
      as == w.addresses
      ts == w.topics IN
  /\ w.bytes \in Seq(Byte) /\ w.end \in 1 .. Len(w.bytes) + 1
  /\ w.meant \in Seq(ToSet(w.meant))
  /\ w.ralen >= 3 /\ Places(os) /\ Places(as) /\ Places(ts)
  /\ \E p \in 1 .. w.end :
       /\ ArrAt(w, 1, w.ralen, p)
       /\ \E q \in 1 .. w.end : IntAt(w, p, 1, q) /\ MapAt(w, q, Len(os.items), os.at[0])
  /\ os.mark[0] = 0
  /\ \A k \in 1 .. Len(os.items) :
       OptionOf(w, os, k, Protocol) \/ Several(w, os, k, Protocol) \/ Unknown(w, os, k)
  /\ ArrAt(w, EndOf(os), Len(as.items), as.at[0]) /\ as.mark[0] = CallsOf(os)
  /\ \A k \in 1 .. Len(as.items) : AddressOf(w, as, k)
  /\ IF w.ralen = 3 THEN EndOf(as) = w.end /\ CallsOf(as) = Len(w.meant)
     ELSE /\ ArrAt(w, EndOf(as), Len(ts.items), ts.at[0]) /\ ts.mark[0] = CallsOf(as)
          /\ \A k \in 1 .. Len(ts.items) : TopicOf(w, ts, k)
          /\ EndOf(ts) = w.end /\ CallsOf(ts) = Len(w.meant)

(* A message is the text w, or what is left of it after a loss at its end.   *)
BeginningOf(m, w) == Len(m) <= Len(w.bytes) /\ m = SubSeq(w.bytes, 1, Len(m))
Complete(m, w) == Len(m) + 1 >= w.end
=============================================================================
