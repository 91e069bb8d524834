----------------------------- MODULE MCNcReply -----------------------------
(* Instances of NcReply for TLC. A reply is written down as a value, encoded *)
(* in each width that msgpack allows, and cut off at each byte; of those the *)
(* worker should understand the text is written down too (ReplyText).        *)
EXTENDS NcReply

(* The values of msgpack that replies are made of; Other is any further one. *)
Num(n) == [type |-> "int", n |-> n]
Str(s) == [type |-> "str", s |-> s]
Arr(es) == [type |-> "arr", es |-> es]
Map(es) == [type |-> "map", es |-> es]    \* keys and values in turn
Other(bytes) == [type |-> "other", bytes |-> bytes]

Bytes(n, w) == [k \in 1 .. w |-> (n \div 256 ^ (w - k)) % 256]
Holds(w) == CASE w = 0 -> -32 .. 127 [] w = 1 -> -128 .. 255 [] OTHER -> -32768 .. 65535
Width(n, w) == IF n \in Holds(w) THEN w ELSE IF n \in Holds(1) THEN 1 ELSE 2
PackInt(n, w) ==
  IF w = 0 THEN <<n % 256>>
  ELSE <<(IF n >= 0 THEN 204 ELSE 208) + (CASE w = 1 -> 0 [] w = 2 -> 1 [] w = 4 -> 2)>>
         \o Bytes(n, w)
PackLen(n, fix, Wide, w) ==
  IF w = 0 THEN <<fix + n>>
  ELSE LET u == Min({u \in {1, 2, 4} : u >= w /\ \E k \in DOMAIN Wide : Wide[k] = u})
       IN  <<CHOOSE k \in DOMAIN Wide : Wide[k] = u>> \o Bytes(n, u)

PackArr(n, w) == PackLen(n, 144, ArrayLen, w)
PackMap(n, w) == PackLen(n, 128, MapLen, w)

RECURSIVE Pack(_, _)
Pack(v, w) ==
  LET Packed(es) == FoldLeft(LAMBDA bs, e : bs \o Pack(e, w), <<>>, es) IN
  CASE v.type = "int" -> PackInt(v.n, Width(v.n, w))
    [] v.type = "str" -> PackLen(Len(v.s), 160, StringLen, w) \o v.s
    [] v.type = "arr" -> PackArr(Len(v.es), w) \o Packed(v.es)
    [] v.type = "map" -> PackMap(Len(v.es) \div 2, w) \o Packed(v.es)
    [] v.type = "other" -> v.bytes

-----------------------------------------------------------------------------
(* Names of one letter stand for the names of options, transports, topics.   *)
Linger == <<76>>       \* NN_LINGER
Name == <<78>>         \* NN_SOCKET_NAME
Prio == <<80>>         \* NN_SNDPRIO
Subscribe == <<83>>    \* NN_SUB_SUBSCRIBE
NoDelay == <<84>>      \* NN_TCP_NODELAY
Unheard == <<85>>      \* in nobody's table
Sub == <<115>>         \* NN_SUB
Tcp == <<116>>
SomeSymbols == Linger :> [owner |-> SolSocket, len |-> 9]
                 @@ Name :> [owner |-> SolSocket, len |-> 14]
                 @@ Prio :> [owner |-> SolSocket, len |-> 10]
                 @@ Subscribe :> [owner |-> Sub, len |-> 16]
                 @@ NoDelay :> [owner |-> Tcp, len |-> 14]
SomeTransports == {Tcp}
At(transport, port) == transport \o <<Colon, port>>

(* What an option, an address and a topic say, and what they ask for.        *)
Opt(name, v, level) ==
  LET vs == IF v.type = "arr" THEN v.es ELSE <<v>> IN
  [name |-> name, v |-> v, pair |-> <<Str(name), v>>,
   asks |-> IF name = Unheard THEN <<>>
            ELSE [k \in 1 .. Len(vs) |->
                    SetCall(level, name, IF vs[k].type = "int" THEN [int |-> vs[k].n]
                                         ELSE [str |-> vs[k].s])]]
SumSeq(ns) == FoldLeft(LAMBDA a, b : a + b, 0, ns)
Joined(seqs) == FoldLeft(LAMBDA a, b : a \o b, <<>>, seqs)
Pairs(os) == Map(Joined([k \in 1 .. Len(os) |-> os[k].pair]))
AllAsk(os) == Joined([k \in 1 .. Len(os) |-> os[k].asks])
Addr(kind, addr, os) == [kind |-> kind, addr |-> addr, os |-> os.os,
                         bare |-> os.says = <<>>,
                         says |-> Arr(<<Num(kind), Str(addr)>> \o os.says),
                         asks |-> Append(os.asks, Endpoint(kind, addr))]
Bare == [os |-> <<>>, says |-> <<>>, asks |-> <<>>]
With(os) == [os |-> os, says |-> <<Pairs(os)>>, asks |-> AllAsk(os)]
Says(as) == Arr([k \in 1 .. Len(as) |-> as[k].says])
Topics(ts) == [k \in 1 .. Len(ts) |-> Subscribed(ts[k])]
Strs(ts) == Arr([k \in 1 .. Len(ts) |-> Str(ts[k])])

(* A reply as a sequence of values; what follows the fourth is for the       *)
(* future. "ok" are the widths at which the worker should understand it.     *)
Reply(os, as, ts, more, ok) ==
  [values |-> <<Num(1), Pairs(os), Says(as), Strs(ts)>> \o more,
   os |-> os, as |-> as, ts |-> ts,
   meant |-> AllAsk(os) \o AllAsk(as) \o Topics(ts), needs |-> 4, plain |-> ok]
Short(os, as) == [values |-> <<Num(1), Pairs(os), Says(as)>>,
                  os |-> os, as |-> as, ts |-> <<>>,
                  meant |-> AllAsk(os) \o AllAsk(as), needs |-> 3, plain |-> {0, 1, 2, 4}]
Odd(vs) == [values |-> vs, meant |-> <<>>, needs |-> Len(vs), plain |-> {}]

Widths == {0, 1, 2, 4}
P(n) == At(Tcp, 48 + n)
Nil == Other(<<192>>)
Float == Other(<<202, 63, 128, 0, 0>>)
Binary == Other(<<196, 2, 7, 193>>)

(* The example of the documentation (examples/config.yaml), options that     *)
(* take several values, numbers at the edges of their widths, and names and  *)
(* values from a future version.                                             *)
Understood ==
  {Reply(<<Opt(Linger, Num(1000), SolSocket), Opt(Name, Str(<<104>>), SolSocket)>>,
         <<Addr(0, P(1), With(<<Opt(Prio, Num(1), SolSocket), Opt(NoDelay, Num(1), Tcp)>>)),
           Addr(1, P(2), With(<<>>))>>,
         <<<<104>>>>, <<>>, Widths),
   Reply(<<Opt(Subscribe, Arr(<<Str(<<97>>), Str(<<>>), Num(3)>>), Sub),
           Opt(Linger, Num(-200), SolSocket)>>,
         <<Addr(1, P(1), Bare), Addr(1, P(1), Bare), Addr(0, P(3), Bare)>>,
         <<<<104>>, <<105>>>>, <<Nil, Num(7)>>, Widths),
   Short(<<Opt(Prio, Num(40000), SolSocket), Opt(Linger, Num(-100), SolSocket)>>,
         <<Addr(1, P(1), Bare)>>),
   Reply(<<Opt(Unheard, Float, SolSocket), Opt(Linger, Num(200), SolSocket),
           Opt(Unheard, Binary, SolSocket), Opt(Unheard, Num(300), SolSocket),
           Opt(Unheard, Str(<<1, 2>>), SolSocket), Opt(Name, Str(<<104>>), SolSocket)>>,
         <<>>, <<>>, <<>>, Widths),
   Reply(<<Opt(Unheard, Map(<<Str(<<97>>), Arr(<<Nil, Map(<<>>)>>)>>), SolSocket),
           Opt(Linger, Num(-1), SolSocket)>>,
         <<Addr(0, P(1), Bare)>>, <<<<104>>>>, <<>>, Widths \ {4})}

(* Names of transports and options of addresses that are not known, in each  *)
(* position; addresses that do not parse; errors.                            *)
Udp == <<117>>
Puzzling ==
  {Reply(<<>>, <<Addr(0, At(Udp, 49), Bare), Addr(1, P(1), Bare)>>, <<>>, <<>>, {}),
   Reply(<<>>, <<Addr(0, P(1), Bare), Addr(0, P(2), Bare), Addr(1, At(Udp, 49), Bare),
                 Addr(1, P(3), Bare)>>, <<<<104>>>>, <<>>, {}),
   Reply(<<>>, <<Addr(0, P(1), Bare), Addr(0, P(2), Bare), Addr(0, P(3), Bare),
                 Addr(1, At(Udp, 49), With(<<>>))>>, <<<<104>>>>, <<>>, {}),
   Reply(<<>>, <<Addr(0, P(1), With(<<Opt(Prio, Num(1), SolSocket),
                                      Opt(Unheard, Num(1), SolSocket)>>)),
                 Addr(1, P(2), Bare)>>, <<<<104>>>>, <<>>, {}),
   Reply(<<Opt(Linger, Num(5), SolSocket)>>,
         <<Addr(0, P(1), With(<<Opt(Unheard, Num(1), SolSocket),
                                Opt(Prio, Num(1), SolSocket)>>))>>, <<<<104>>>>, <<>>, {}),
   Reply(<<>>, <<Addr(0, P(1), With(<<Opt(Prio, Num(1), SolSocket),
                                      Opt(Unheard, Num(1), SolSocket)>>))>>,
         <<<<104>>>>, <<Arr(<<Str(<<105>>)>>)>>, {}),
   Reply(<<>>, <<Addr(1, <<116, 49>>, Bare), Addr(0, P(1), Bare)>>, <<<<104>>>>, <<>>, {}),
   Reply(<<>>, <<Addr(1, <<116, 49>>, Bare)>>, <<>>, <<>>, {}),
   Reply(<<>>, <<Addr(2, P(1), Bare)>>, <<>>, <<>>, {}),
   Odd(<<Num(1), Map(<<Str(Linger), Nil>>), Arr(<<>>)>>),
   Odd(<<Num(1), Map(<<>>), Arr(<<Arr(<<Num(1)>>)>>)>>),
   Odd(<<Num(1), Map(<<>>)>>),
   Odd(<<Num(0), Num(22), Str(<<101>>)>>),
   Odd(<<Num(0), Num(22), Num(1)>>),
   Odd(<<Num(2), Map(<<>>), Arr(<<>>)>>)}

(* Lengths of 2^31 and more, wherever a string is read or a value skipped.   *)
Claims(marker, n) == Other(<<marker, 255, 255, 255, 256 - n>>)    \* 2^32 - n
HalfRange == Other(<<198, 128, 0, 0, 0>>)
Claiming ==
  {Odd(<<Num(1), Map(<<Claims(219, 1), Num(1)>>), Arr(<<>>)>>),
   Odd(<<Num(1), Map(<<Str(Linger), Arr(<<Num(1), Claims(219, 4)>>)>>), Arr(<<>>)>>),
   Odd(<<Num(1), Map(<<Str(Linger), Claims(219, 200)>>), Arr(<<>>)>>),
   Odd(<<Num(1), Map(<<>>), Arr(<<Arr(<<Num(0), Claims(219, 6)>>)>>)>>),
   Odd(<<Num(1), Map(<<>>), Arr(<<>>), Arr(<<Claims(219, 5)>>)>>),
   Odd(<<Num(0), Num(22), Claims(219, 1)>>)}
    \union {Odd(<<Num(1), Map(<<Str(Unheard), v>>), Arr(<<>>), Arr(<<>>)>>) :
              v \in {Claims(198, 1), Claims(198, 4), Claims(198, 5), Claims(219, 5), HalfRange}}

(* The reply r in width w, cut off after n bytes.                            *)
Encoded(r, w) == Pack(Arr(r.values), w)
Needed(r, w) == Len(Encoded(r, w))
                  - Len(Joined([k \in 1 .. Len(r.values) - r.needs |->
                                  Pack(r.values[r.needs + k], w)]))
Cut(r, w, n) == [bytes |-> SubSeq(Encoded(r, w), 1, n), meant |-> r.meant,
                 whole |-> n >= Needed(r, w), plain |-> w \in r.plain]
SomeReplies == {Cut(r, w, n) : <<r, w, n>> \in
                  {<<r, w, n>> \in (Understood \union Puzzling \union Claiming) \X Widths \X (0 .. 120) :
                     n <= Len(Encoded(r, w))}}

-----------------------------------------------------------------------------
(* Where each part of a reply is, if every integer and length has width w.   *)
Size(v, w) == Len(Pack(v, w))
FromZero(s) == [k \in 0 .. Len(s) - 1 |-> s[k + 1]]
PlacesFrom(p, sizes) == FromZero([k \in 1 .. Len(sizes) + 1 |->
                                    p + SumSeq(SubSeq(sizes, 1, k - 1))])
SizeOf(es, w) == [k \in 1 .. Len(es) |-> Size(es[k], w)]

(* A value and those in it, with their sizes and how many they contain.      *)
RECURSIVE Heads(_, _)
Heads(v, w) ==
  CASE v.type = "arr" -> <<<<Len(PackArr(Len(v.es), w)), Len(v.es)>>>>
                           \o Joined([k \in 1 .. Len(v.es) |-> Heads(v.es[k], w)])
    [] v.type = "map" -> <<<<Len(PackMap(Len(v.es) \div 2, w)), Len(v.es)>>>>
                           \o Joined([k \in 1 .. Len(v.es) |-> Heads(v.es[k], w)])
    [] OTHER -> <<<<Size(v, w), 0>>>>

OptionText(o, w, p) ==
  LET v == p + Size(Str(o.name), w)
      heads == Heads(o.v, w) IN
  IF o.name = Unheard
    THEN [name |-> o.name, kind |-> "unknown", values |-> Len(heads),
          at |-> PlacesFrom(v, [k \in 1 .. Len(heads) |-> heads[k][1]]),
          todo |-> PlacesFrom(1, [k \in 1 .. Len(heads) |-> heads[k][2] - 1])]
  ELSE IF o.v.type = "arr"
    THEN [name |-> o.name, kind |-> "many",
          vals |-> [k \in 1 .. Len(o.asks) |-> o.asks[k].val],
          at |-> PlacesFrom(v + heads[1][1], SizeOf(o.v.es, w))]
  ELSE [name |-> o.name, kind |-> "one", val |-> o.asks[1].val]

OptionsText(os, w, p, d) ==
  LET at == PlacesFrom(p, [k \in 1 .. Len(os) |-> Size(Str(os[k].name), w) + Size(os[k].v, w)]) IN
  [at |-> at, mark |-> PlacesFrom(d, [k \in 1 .. Len(os) |-> Len(os[k].asks)]),
   items |-> [k \in 1 .. Len(os) |-> OptionText(os[k], w, at[k - 1])]]

AddressText(a, w, p, d) ==
  [kind |-> a.kind, addr |-> a.addr, transport |-> SubSeq(a.addr, 1, 1), bare |-> a.bare,
   options |-> OptionsText(a.os, w, p + Size(a.says, w) - Size(Pairs(a.os), w)
                                      + Len(PackMap(Len(a.os), w)), d)]
AddressesText(as, w, p, d) ==
  LET at == PlacesFrom(p, [k \in 1 .. Len(as) |-> Size(as[k].says, w)])
      mark == PlacesFrom(d, [k \in 1 .. Len(as) |-> Len(as[k].asks)]) IN
  [at |-> at, mark |-> mark,
   items |-> [k \in 1 .. Len(as) |-> AddressText(as[k], w, at[k - 1], mark[k - 1])]]

TopicsText(ts, w, p, d) ==
  [at |-> PlacesFrom(p, [k \in 1 .. Len(ts) |-> Size(Str(ts[k]), w)]),
   mark |-> [k \in 0 .. Len(ts) |-> d + k], items |-> ts]

Text(r, w) ==
  LET start == 1 + Len(PackArr(Len(r.values), w)) + Size(Num(1), w)
      os == OptionsText(r.os, w, start + Len(PackMap(Len(r.os), w)), 0)
      as == AddressesText(r.as, w, EndOf(os) + Len(PackArr(Len(r.as), w)), CallsOf(os))
  IN [bytes |-> Encoded(r, w), end |-> Needed(r, w) + 1, meant |-> r.meant,
      ralen |-> Len(r.values), options |-> os, addresses |-> as,
      topics |-> TopicsText(r.ts, w, EndOf(as) + Len(PackArr(Len(r.ts), w)), CallsOf(as))]
SomeTexts == UNION {{Text(r, w) : w \in r.plain} : r \in Understood}
=============================================================================
