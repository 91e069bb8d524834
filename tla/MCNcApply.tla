----------------------------- MODULE MCNcApply -----------------------------
(* Instances of NcApply for TLC: the replies that may come.                  *)
EXTENDS NcApply

CONSTANTS s1, s2, a1, a2, t1, t2

With(as, ts) == [addrs |-> as, topics |-> ts]

(* Addresses that come, go, change places and do not parse, with topics that *)
(* grow and shrink: a reply that drops the last subscription of a topic, or   *)
(* one that adds an endpoint to an emptied list, ends the behaviour.          *)
Mixed == {With(as, <<t1>>) : as \in {<<>>, <<a2>>, <<a1, a2>>, <<a2, a1>>, <<a1, Bad>>,
                                     <<a2, Bad, a1>>}}
           \union {With(<<a1>>, ts) : ts \in {<<t1, t2>>, <<t2>>, <<t2, t1, Bad>>}}

(* Replies without a fault: endpoints that come and go.                      *)
Moving == {With(as, <<t1>>) : as \in {<<>>, <<a1>>, <<a2>>}}

SockSymmetry == Permutations(Socks)
=============================================================================
