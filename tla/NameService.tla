---------------------------- MODULE NameService ----------------------------
(* The environment of the worker: the configuration service that answers     *)
(* RESOLVE requests, its publisher of updates, and the network between. The  *)
(* service is not part of the library; examples/ns.py is one (it replaces    *)
(* its table and publishes the topics of the entries that changed, in one    *)
(* turn of its loop). Requests and replies may be lost, delayed and          *)
(* reordered, replies duplicated: both directions are sets.                  *)
EXTENDS Integers, FiniteSets, SequencesExt, NcApi

CONSTANTS Topics,        \* topics of the updates, as sequences
          TopicsOf,      \* the topics in the reply for each URL
          IdSpace,       \* how many request ids there are (2^31 in the code)
          FirstIds,      \* what nn_random_generate may yield for the first
          NetCap,        \* messages in the network, each way
          MaxGen,        \* bound: changes of one entry of the service's table
          Noise,         \* does the network also bring copies and junk?
          LosesUpdates,  \* may the network lose an update?
          UpdatesSocket  \* number of the SUB socket, -1 for "no socket"

ASSUME ServiceAssumption == /\ Topics \subseteq Seq(Nat)
                            /\ TopicsOf \in [Urls -> SUBSET Topics]
                            /\ IdSpace \in Nat \ {0}
                            /\ FirstIds \subseteq 0 .. IdSpace - 1
                            /\ NetCap \in Nat
                            /\ MaxGen \in Nat
                            /\ UpdatesSocket \in Nat \union {-1}
                            /\ LosesUpdates \in BOOLEAN
                            /\ Noise \in BOOLEAN

VARIABLES gen,      \* how many times the service changed each URL's entry
          reqs,     \* requests in the network
          reps,     \* replies in the network
          inbox,    \* replies that reached the request socket
          upds,     \* updates that reached the updates socket
          updSubs   \* what the updates socket is subscribed to

nsVars == <<gen, reqs, reps, inbox, upds, updSubs>>

Ids == 0 .. IdSpace - 1
NoId == IdSpace    \* a reply too short to hold an id, or without the top bit

(* "sock", "url" and "gen" of a message are history: who asked, for what,    *)
(* and which version of the entry the message is about.                      *)
Request == [id : Ids, sock : Socks, url : Urls]
Reply == [id : Ids, sock : Socks, url : Urls, gen : 0 .. MaxGen, ok : BOOLEAN]
Junk == [id |-> NoId]
Update == [topic : Topics, url : Urls, gen : 0 .. MaxGen]

NsInit == /\ gen = [u \in Urls |-> 0]
          /\ reqs = {} /\ reps = {} /\ inbox = {} /\ upds = {}
          /\ updSubs = {}

(* A full network loses older messages to make room for a new one.           *)
Put(msgs, m) == {kept \union {m} : kept \in {k \in SUBSET msgs :
                                               Cardinality(k) < NetCap}}

(* The service takes a request and answers it with the entry it has now. The *)
(* answer is one the worker can apply (ok), an error, or one that does not   *)
(* parse.                                                                    *)
NsAnswer(r, ok) == /\ reqs' = reqs \ {r}
                   /\ reps' \in Put(reps, [id |-> r.id, sock |-> r.sock,
                                           url |-> r.url, gen |-> gen[r.url],
                                           ok |-> ok])
                   /\ UNCHANGED <<gen, inbox, upds, updSubs>>

(* A reply arrives; the network may still hold another copy of it.           *)
NsDeliver(m, copies) == /\ copies => Noise
                        /\ reps' = IF copies THEN reps ELSE reps \ {m}
                        /\ inbox' \in Put(inbox, m)
                        /\ UNCHANGED <<gen, reqs, upds, updSubs>>

(* A message that carries no usable request id reaches the request socket.   *)
NsJunk == /\ Noise
          /\ inbox' \in Put(inbox, Junk)
          /\ UNCHANGED <<gen, reqs, reps, upds, updSubs>>

NsLose == /\ \/ /\ \E r \in reqs : reqs' = reqs \ {r}
                /\ reps' = reps
             \/ /\ \E m \in reps : reps' = reps \ {m}
                /\ reqs' = reqs
          /\ UNCHANGED <<gen, inbox, upds, updSubs>>

(* The table changes for u; the updates of u's topics that pass the filter   *)
(* of the SUB socket (prefix match) arrive, unless the network loses them.   *)
Arrivals(u) == IF LosesUpdates THEN SUBSET TopicsOf[u] ELSE {TopicsOf[u]}
Passes(t) == \E f \in updSubs : IsPrefix(f, t)
NsChange(u, arrived) ==
  /\ gen[u] < MaxGen
  /\ gen' = [gen EXCEPT ![u] = @ + 1]
  /\ upds' = upds \union {[topic |-> t, url |-> u, gen |-> gen'[u]] :
                            t \in {t \in arrived : Passes(t)}}
  /\ UNCHANGED <<reqs, reps, inbox, updSubs>>

NsNext == \/ \E r \in reqs, ok \in BOOLEAN : NsAnswer(r, ok)
          \/ \E m \in reps, copies \in BOOLEAN : NsDeliver(m, copies)
          \/ NsJunk
          \/ NsLose
          \/ \E u \in Urls : \E a \in Arrivals(u) : NsChange(u, a)
=============================================================================
