------------------------------ MODULE NcApply ------------------------------
(* nc_parse_and_apply (src/src/worker.c): how the reply of the configuration *)
(* service becomes endpoints of the socket and topics of the updates socket. *)
(* One action per element of the reply and per element of the lists that the *)
(* function sweeps afterwards, so that a reply may turn out to be malformed  *)
(* after half of it has taken effect. The linked lists are sequences; what   *)
(* their hand-written removal does to the tail pointers is kept, because     *)
(* the next append goes through them.                                        *)
EXTENDS Integers, FiniteSets, FiniteSetsExt, SequencesExt

CONSTANTS Socks,         \* sockets on the worker's list
          Addrs,         \* addresses of endpoints
          Topics,        \* topics of updates
          Replies,       \* the replies that may come
          MaxReplies,    \* bound: replies and closes in a behaviour
          Refusals,      \* may nn_bind, nn_connect, nn_shutdown and
                         \* NN_SUB_SUBSCRIBE fail?
          UpdatesSocket  \* number of the SUB socket, -1 if nn_socket failed

Bad == "bad"    \* an element of the reply that does not parse

(* [addrs, topics]: the elements of the two arrays. A reply without the      *)
(* array of topics has the same effect as one with an empty array.           *)
ReplyType == [addrs : Seq(Addrs \union {Bad}), topics : Seq(Topics \union {Bad})]

ASSUME ApplyAssumption == /\ Replies \subseteq ReplyType
                          /\ Bad \notin Addrs \union Topics
                          /\ MaxReplies \in Nat
                          /\ Refusals \in BOOLEAN
                          /\ UpdatesSocket \in Nat \union {-1}

VARIABLES phase,   \* where nc_parse_and_apply is: "idle" before and after
          cur,     \* the socket it works for
          reply,   \* the reply it reads
          todo,    \* elements of the current array not yet read
          ok,      \* did it return 1 the last time?
          count,   \* replies so far (bound; also numbers subscriptions)
          eps,     \* per socket: endpoint_list
          real,    \* per socket: the endpoints nanomsg has open
          orphans, \* history: those of them that could not be shut down
          subs,    \* per socket: subscr_list
          topics,  \* topic_list, with the subscr_list of each topic
          heard,   \* how often the updates socket is subscribed to a topic
          refused, \* history: topics whose subscription failed
          lost,    \* the lists whose tail points into freed memory
          broken   \* the list that was reached through an invalid pointer

vars == <<phase, cur, reply, todo, ok, count, eps, real, orphans, subs, topics,
          heard, refused, lost, broken>>

Endpoint == [addr : Addrs, eid : Int, visited : BOOLEAN]
Subscription == [id : Nat, topic : Topics, visited : BOOLEAN]

(* Names of the lists with a tail pointer.                                   *)
EndpointList(s) == <<"endpoint_list", s>>
SubscrList(s) == <<"socket_list", s>>
TopicSubscrList(t) == <<"topic_list", t>>
TopicPrev(t) == <<"prev", t>>    \* nc_topic.prev, which nothing ever sets
Whole == <<"none", "none">>

Init == /\ phase = "idle"
        /\ cur \in Socks
        /\ reply = [addrs |-> <<>>, topics |-> <<>>]
        /\ todo = <<>>
        /\ ok = FALSE
        /\ count = 0
        /\ eps = [s \in Socks |-> <<>>]
        /\ real = [s \in Socks |-> {}]
        /\ orphans = [s \in Socks |-> {}]
        /\ subs = [s \in Socks |-> <<>>]
        /\ topics = [t \in Topics |-> <<>>]
        /\ heard = [t \in Topics |-> 0]
        /\ refused = {}
        /\ lost = {}
        /\ broken = Whole

Alive == broken = Whole /\ phase # "aborted"

-----------------------------------------------------------------------------
(* The lists.                                                                *)

(* Mutant of Unvisited: the marks of an earlier reply stay.                  *)
StillVisited(q) == q
Unvisited(q) == [i \in 1 .. Len(q) |-> [q[i] EXCEPT !.visited = FALSE]]
Stale(q) == {i \in 1 .. Len(q) : ~q[i].visited}
FirstStale(q) == CHOOSE i \in Stale(q) : \A k \in Stale(q) : i <= k

(* Unlinking the element at position i never moves the tail pointer: if the  *)
(* element was the last one, the tail stays behind in its freed memory.      *)
LostBy(q, i, name) == IF i = Len(q) THEN {name} ELSE {}

-----------------------------------------------------------------------------
(* The start: everything up to the array of addresses has been parsed and    *)
(* the socket options are set. (A reply that fails earlier changes nothing.) *)
Begin(s, r) == /\ Alive
               /\ phase = "idle"
               /\ count < MaxReplies
               /\ count' = count + 1
               /\ cur' = s
               /\ reply' = r
               /\ todo' = r.addrs
               /\ ok' = FALSE
               /\ eps' = [eps EXCEPT ![s] = Unvisited(@)]
               /\ phase' = "addresses"
               /\ UNCHANGED <<real, orphans, subs, topics, heard, refused, lost,
                              broken>>

(* An element that does not parse ends the call: return 0.                   *)
Refuse == /\ Alive
          /\ phase \in {"addresses", "topics"}
          /\ todo # <<>>
          /\ Head(todo) = Bad
          /\ todo' = <<>>
          /\ phase' = "idle"
          /\ UNCHANGED <<cur, reply, ok, count, eps, real, orphans, subs, topics,
                         heard, refused, lost, broken>>

At(p) == /\ Alive
         /\ phase = p
         /\ todo # <<>>
         /\ Head(todo) # Bad
         /\ todo' = Tail(todo)

(* Mutant of Held: only the first endpoint is looked at.                     *)
HeldFirst(s) == {eps[s][i].addr : i \in {i \in 1 .. Len(eps[s]) : i = 1}}

(* The search of endpoint_list by address; bind or connect makes no          *)
(* difference to it.                                                         *)
Held(s) == {eps[s][i].addr : i \in 1 .. Len(eps[s])}

(* Mutant of Marked: the endpoint of a known address is not marked.          *)
Unmarked(q, a) == q

(* An address the socket already has: its endpoint stays.                    *)
Marked(q, a) == [i \in 1 .. Len(q) |->
                   IF q[i].addr = a THEN [q[i] EXCEPT !.visited = TRUE] ELSE q[i]]

KeepEndpoint == /\ At("addresses")
                /\ Head(todo) \in Held(cur)
                /\ eps' = [eps EXCEPT ![cur] = Marked(@, Head(todo))]
                /\ UNCHANGED <<phase, cur, reply, ok, count, real, orphans, subs,
                               topics, heard, refused, lost, broken>>

(* nn_bind and nn_connect give a positive number that is not in use, or -1.  *)
FreeEid(s) == CHOOSE n \in 1 .. Cardinality(real[s]) + 1 :
                \A e \in real[s] : e.eid # n

(* Mutant of Opened: a failure counts as an endpoint.                        *)
OpenedAnyway(a, eid) == real[cur] \union {[addr |-> a, eid |-> eid]}
Opened(a, eid) == IF eid > 0 THEN real[cur] \union {[addr |-> a, eid |-> eid]}
                  ELSE real[cur]

(* A new address. A failure is reported and kept as endpoint number -1.      *)
OpenEndpoint(eid) ==
  /\ At("addresses")
  /\ LET a == Head(todo) IN
       /\ a \notin Held(cur)
       /\ eps' = [eps EXCEPT ![cur] =
                    Append(@, [addr |-> a, eid |-> eid, visited |-> TRUE])]
       /\ real' = [real EXCEPT ![cur] = Opened(a, eid)]
  /\ broken' = IF EndpointList(cur) \in lost THEN EndpointList(cur) ELSE broken
  /\ UNCHANGED <<phase, cur, reply, ok, count, orphans, subs, topics, heard,
                 refused, lost>>

AddressesEnd == /\ Alive
                /\ phase = "addresses"
                /\ todo = <<>>
                /\ phase' = "sweep"
                /\ UNCHANGED <<cur, reply, todo, ok, count, eps, real, orphans,
                               subs, topics, heard, refused, lost, broken>>

(* An endpoint the reply does not name is shut down and freed. When          *)
(* nn_shutdown fails that is reported, and the struct is freed all the same: *)
(* the endpoint stays open and the worker has forgotten its number.          *)
ShutDown(e, done) ==
  /\ real' = IF done THEN [real EXCEPT ![cur] = @ \ {e}] ELSE real
  /\ orphans' = IF done THEN orphans ELSE [orphans EXCEPT ![cur] = @ \union {e}]

ShutEndpoint(done) ==
  /\ Alive
  /\ phase = "sweep"
  /\ Stale(eps[cur]) # {}
  /\ LET i == FirstStale(eps[cur])
         e == eps[cur][i] IN
       /\ e.eid > 0
       /\ ShutDown([addr |-> e.addr, eid |-> e.eid], done)
       /\ eps' = [eps EXCEPT ![cur] = RemoveAt(@, i)]
       /\ lost' = lost \union LostBy(eps[cur], i, EndpointList(cur))
  /\ UNCHANGED <<phase, cur, reply, todo, ok, count, subs, topics, heard, refused,
                 broken>>

(* nn_assert (ep->eid > 0).                                                  *)
ShutUnopened ==
  /\ Alive
  /\ phase = "sweep"
  /\ Stale(eps[cur]) # {}
  /\ eps[cur][FirstStale(eps[cur])].eid <= 0
  /\ phase' = "aborted"
  /\ UNCHANGED <<cur, reply, todo, ok, count, eps, real, orphans, subs, topics,
                 heard, refused, lost, broken>>

SweepEnd == /\ Alive
            /\ phase = "sweep"
            /\ Stale(eps[cur]) = {}
            /\ subs' = [subs EXCEPT ![cur] = Unvisited(@)]
            /\ todo' = reply.topics
            /\ phase' = "topics"
            /\ UNCHANGED <<cur, reply, ok, count, eps, real, orphans, topics,
                           heard, refused, lost, broken>>

-----------------------------------------------------------------------------
MarkedSubs(q, t) == [i \in 1 .. Len(q) |->
                       IF q[i].topic = t THEN [q[i] EXCEPT !.visited = TRUE] ELSE q[i]]

(* Every subscription ever made has its number.                              *)
NewId == 1 + Max({0} \union UNION {ToSet(topics[t]) : t \in Topics})

(* Mutant of Listen: the updates socket is subscribed again for every socket. *)
ListenAgain(t) == /\ heard' = [heard EXCEPT ![t] = @ + 1]
                  /\ refused' = refused

(* The updates socket is subscribed when the topic is new to topic_list: not *)
(* at all if its number is 0 (if (worker->updates_socket)), in vain if it is *)
(* -1. A failure is reported; the topic is on the list then and is not tried *)
(* again.                                                                    *)
Listen(t) ==
  \/ /\ topics[t] # <<>> \/ UpdatesSocket = 0
     /\ UNCHANGED <<heard, refused>>
  \/ /\ topics[t] = <<>> /\ UpdatesSocket > 0
     /\ heard' = [heard EXCEPT ![t] = @ + 1]
     /\ refused' = refused \ {t}
  \/ /\ topics[t] = <<>> /\ UpdatesSocket # 0
     /\ Refusals \/ UpdatesSocket < 0
     /\ refused' = refused \union {t}
     /\ heard' = heard

(* A topic. The search for the socket's subscription goes on past a match,   *)
(* so it always comes up empty and a further subscription is added.          *)
TakeTopic ==
  /\ At("topics")
  /\ LET t == Head(todo) IN
       /\ subs' = [subs EXCEPT ![cur] =
                     Append(MarkedSubs(@, t),
                            [id |-> NewId, topic |-> t, visited |-> TRUE])]
       /\ topics' = [topics EXCEPT ![t] = Append(@, NewId)]
       /\ Listen(t)
       /\ broken' = CASE SubscrList(cur) \in lost -> SubscrList(cur)
                      [] SubscrList(cur) \notin lost
                         /\ TopicSubscrList(t) \in lost -> TopicSubscrList(t)
                      [] OTHER -> broken
  /\ UNCHANGED <<phase, cur, reply, ok, count, eps, real, orphans, lost>>

TopicsEnd == /\ Alive
             /\ phase = "topics"
             /\ todo = <<>>
             /\ phase' = "drop"
             /\ UNCHANGED <<cur, reply, todo, ok, count, eps, real, orphans, subs,
                            topics, heard, refused, lost, broken>>

(* A subscription the reply does not name is freed. When it was the last of  *)
(* its topic the topic goes too, through a pointer that was never set, and   *)
(* the updates socket unsubscribes; if it never was subscribed that fails    *)
(* and is reported.                                                          *)
DropSubscription ==
  /\ Alive
  /\ phase = "drop"
  /\ Stale(subs[cur]) # {}
  /\ LET i == FirstStale(subs[cur])
         t == subs[cur][i].topic
         k == CHOOSE k \in 1 .. Len(topics[t]) : topics[t][k] = subs[cur][i].id IN
       /\ subs' = [subs EXCEPT ![cur] = RemoveAt(@, i)]
       /\ topics' = [topics EXCEPT ![t] = RemoveAt(@, k)]
       /\ lost' = lost \union LostBy(subs[cur], i, SubscrList(cur))
                       \union LostBy(topics[t], k, TopicSubscrList(t))
       /\ broken' = IF Len(topics[t]) = 1 THEN TopicPrev(t) ELSE broken
       /\ heard' = IF Len(topics[t]) = 1 THEN [heard EXCEPT ![t] = 0] ELSE heard
  /\ UNCHANGED <<phase, cur, reply, todo, ok, count, eps, real, orphans, refused>>

Done == /\ Alive
        /\ phase = "drop"
        /\ Stale(subs[cur]) = {}
        /\ ok' = TRUE
        /\ phase' = "idle"
        /\ UNCHANGED <<cur, reply, todo, count, eps, real, orphans, subs, topics,
                       heard, refused, lost, broken>>

(* nc_process_close, then nc_process_configure with the number reused: new   *)
(* lists, while the subscriptions of the old struct stay with their topics.  *)
Reopen(s) == /\ Alive
             /\ phase = "idle"
             /\ count < MaxReplies
             /\ count' = count + 1
             /\ ok' = FALSE
             /\ eps' = [eps EXCEPT ![s] = <<>>]
             /\ real' = [real EXCEPT ![s] = {}]
             /\ orphans' = [orphans EXCEPT ![s] = {}]
             /\ subs' = [subs EXCEPT ![s] = <<>>]
             /\ lost' = lost \ {EndpointList(s), SubscrList(s)}
             /\ UNCHANGED <<phase, cur, reply, todo, topics, heard, refused, broken>>

Next == \/ \E s \in Socks : Reopen(s) \/ \E r \in Replies : Begin(s, r)
        \/ Refuse
        \/ KeepEndpoint
        \/ OpenEndpoint(FreeEid(cur))
        \/ Refusals /\ OpenEndpoint(-1)
        \/ AddressesEnd
        \/ ShutEndpoint(TRUE)
        \/ Refusals /\ ShutEndpoint(FALSE)
        \/ ShutUnopened \/ SweepEnd
        \/ TakeTopic \/ TopicsEnd \/ DropSubscription \/ Done

Spec == Init /\ [][Next]_vars

-----------------------------------------------------------------------------
Wanted == ToSet(reply.addrs)

TypeOK == /\ phase \in {"idle", "addresses", "sweep", "topics", "drop", "aborted"}
          /\ cur \in Socks
          /\ reply \in ReplyType
          /\ todo \in Seq(Addrs \union {Bad}) \union Seq(Topics \union {Bad})
          /\ ok \in BOOLEAN
          /\ count \in 0 .. MaxReplies
          /\ eps \in [Socks -> Seq(Endpoint)]
          /\ real \in [Socks -> SUBSET [addr : Addrs, eid : Nat \ {0}]]
          /\ orphans \in [Socks -> SUBSET [addr : Addrs, eid : Nat \ {0}]]
          /\ subs \in [Socks -> Seq(Subscription)]
          /\ topics \in [Topics -> Seq(Nat)]
          /\ heard \in [Topics -> Nat]
          /\ refused \subseteq Topics

(* Whatever replies were refused half-way, the worker knows the endpoints    *)
(* nanomsg has open for a socket by their numbers, each exactly once, and so *)
(* is able to shut them down when a later reply drops them: all but those    *)
(* whose nn_shutdown failed, which it never tries again.                     *)
KnownTo(s) == {[addr |-> eps[s][i].addr, eid |-> eps[s][i].eid] :
                 i \in {i \in 1 .. Len(eps[s]) : eps[s][i].eid > 0}}
Tracked == broken = Whole => \A s \in Socks :
  /\ KnownTo(s) \intersect orphans[s] = {}
  /\ real[s] = KnownTo(s) \union orphans[s]
  /\ \A i, j \in 1 .. Len(eps[s]) : eps[s][i].addr = eps[s][j].addr => i = j

(* When nc_parse_and_apply has returned 1, the socket has exactly the        *)
(* endpoints of the reply, but for those that could not be opened and those  *)
(* that could not be shut down: neither makes it return 0.                   *)
AppliedExactly == ok /\ broken = Whole =>
  LET failed == {eps[cur][i].addr : i \in {i \in 1 .. Len(eps[cur]) : eps[cur][i].eid < 0}}
  IN  {e.addr : e \in real[cur] \ orphans[cur]} = Wanted \ failed

(* An open endpoint is shut down only when a reply was read to the end of    *)
(* its addresses and does not name it: traffic over an endpoint that stays   *)
(* in the configuration is never interrupted, and a malformed list of        *)
(* addresses never costs one.                                                *)
Undisturbed == [][\A s \in Socks : \A e \in real[s] \ real'[s] :
                    \/ \E x \in Socks : Reopen(x)
                    \/ e.addr \notin Wanted /\ Bad \notin Wanted /\ s = cur]_vars

(* Every subscription of a socket, be the reply that brought it read to the  *)
(* end or not, is linked exactly once from its topic, where the search of    *)
(* nc_process_updates finds it; and the updates socket is subscribed to the  *)
(* topic once, unless there is none or that was refused when the topic came. *)
Reached == broken = Whole => \A s \in Socks : \A i \in 1 .. Len(subs[s]) :
  LET t == subs[s][i].topic IN
    /\ \E k \in 1 .. Len(topics[t]) : \A j \in 1 .. Len(topics[t]) :
          topics[t][j] = subs[s][i].id <=> j = k
    /\ heard[t] = IF UpdatesSocket = 0 \/ t \in refused THEN 0 ELSE 1

(* When nc_parse_and_apply has returned 1, the socket depends on the topics  *)
(* of the reply and on no other, whoever else depends on them.               *)
TopicsExactly == ok /\ broken = Whole =>
  {subs[cur][i].topic : i \in 1 .. Len(subs[cur])} = ToSet(reply.topics)

(* "Even this simple dumb service has on-the-fly configuration updates"      *)
(* (examples/README.rst): whatever endpoints and topics come and go, the     *)
(* worker carries the change out without failing its assertion that it only  *)
(* shuts down endpoints it opened, and without following a pointer that was  *)
(* never set or whose target is gone.                                        *)
OnTheFly == phase # "aborted" /\ broken = Whole
=============================================================================
