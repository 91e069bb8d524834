----------------------------- MODULE Nanoconfig -----------------------------
(* The whole of nanoconfig at work: the application's threads (NcApi), the   *)
(* worker thread (NcWorker), the configuration service with its network      *)
(* (NameService), and time.                                                  *)
EXTENDS NcWorker

vars == <<apiVars, nsVars, workerVars>>

Init == ApiInit /\ NsInit /\ WorkerInit

(* The rest of the worker's variables, which no application thread touches.  *)
App == ApiNext /\ UNCHANGED <<rev, list, tailLive, scan, wake, nextId, sockVars,
                              nsVars>>
Service == NsNext /\ UNCHANGED <<apiVars, workerVars>>

Next == App \/ Service \/ WorkerNext \/ Tick

Spec == Init /\ [][Next]_vars

-----------------------------------------------------------------------------
(* Fairness. The worker is a running thread: whenever it can take a step it  *)
(* will, and time passes whatever it does. A message is only sometimes sent, *)
(* answered and delivered in time, but not forever never: full pipes and     *)
(* losses stop, and so does a flood of replies that would keep the worker in *)
(* the loop of nc_process_responses. A caller blocked in nc_term returns     *)
(* once the thread is gone.                                                  *)
SendTo(s) == TimerSend /\ Item = s
Awaited(s, r) == /\ pc \in {"timers", "poll"}
                 /\ s \in Listed
                 /\ state[s] = "REQUEST_SENT" /\ retry[s] > 0
                 /\ request_id[s] = r.id
AnswerTo(s) == \E r \in reqs : /\ Awaited(s, r)
                               /\ NsAnswer(r, TRUE)
                               /\ UNCHANGED <<apiVars, workerVars>>
ReplyTo(s) == \E m \in reps : /\ Awaited(s, m) /\ m.ok
                              /\ NsDeliver(m, FALSE)
                              /\ UNCHANGED <<apiVars, workerVars>>
Fairness == /\ WF_vars(WorkerNext)
            /\ SF_vars(Tick)
            /\ SF_vars(PollReady) /\ SF_vars(ResponsesEnd)
            /\ WF_vars(NcTermReturn /\ App)
            /\ \A s \in Socks : SF_vars(SendTo(s)) /\ SF_vars(AnswerTo(s)) /\ SF_vars(ReplyTo(s))
FairSpec == Spec /\ Fairness

-----------------------------------------------------------------------------
TypeOK ==
  /\ initialized \in BOOLEAN /\ zombie \in BOOLEAN /\ tailLive \in BOOLEAN
  /\ term \in {"no", "joining", "done"}
  /\ own \subseteq Socks /\ open \subseteq Socks
  /\ calls \in 0 .. MaxCalls
  /\ cmds \in Seq(Command)
  /\ pc \in Phases \union {"off", "timers", "poll", "exited", "aborted"}
  /\ rev \subseteq Phases
  /\ list \in Seq(Socks)
  /\ scan \in Nat \ {0}
  /\ wake \in 0 .. MaxPoll
  /\ nextId \in Ids
  /\ state \in [Socks -> States]
  /\ request_id \in [Socks -> Ids]
  /\ retry \in [Socks -> 0 .. RequestAgain]
  /\ url \in [Socks -> Urls]
  /\ subs \in [Socks -> SUBSET Topics] /\ updSubs \subseteq Topics
  /\ applied \in [Socks -> 0 .. MaxGen \union {None}]
  /\ fresh \in [Socks -> 0 .. MaxGen] /\ since \in [Socks -> 0 .. MaxGen]
  /\ topicList \subseteq Topics
  /\ gen \in [Urls -> 0 .. MaxGen]
  /\ reqs \subseteq Request /\ reps \subseteq Reply
  /\ inbox \subseteq Reply \union {Junk}
  /\ upds \subseteq Update

(* A socket that sleeps for the long period has a configuration at least as  *)
(* new as every update it was told of and as its last nc_configure: a late   *)
(* reply to an earlier request never puts it to sleep with an older one      *)
(* (nc_process_responses, "Already has a reply or request reset").           *)
Rests(s) == state[s] = "SLEEPING" /\ retry[s] > ErrorRetry
Settled == \A s \in Listed : Rests(s) => applied[s] >= fresh[s]

(* When the worker goes into poll, it wakes no later than the first socket   *)
(* needs it to, at once if one still has to send (nc_process_timers).        *)
NoOversleep == pc = "poll" => \A s \in Listed :
                 wake <= (IF state[s] = "STARTING" THEN 0 ELSE retry[s])

(* A reply with the id a waiting socket sent is that socket's own answer,    *)
(* and no other item of the list, not even one whose request_id was never    *)
(* set, is found before it (the search in nc_process_responses).             *)
Routed == \A s \in Listed : \A m \in reps \union inbox :
            state[s] = "REQUEST_SENT" /\ request_id[s] = m.id
              => /\ m.sock = s /\ m.url = url[s]
                 /\ Accepts(m, s)

(* The inductive invariant behind Settled, Routed and NoOversleep. A socket  *)
(* appears once in the list; what is on the way under the id a socket waits  *)
(* for is its own request or an answer to it, read from the service's table  *)
(* when the request was already out and so no older than demanded; and what  *)
(* is demanded is never newer than the table.                                *)
Waits(s, m) == s \in Listed /\ state[s] = "REQUEST_SENT" /\ request_id[s] = m.id

ListedOnce == \A i, j \in 1 .. Len(list) : list[i] = list[j] => i = j

(* No item is found before the one that waits for an answer.                 *)
Unshadowed == \A j \in 1 .. Len(list) : \A i \in 1 .. j - 1 :
  state[list[j]] = "REQUEST_SENT" => request_id[list[i]] # request_id[list[j]]

RequestsOwn == \A s \in Socks : \A r \in reqs :
                 Waits(s, r) => r.sock = s /\ r.url = url[s]
RepliesOwn == \A s \in Socks : \A m \in reps \union inbox :
                Waits(s, m) => m.sock = s /\ m.url = url[s] /\ m.gen >= fresh[s]
DemandKnown == /\ \A s \in Socks : fresh[s] <= gen[url[s]]
               /\ \A m \in upds : m.gen <= gen[m.url] /\ m.topic \in TopicsOf[m.url]
TopicsKnown == \A s \in Socks : subs[s] \in {{}, TopicsOf[url[s]]}

Mail == /\ ListedOnce /\ Unshadowed /\ RequestsOwn /\ RepliesOwn
        /\ DemandKnown /\ TopicsKnown /\ Settled

(* During the pass: what has been seen of the list bounds the timeout.       *)
PassBounded == pc \in {"off", "timers"} =>
  \A i \in 1 .. Len(list) : i < scan =>
    state[list[i]] # "STARTING" /\ wake <= retry[list[i]]

(* The worker thread runs from the first nc_configure on.                    *)
Running == initialized <=> pc # "off"

IndInv == TypeOK /\ Running /\ Mail /\ PassBounded /\ NoOversleep

(* Used as documented, nanoconfig does not abort the process: the worker     *)
(* never asks for the protocol of a socket that was closed meanwhile, and    *)
(* never meets ETERM where it asserts EAGAIN.                                *)
NoAbort == pc # "aborted"

(* The worker misses no update that reaches it. A socket that sleeps for the *)
(* long period has the current version of its entry, or an update about it   *)
(* is waiting to be read, whatever requests and late replies overlapped with *)
(* earlier updates. The one gap left is a change made before the reply that  *)
(* named its topics was applied, since nothing was subscribed to till then   *)
(* (nc_parse_and_apply subscribes, nc_process_updates restarts the request). *)
Warned(s) == \E m \in upds : m.url = url[s] /\ m.gen = gen[url[s]]
Heard(s) == ~LosesUpdates /\ subs[s] \intersect updSubs # {}
Informed == \A s \in Listed :
  Heard(s) /\ Rests(s)
    => applied[s] >= gen[url[s]] \/ gen[url[s]] <= since[s] \/ Warned(s)

(* When nc_term has returned, every socket given to nc_close is closed.      *)
TermClosesAll == term = "done" => open \subseteq own

(* No socket the worker manages is closed under it, by the application or by *)
(* a command that is queued behind another.                                  *)
ListedOpen == pc # "aborted" => Listed \subseteq open

(* A socket leaves the worker's list only after the application gave it to   *)
(* nc_close: taking one item off loses no other (nc_list_rm).                *)
OnlyClosedLeave == [][\A s \in Listed \ Listed' : s \notin own]_vars

stage == [s \in Socks |-> IF s \in own THEN "open"
                          ELSE IF s \in open THEN "closing" ELSE "free"]
Life == INSTANCE SocketLife WITH stage <- stage, finished <- (term = "done")

(* nc_close and nc_term keep what SocketLife promises of them.               *)
LifeSpec == Life!Spec

(* Every socket given to nc_close is closed in the end, by the worker or by  *)
(* an nn_term that comes before it.                                          *)
ClosedEventually == \A s \in Socks : s \in open \ own ~> s \notin open \/ zombie

(* nc_term returns, unless the process aborts: nobody waits for a worker     *)
(* that does not stop.                                                       *)
TermReturns == term = "joining" ~> term = "done" \/ pc = "aborted"

(* A socket on the worker's list gets the current configuration in the end,  *)
(* updates or not, whatever was lost, refused or interrupted before.         *)
Converges == \A s \in Socks :
  s \in Listed ~> \/ s \notin Listed \/ pc = "exited"
                  \/ applied[s] = gen[url[s]]

(* nn_term ends the worker, by its own decision or by the failed assertion:  *)
(* it never goes on polling dead sockets.                                    *)
WorkerEnds == zombie /\ pc # "off" ~> pc \in {"exited", "aborted"}

-----------------------------------------------------------------------------
(* What the documentation says and the code does not do.                     *)

(* "Configures nanomsg socket to join the topology named addr"               *)
(* (doc/nc_configure.3.txt): after the command the socket is on the list,    *)
(* where the pass over the timers finds it, with the URL that was given.     *)
ConfigureJoins == [][ConfigureNew \/ ConfigureKnown =>
                       LET s == Head(cmds).sock IN
                       s \in Listed' /\ url'[s] = Head(cmds).url]_vars
=============================================================================
