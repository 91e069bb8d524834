------------------------------ MODULE NcWorker ------------------------------
(* The worker thread of nanoconfig (src/src/worker.c): a poll loop that      *)
(* sends requests when timers say so, executes the application's commands,   *)
(* applies replies and reacts to updates. One action per nn_recv or nn_send  *)
(* of the loop, with everything the code does until the next one.            *)
(* Time is relative: retry[s] is how many milliseconds remain until the      *)
(* code's retry_time (0 once it has passed), wake how many remain until      *)
(* next_timeout; Tick lets time pass. The thread blocks all signals          *)
(* (utils/thread_posix.inc), so the EINTR that nc_poll_exec, nc_process_     *)
(* timers and nc_process_updates provide for does not happen.                *)
EXTENDS NameService

CONSTANTS ErrorRetry,    \* NC_ERROR_RETRY_TIME, 100
          RequestWait,   \* NC_REQUEST_WAIT_TIME, 1000
          MaxPoll,       \* the longest poll, 60000
          RequestAgain   \* NC_REQUEST_AGAIN_TIME, 300000

ASSUME TimeAssumption == /\ ErrorRetry \in Nat \ {0}
                         /\ RequestWait \in Nat
                         /\ MaxPoll \in Nat
                         /\ RequestAgain \in Nat
                         /\ ErrorRetry < RequestAgain
                         /\ RequestWait <= RequestAgain

VARIABLES
  rev,        \* the phases whose descriptor the last poll found readable
  list,       \* socket_list, as reached from its head
  tailLive,   \* does socket_list.tail point into that list?
  scan,       \* nc_process_timers: position of the next item
  wake,       \* next_timeout
  nextId,     \* next_request_id
  state,      \* per socket: nc_socket.state ...
  request_id, \* ... the id of its last request,
  retry,      \* ... its retry_time,
  url,        \* ... the URL in its prepared request,
  subs,       \* ... the topics in its subscription list
  topicList,  \* the topics of worker->topic_list
  applied,    \* history: version of the last configuration applied
  fresh,      \* history: the oldest version the worker may be content with
  since       \* history: version of the entry when its topics were learned

sockVars == <<state, request_id, retry, url, subs, topicList, applied, fresh, since>>
workerVars == <<pc, rev, list, tailLive, scan, wake, nextId, sockVars>>

None == -1    \* no version applied yet
Phases == {"commands", "responses", "updates"}
States == {"STARTING", "REQUEST_SENT", "SLEEPING"}

Listed == {list[i] : i \in 1 .. Len(list)}
AtMost(a, b) == IF a > b THEN b ELSE a    \* the macro min

WorkerInit == /\ pc = "off"
              /\ rev = {}
              /\ list = <<>>
              /\ tailLive = TRUE
              /\ scan = 1
              /\ wake = MaxPoll
              /\ nextId \in FirstIds    \* nn_random_generate
              /\ state = [s \in Socks |-> "STARTING"]
              /\ request_id = [s \in Socks |-> 0]
              /\ retry = [s \in Socks |-> 0]
              /\ url \in [Socks -> {CHOOSE u \in Urls : TRUE}]
              /\ subs = [s \in Socks |-> {}]
              /\ applied = [s \in Socks |-> None]
              /\ fresh = [s \in Socks |-> 0]
              /\ topicList = {}
              /\ since = [s \in Socks |-> 0]

-----------------------------------------------------------------------------
(* The loop. After a poll the ready phases run in the order of the code;     *)
(* then nc_process_timers starts over with a fresh reading of the clock.     *)

GoTimers == /\ pc' = "timers"
            /\ rev' = {}
            /\ scan' = 1
            /\ wake' = MaxPoll

PhaseAfter(p) == CASE p = "commands" /\ "responses" \in rev -> "responses"
                   [] p # "updates" /\ "updates" \in rev -> "updates"
                   [] OTHER -> "timers"

Leave(p) == IF PhaseAfter(p) = "timers" THEN GoTimers
            ELSE pc' = PhaseAfter(p) /\ UNCHANGED <<rev, scan, wake>>

-----------------------------------------------------------------------------
(* nc_process_timers, one item at a time.                                    *)

Item == list[scan]

(* Mutant of Due: the timer of a request that got no reply is forgotten.     *)
DueOnlyStarting(s) == state[s] = "STARTING"
Due(s) == state[s] = "STARTING" \/ retry[s] = 0

(* Mutant of WakeBefore: only the requests sent in this pass set the timeout. *)
WakeIgnored(s) == wake

(* next_timeout after the first half of the loop's body: an item that just   *)
(* became due does not lower it, one that already was STARTING does.         *)
WakeBefore(s) == IF state[s] # "STARTING" /\ retry[s] = 0 THEN wake
                 ELSE AtMost(wake, retry[s])

AtItem == pc = "timers" /\ scan \in 1 .. Len(list)

TimerSkip == /\ AtItem
             /\ ~Due(Item)
             /\ wake' = WakeBefore(Item)
             /\ scan' = scan + 1
             /\ UNCHANGED <<pc, rev, list, tailLive, nextId, sockVars, apiVars, nsVars>>

(* Mutant of AfterId: the ids run into the reserved top bit.                 *)
NeverWrap(n) == n + 1

(* The id of the next request. With 2^31 ids and a second of waiting the     *)
(* code never meets an id that a socket still carries; with the few ids of   *)
(* an instance those are passed over, which is the only abstraction of the   *)
(* counter. AfterId wraps as the code does.                                  *)
AfterId(n) == IF n + 1 = IdSpace THEN 0 ELSE n + 1
FreeIds == {n \in Ids : \A s \in Listed \ {Item} : request_id[s] # n}
Ahead(n) == IF n >= nextId THEN n - nextId ELSE n + IdSpace - nextId
IsNextId(n) == n \in FreeIds /\ \A k \in FreeIds : Ahead(n) <= Ahead(k)

(* By the time an id comes around again nothing sent under it is on the way. *)
Others(msgs, n) == {m \in msgs : m.id # n}

Issue(n) == /\ IsNextId(n)
            /\ request_id' = [request_id EXCEPT ![Item] = n]
            /\ nextId' = AfterId(n)
            /\ reps' = Others(reps, n)
            /\ inbox' = Others(inbox, n)

TimerSend == /\ AtItem
             /\ ~zombie
             /\ Due(Item)
             /\ \E n \in Ids :
                  /\ Issue(n)
                  /\ reqs' \in Put(Others(reqs, n),
                                   [id |-> n, sock |-> Item, url |-> url[Item]])
             /\ state' = [state EXCEPT ![Item] = "REQUEST_SENT"]
             /\ retry' = [retry EXCEPT ![Item] = RequestWait]
             /\ wake' = AtMost(WakeBefore(Item), RequestWait)
             /\ scan' = scan + 1
             /\ UNCHANGED <<pc, rev, list, tailLive, url, subs, topicList,
                            applied, fresh, since, apiVars, gen, upds, updSubs>>

(* nn_send would block: nobody is connected, or the pipe is full.            *)
TimerAgain == /\ AtItem
              /\ ~zombie
              /\ Due(Item)
              /\ \E n \in Ids : Issue(n) /\ reqs' = Others(reqs, n)
              /\ state' = [state EXCEPT ![Item] = "SLEEPING"]
              /\ retry' = [retry EXCEPT ![Item] = ErrorRetry]
              /\ wake' = AtMost(WakeBefore(Item), ErrorRetry)
              /\ scan' = scan + 1
              /\ UNCHANGED <<pc, rev, list, tailLive, url, subs, topicList,
                             applied, fresh, since, apiVars, gen, upds, updSubs>>

(* nn_send fails with ETERM: the pass is cut short, poll at once.            *)
TimerStop == /\ AtItem
             /\ zombie
             /\ Due(Item)
             /\ \E n \in Ids : Issue(n) /\ reqs' = Others(reqs, n)
             /\ state' = [state EXCEPT ![Item] = "STARTING"]
             /\ wake' = 0
             /\ scan' = 1
             /\ pc' = "poll"
             /\ UNCHANGED <<rev, list, tailLive, retry, url, subs, topicList,
                            applied, fresh, since, apiVars, gen, upds, updSubs>>

TimersEnd == /\ pc = "timers"
             /\ scan > Len(list)
             /\ scan' = 1
             /\ pc' = "poll"
             /\ UNCHANGED <<rev, list, tailLive, wake, nextId, sockVars,
                            apiVars, nsVars>>

-----------------------------------------------------------------------------
(* nc_poll_exec. After nn_term every descriptor is readable.                 *)

(* Mutants of Ready: poll does not watch the queue of commands; poll is not  *)
(* woken by nn_term.                                                         *)
ReadyWithoutCommands == {p \in {"responses", "updates"} :
                           IF p = "responses" THEN inbox # {} ELSE upds # {}}
ReadyOnDataOnly == {p \in Phases : \/ p = "commands" /\ cmds # <<>>
                                   \/ p = "responses" /\ inbox # {}
                                   \/ p = "updates" /\ upds # {}}

Ready == {p \in Phases : \/ zombie /\ (p = "updates" => UpdatesSocket >= 0)
                         \/ p = "commands" /\ cmds # <<>>
                         \/ p = "responses" /\ inbox # {}
                         \/ p = "updates" /\ upds # {}}

PollTimeout == /\ pc = "poll"
               /\ wake = 0 /\ Ready = {}
               /\ GoTimers
               /\ UNCHANGED <<list, tailLive, nextId, sockVars, apiVars, nsVars>>

PollReady == /\ pc = "poll"
             /\ Ready # {}
             /\ rev' = Ready
             /\ pc' = CASE "commands" \in Ready -> "commands"
                        [] "commands" \notin Ready /\ "responses" \in Ready -> "responses"
                        [] OTHER -> "updates"
             /\ wake' = MaxPoll    \* this timeout is used up
             /\ UNCHANGED <<list, tailLive, scan, nextId, sockVars, apiVars, nsVars>>

-----------------------------------------------------------------------------
(* nc_process_commands, one command at a time, until the queue is empty.     *)

AtCommand(tag) == /\ pc = "commands"
                  /\ ~zombie
                  /\ cmds # <<>>
                  /\ Head(cmds).tag = tag

TakeCommand == /\ cmds' = Tail(cmds)
               /\ UNCHANGED <<initialized, term, own, open, calls, zombie>>

(* nc_configure on a socket the list already holds: resend the request.      *)
ConfigureKnown ==
  /\ AtCommand("configure")
  /\ Head(cmds).sock \in Listed
  /\ LET s == Head(cmds).sock IN
       /\ state' = [state EXCEPT ![s] = "STARTING"]
       /\ fresh' = [fresh EXCEPT ![s] = gen[url[s]]]
  /\ TakeCommand
  /\ UNCHANGED <<pc, rev, list, tailLive, scan, wake, nextId, request_id, retry,
                 url, subs, topicList, applied, since, nsVars>>

(* Mutant of nc_list_add: items are put in front.                            *)
AddInFront(s) == list' = <<s>> \o list

(* nc_list_add: with a tail that left the list, what is added is lost.       *)
nc_list_add(s) == list' = IF tailLive THEN Append(list, s) ELSE list

(* A new nc_socket: nn_getsockopt aborts the process when the socket is      *)
(* closed; request_id and retry_time are left as malloc returned them. The   *)
(* record of a socket whose struct is lost is never looked at.               *)
ConfigureNew ==
  /\ AtCommand("configure")
  /\ Head(cmds).sock \notin Listed
  /\ LET s == Head(cmds).sock IN
       /\ pc' = IF s \in open THEN pc ELSE "aborted"
       /\ nc_list_add(s)
       /\ state' = [state EXCEPT ![s] = "STARTING"]
       /\ \E n \in Ids : request_id' = [request_id EXCEPT ![s] = n]
       /\ \E t \in {0, RequestAgain} : retry' = [retry EXCEPT ![s] = t]
       /\ url' = [url EXCEPT ![s] = Head(cmds).url]
       /\ subs' = [subs EXCEPT ![s] = {}]
       /\ applied' = [applied EXCEPT ![s] = None]
       /\ fresh' = [fresh EXCEPT ![s] = gen[Head(cmds).url]]
       /\ since' = [since EXCEPT ![s] = 0]
  /\ TakeCommand
  /\ UNCHANGED <<rev, tailLive, scan, wake, nextId, topicList, nsVars>>

(* Mutants of Without: whatever is closed, the head goes; what comes after   *)
(* the item goes with it.                                                    *)
WithoutHead(s) == Tail(list)
WithoutRest(s) == SubSeq(list, 1, SelectInSeq(list, LAMBDA x : x = s) - 1)

(* nc_list_rm leaves socket_list.tail alone, so removing the last item       *)
(* leaves it pointing into the removed struct.                               *)
Without(s) == LET k == CHOOSE i \in 1 .. Len(list) : list[i] = s IN
              [i \in 1 .. Len(list) - 1 |-> IF i < k THEN list[i] ELSE list[i + 1]]

nc_list_rm(s) == /\ list' = Without(s)
                 /\ tailLive' = (tailLive /\ list[Len(list)] # s)

(* Mutant of Close: a socket found on the list is not nn_closed.             *)
CloseKeepsOpen ==
  /\ AtCommand("close")
  /\ IF Head(cmds).sock \in Listed THEN nc_list_rm(Head(cmds).sock) /\ open' = open
     ELSE UNCHANGED <<list, tailLive>> /\ open' = open \ {Head(cmds).sock}
  /\ cmds' = Tail(cmds)
  /\ UNCHANGED <<pc, rev, scan, wake, nextId, sockVars, initialized, term, own,
                 calls, zombie, nsVars>>

(* nc_close: take the socket off the list if it is there, then nn_close it.  *)
(* Its subscriptions stay behind in the topic list and on the SUB socket.    *)
Close == /\ AtCommand("close")
         /\ IF Head(cmds).sock \in Listed THEN nc_list_rm(Head(cmds).sock)
            ELSE UNCHANGED <<list, tailLive>>
         /\ open' = open \ {Head(cmds).sock}
         /\ cmds' = Tail(cmds)
         /\ UNCHANGED <<pc, rev, scan, wake, nextId, sockVars, initialized, term,
                        own, calls, zombie, nsVars>>

(* Mutant of Shutdown: the loop goes on.                                     *)
ShutdownIgnored == /\ AtCommand("shutdown")
                   /\ TakeCommand
                   /\ UNCHANGED <<pc, rev, list, tailLive, scan, wake, nextId,
                                  sockVars, nsVars>>

(* NC_SHUTDOWN ends the thread at once, whatever is queued behind it.        *)
Shutdown == /\ AtCommand("shutdown")
            /\ TakeCommand
            /\ pc' = "exited"
            /\ UNCHANGED <<rev, list, tailLive, scan, wake, nextId, sockVars, nsVars>>

CommandsEnd == /\ pc = "commands"
               /\ ~zombie
               /\ cmds = <<>>
               /\ Leave("commands")
               /\ UNCHANGED <<list, tailLive, nextId, sockVars, apiVars, nsVars>>

CommandsTerm == /\ pc = "commands"
                /\ zombie
                /\ pc' = "exited"
                /\ UNCHANGED <<rev, list, tailLive, scan, wake, nextId, sockVars,
                               apiVars, nsVars>>

-----------------------------------------------------------------------------
(* nc_process_responses, one reply at a time, until none is left.            *)

(* The first item of the list that carries the reply's id is the only one    *)
(* looked at; a reply counts if that item still waits for it.                *)
Answers(m, s) == \E i \in 1 .. Len(list) :
                   /\ list[i] = s
                   /\ request_id[s] = m.id
                   /\ \A j \in 1 .. i - 1 : request_id[list[j]] # m.id

(* Mutant of Accepts: a reply counts in any state of the socket.             *)
AcceptsAlways(m, s) == Answers(m, s)
Accepts(m, s) == Answers(m, s) /\ state[s] = "REQUEST_SENT"

TakeReply(m) == /\ pc = "responses"
                /\ ~zombie
                /\ inbox' = inbox \ {m}
                /\ UNCHANGED <<pc, rev, list, tailLive, scan, wake, nextId,
                               request_id, url, fresh, apiVars, gen, reqs,
                               reps, upds>>

(* A topic that is not on topic_list yet is put there and subscribed to, if  *)
(* there is a SUB socket (if (updates_socket)): the number 0 is taken for    *)
(* none, -1 is tried in vain. A refusal is only reported; the topic is on    *)
(* the list then and never tried again. The topics of an entry are fixed     *)
(* here, so no reply drops one (NcApply has replies that do).                *)
Subscribe(ts) ==
  /\ topicList' = topicList \union ts
  /\ \E refused \in SUBSET (ts \ topicList) :
       /\ UpdatesSocket <= 0 => refused = ts \ topicList
       /\ updSubs' = updSubs \union ((ts \ topicList) \ refused)

(* nc_parse_and_apply succeeds: the socket has the entry's endpoints, and    *)
(* its topics are in its subscription list.                                  *)
ReplyApplied(m, s) ==
  /\ Accepts(m, s) /\ m.ok
  /\ TakeReply(m)
  /\ state' = [state EXCEPT ![s] = "SLEEPING"]
  /\ retry' = [retry EXCEPT ![s] = RequestAgain]
  /\ applied' = [applied EXCEPT ![s] = m.gen]
  /\ subs' = [subs EXCEPT ![s] = TopicsOf[m.url]]
  /\ since' = IF subs[s] = {} THEN [since EXCEPT ![s] = gen[m.url]] ELSE since
  /\ Subscribe(TopicsOf[m.url])

ReplyRefused(m, s) == /\ Accepts(m, s) /\ ~m.ok
                      /\ TakeReply(m)
                      /\ state' = [state EXCEPT ![s] = "SLEEPING"]
                      /\ retry' = [retry EXCEPT ![s] = ErrorRetry]
                      /\ UNCHANGED <<subs, topicList, applied, since, updSubs>>

ReplyIgnored(m) == /\ \A s \in Listed : ~Accepts(m, s)
                   /\ TakeReply(m)
                   /\ UNCHANGED <<state, retry, subs, topicList, applied, since,
                                   updSubs>>

ResponsesEnd == /\ pc = "responses"
                /\ ~zombie
                /\ inbox = {}
                /\ Leave("responses")
                /\ UNCHANGED <<list, tailLive, nextId, sockVars, apiVars, nsVars>>

(* errno_assert (errno == EAGAIN): ETERM here aborts the process.            *)
ResponsesTerm == /\ pc = "responses"
                 /\ zombie
                 /\ pc' = "aborted"
                 /\ UNCHANGED <<rev, list, tailLive, scan, wake, nextId, sockVars,
                                apiVars, nsVars>>

-----------------------------------------------------------------------------
(* nc_process_updates, one update at a time.                                 *)

(* Mutant of Concerned: a socket that waits for a reply is not disturbed.    *)
ConcernedAsleep(m) == {s \in Listed : /\ state[s] = "SLEEPING"
                                      /\ \E t \in subs[s] : IsPrefix(t, m.topic)}

Concerned(m) == {s \in Listed : \E t \in subs[s] : IsPrefix(t, m.topic)}

UpdateTaken(m) ==
  /\ pc = "updates"
  /\ ~zombie
  /\ upds' = upds \ {m}
  /\ state' = [s \in Socks |-> IF s \in Concerned(m) THEN "STARTING" ELSE state[s]]
  /\ fresh' = [s \in Socks |->
                  IF s \in Listed /\ url[s] = m.url /\ subs[s] # {} /\ fresh[s] < m.gen
                  THEN m.gen ELSE fresh[s]]
  /\ UNCHANGED <<pc, rev, list, tailLive, scan, wake, nextId, request_id, retry,
                 url, subs, topicList, applied, since, apiVars, gen, reqs, reps,
                 inbox, updSubs>>

(* EAGAIN and ETERM both end the phase.                                      *)
UpdatesEnd == /\ pc = "updates"
              /\ upds = {} \/ zombie
              /\ GoTimers
              /\ UNCHANGED <<list, tailLive, nextId, sockVars, apiVars, nsVars>>

-----------------------------------------------------------------------------
Less1(n) == IF n = 0 THEN 0 ELSE n - 1

(* A millisecond passes. nc_process_timers reads the clock once, before its  *)
(* loop: for what it computes no time passes in between.                     *)
Tick == /\ pc \in {"poll"} \union Phases
        /\ (pc = "poll" /\ wake > 0) \/ \E s \in Listed : retry[s] > 0
        /\ wake' = IF pc = "poll" THEN Less1(wake) ELSE wake
        /\ retry' = [s \in Socks |-> IF s \in Listed THEN Less1(retry[s]) ELSE retry[s]]
        /\ UNCHANGED <<pc, rev, list, tailLive, scan, nextId, state, request_id,
                       url, subs, topicList, applied, fresh, since, apiVars, nsVars>>

Timers == TimerSkip \/ TimerSend \/ TimerAgain \/ TimerStop \/ TimersEnd
Poll == PollTimeout \/ PollReady
Commands == \/ ConfigureKnown \/ ConfigureNew \/ Close \/ Shutdown
            \/ CommandsEnd \/ CommandsTerm
Responses == \/ \E m \in inbox : \/ \E s \in Listed : \/ ReplyApplied(m, s)
                                                    \/ ReplyRefused(m, s)
                                \/ ReplyIgnored(m)
             \/ ResponsesEnd \/ ResponsesTerm
Updates == (\E m \in upds : UpdateTaken(m)) \/ UpdatesEnd

WorkerNext == Timers \/ Poll \/ Commands \/ Responses \/ Updates
=============================================================================
