-------------------------- MODULE NanoconfigProofs --------------------------
(* Theorems about Nanoconfig, for every set of sockets and URLs, every       *)
(* capacity, every number of ids and all timeouts that the assumptions of    *)
(* the constants allow.                                                      *)
EXTENDS Nanoconfig, TLAPS

USE ApiAssumption, ServiceAssumption, TimeAssumption
    DEF ApiAssumption, ServiceAssumption, TimeAssumption

-----------------------------------------------------------------------------
(* What the operators of the model return.                                   *)

(* A full network makes room: the new message and some of the old.           *)
LEMMA PutSubset == ASSUME NEW msgs, NEW m, NEW after \in Put(msgs, m)
                   PROVE  after \subseteq msgs \union {m}
  BY DEF Put

(* The loop goes on with one of its phases or starts over.                   *)
LEMMA LeaveType == ASSUME TypeOK, NEW p \in Phases, Leave(p)
                   PROVE  /\ pc' \in {"responses", "updates", "timers"}
                          /\ rev' \subseteq Phases
                          /\ scan' \in Nat \ {0}
                          /\ wake' \in 0 .. MaxPoll
                          /\ pc' = "timers" => scan' = 1
  <1>1. PhaseAfter(p) \in {"responses", "updates", "timers"}
    BY DEF PhaseAfter
  <1> QED BY <1>1 DEF Leave, GoTimers, TypeOK

(* Removing an item from the list keeps the others, in their order: each     *)
(* position afterwards stands for one before.                                *)
LEMMA WithoutShift ==
  ASSUME TypeOK, NEW s \in Listed
  PROVE  /\ Without(s) \in Seq(Socks)
         /\ Len(Without(s)) = Len(list) - 1
         /\ \E from \in [1 .. Len(Without(s)) -> 1 .. Len(list)] :
              /\ \A i \in 1 .. Len(Without(s)) : Without(s)[i] = list[from[i]]
              /\ \A i, j \in 1 .. Len(Without(s)) : i < j => from[i] < from[j]
  <1> DEFINE k == CHOOSE i \in 1 .. Len(list) : list[i] = s
  <1>1. k \in 1 .. Len(list)
    BY DEF Listed
  <1>2. list \in Seq(Socks) /\ Len(list) \in Nat
    BY DEF TypeOK
  <1>3. Without(s) = [i \in 1 .. Len(list) - 1 |-> IF i < k THEN list[i] ELSE list[i + 1]]
    BY DEF Without
  <1> HIDE DEF k
  <1>4. \A i \in 1 .. Len(list) - 1 : list[i] \in Socks /\ list[i + 1] \in Socks
    BY <1>2
  <1>5. Without(s) \in [1 .. Len(list) - 1 -> Socks]
    BY <1>3, <1>4
  <1>6. Len(list) - 1 \in Nat
    BY <1>1, <1>2
  <1>7. Without(s) \in Seq(Socks) /\ Len(Without(s)) = Len(list) - 1
    BY <1>5, <1>6
  <1> DEFINE from == [i \in 1 .. Len(list) - 1 |-> IF i < k THEN i ELSE i + 1]
  <1>8. from \in [1 .. Len(Without(s)) -> 1 .. Len(list)]
    BY <1>1, <1>2, <1>7
  <1>9. \A i \in 1 .. Len(Without(s)) : Without(s)[i] = list[from[i]]
    BY <1>1, <1>2, <1>3, <1>7
  <1>10. \A i, j \in 1 .. Len(Without(s)) : i < j => from[i] < from[j]
    BY <1>1, <1>2, <1>7
  <1> QED BY <1>7, <1>8, <1>9, <1>10

(* A command has the fields that go with its tag.                            *)
LEMMA CommandFields ==
  ASSUME TypeOK, NEW tag, AtCommand(tag)
  PROVE  /\ Head(cmds) \in Command /\ Tail(cmds) \in Seq(Command)
         /\ tag = "configure" => Head(cmds).sock \in Socks /\ Head(cmds).url \in Urls
         /\ tag = "close" => Head(cmds).sock \in Socks
  <1>1. Head(cmds) \in Command /\ Tail(cmds) \in Seq(Command)
    BY DEF TypeOK, AtCommand
  <1> QED BY <1>1 DEF Command, AtCommand

(* The item the pass is at is a socket of the list.                          *)
LEMMA ItemListed == ASSUME TypeOK, AtItem
                    PROVE  Item \in Listed /\ Item \in Socks /\ scan \in 1 .. Len(list)
  BY DEF TypeOK, AtItem, Item, Listed

LEMMA ListedSocks == ASSUME TypeOK PROVE Listed \subseteq Socks
  BY SMTT(30) DEF TypeOK, Listed

-----------------------------------------------------------------------------
(* Type correctness.                                                         *)

LEMMA TypeInit == Init => TypeOK
  <1> SUFFICES ASSUME Init PROVE TypeOK
    OBVIOUS
  <1> USE DEF Init, ApiInit, NsInit, WorkerInit, TypeOK
  <1>1. \E u \in Urls : TRUE
    OBVIOUS
  <1>2. (CHOOSE u \in Urls : TRUE) \in Urls
    BY <1>1, Zenon
  <1>3. url \in [Socks -> Urls]
    BY <1>2
  <1>4. /\ nextId \in Ids
        /\ pc \in Phases \union {"off", "timers", "poll", "exited", "aborted"}
        /\ rev \subseteq Phases /\ scan \in Nat \ {0} /\ wake \in 0 .. MaxPoll
        /\ calls \in 0 .. MaxCalls
    BY DEF Phases, Ids
  <1>5. 0 \in Ids /\ 0 \in 0 .. RequestAgain /\ 0 \in 0 .. MaxGen
    BY DEF Ids
  <1>6. /\ state \in [Socks -> States] /\ request_id \in [Socks -> Ids]
        /\ retry \in [Socks -> 0 .. RequestAgain]
        /\ subs \in [Socks -> SUBSET Topics]
        /\ applied \in [Socks -> 0 .. MaxGen \union {None}]
        /\ fresh \in [Socks -> 0 .. MaxGen] /\ since \in [Socks -> 0 .. MaxGen]
        /\ gen \in [Urls -> 0 .. MaxGen]
    BY <1>5 DEF States
  <1>7. cmds \in Seq(Command) /\ list \in Seq(Socks)
    OBVIOUS
  <1>8. /\ initialized \in BOOLEAN /\ zombie \in BOOLEAN /\ tailLive \in BOOLEAN
        /\ term \in {"no", "joining", "done"}
        /\ own \subseteq Socks /\ open \subseteq Socks
        /\ updSubs \subseteq Topics /\ topicList \subseteq Topics
        /\ reqs \subseteq Request /\ reps \subseteq Reply
        /\ inbox \subseteq Reply \union {Junk} /\ upds \subseteq Update
    OBVIOUS
  <1> HIDE DEF Init, ApiInit, NsInit, WorkerInit
  <1> QED BY <1>3, <1>4, <1>6, <1>7, <1>8

LEMMA SendType == ASSUME cmds \in Seq(Command), NEW c \in Command, Send(c)
                  PROVE  cmds' \in Seq(Command)
  <1>1. Append(cmds, c) \in Seq(Command)
    OBVIOUS
  <1> QED BY <1>1 DEF Send

LEMMA TypeApp == ASSUME TypeOK, App PROVE TypeOK'
  <1> USE DEF TypeOK, nsVars, sockVars, Phases
  <1>2. ASSUME NEW s \in Socks, NnSocket(s) PROVE TypeOK'
    BY SMTT(30), <1>2 DEF App, NnSocket, MayCall
  <1>3. ASSUME NEW s \in Socks, NEW u \in Urls, NcConfigure(s, u) PROVE TypeOK'
    <2>1. [tag |-> "configure", sock |-> s, url |-> u] \in Command
      BY DEF Command
    <2>2. cmds' \in Seq(Command)
      BY <1>3, <2>1, SendType DEF NcConfigure
    <2> QED BY SMTT(30), <1>3, <2>2 DEF App, NcConfigure, nc_start, MayCall
  <1>4. ASSUME NEW s \in Socks, NcClose(s) PROVE TypeOK'
    <2>1. [tag |-> "close", sock |-> s] \in Command
      BY DEF Command
    <2>2. cmds' \in Seq(Command)
      BY <1>4, <2>1, SendType DEF NcClose
    <2> QED BY SMTT(30), <1>4, <2>2 DEF App, NcClose, MayCall
  <1>5. ASSUME NcTerm PROVE TypeOK'
    <2>1. [tag |-> "shutdown"] \in Command
      BY DEF Command
    <2>2. cmds' \in Seq(Command)
      BY <1>5, <2>1, SendType DEF NcTerm
    <2> QED BY <1>5, <2>2 DEF App, NcTerm
  <1>6. ASSUME NcTermReturn PROVE TypeOK'
    BY <1>6 DEF App, NcTermReturn
  <1>7. ASSUME NnTerm PROVE TypeOK'
    BY <1>7 DEF App, NnTerm
  <1> QED BY <1>2, <1>3, <1>4, <1>5, <1>6, <1>7 DEF App, ApiNext

LEMMA TypeService == ASSUME TypeOK, Service PROVE TypeOK'
  <1> USE DEF apiVars, workerVars, sockVars, Service
  <1>1. ASSUME NEW r \in reqs, NEW ok \in BOOLEAN, NsAnswer(r, ok) PROVE TypeOK'
    <2> DEFINE m == [id |-> r.id, sock |-> r.sock, url |-> r.url,
                     gen |-> gen[r.url], ok |-> ok]
    <2>1. m \in Reply
      BY DEF TypeOK, Request, Reply
    <2>2. reps' \subseteq reps \union {m}
      BY <1>1, PutSubset DEF NsAnswer
    <2> QED BY <1>1, <2>1, <2>2 DEF TypeOK, NsAnswer
  <1>2. ASSUME NEW m \in reps, NEW copies \in BOOLEAN, NsDeliver(m, copies) PROVE TypeOK'
    <2>1. inbox' \subseteq inbox \union {m}
      BY <1>2, PutSubset DEF NsDeliver
    <2> QED BY <1>2, <2>1 DEF TypeOK, NsDeliver
  <1>3. ASSUME NsJunk PROVE TypeOK'
    <2>1. inbox' \subseteq inbox \union {Junk}
      BY <1>3, PutSubset DEF NsJunk
    <2> QED BY <1>3, <2>1 DEF TypeOK, NsJunk
  <1>4. ASSUME NsLose PROVE TypeOK'
    BY <1>4 DEF TypeOK, NsLose
  <1>5. ASSUME NEW u \in Urls, NEW a \in Arrivals(u), NsChange(u, a) PROVE TypeOK'
    <2>1. a \subseteq Topics
      BY DEF Arrivals
    <2>2. gen' \in [Urls -> 0 .. MaxGen]
      BY <1>5 DEF TypeOK, NsChange
    <2>3. upds' \subseteq Update
      BY <1>5, <2>1, <2>2 DEF TypeOK, NsChange, Update
    <2> QED BY <1>5, <2>2, <2>3 DEF TypeOK, NsChange
  <1> QED BY <1>1, <1>2, <1>3, <1>4, <1>5 DEF NsNext

LEMMA TypeTimers == ASSUME TypeOK, Timers PROVE TypeOK'
  <1> USE DEF apiVars, sockVars, nsVars
  <1>0. \A a \in 0 .. MaxPoll, b \in Nat : AtMost(a, b) \in 0 .. MaxPoll
    BY DEF AtMost
  <1>1. AtItem => WakeBefore(Item) \in 0 .. MaxPoll
    <2>1. AtItem => wake \in 0 .. MaxPoll /\ retry[Item] \in Nat
      BY ItemListed DEF TypeOK
    <2> QED BY <1>0, <2>1 DEF WakeBefore
  <1>2. ASSUME NEW n \in Ids, Issue(n)
        PROVE  /\ request_id' \in [Socks -> Ids] /\ nextId' \in Ids
               /\ reps' \subseteq Reply /\ inbox' \subseteq Reply \union {Junk}
    <2>1. AfterId(n) \in Ids
      BY DEF AfterId, Ids
    <2>2. request_id' \in [Socks -> Ids]
      BY <1>2 DEF Issue, TypeOK
    <2> QED BY <1>2, <2>1, <2>2 DEF TypeOK, Issue, Others
  <1>3. \A n : Others(reqs, n) \subseteq Request
    BY DEF TypeOK, Others
  <1>4. ASSUME AtItem PROVE scan + 1 \in Nat \ {0}
    BY DEF TypeOK
  <1>5. ASSUME TimerSkip PROVE TypeOK'
    BY ZenonT(30), <1>1, <1>4, <1>5 DEF TypeOK, TimerSkip
  <1>6. ASSUME TimerSend PROVE TypeOK'
    <2>1. PICK n \in Ids : /\ Issue(n)
                           /\ reqs' \in Put(Others(reqs, n),
                                 [id |-> n, sock |-> Item, url |-> url[Item]])
      BY <1>6 DEF TimerSend
    <2>2. [id |-> n, sock |-> Item, url |-> url[Item]] \in Request
      BY <1>6, ItemListed DEF TimerSend, Request, TypeOK
    <2>3. reqs' \subseteq Request
      BY <2>1, <2>2, <1>3, PutSubset
    <2>4. wake' \in 0 .. MaxPoll
      <3>1. wake' = AtMost(WakeBefore(Item), RequestWait) /\ AtItem
        BY <1>6 DEF TimerSend
      <3>2. WakeBefore(Item) \in 0 .. MaxPoll /\ RequestWait \in Nat
        BY <3>1, <1>1
      <3> QED BY <3>1, <3>2, <1>0
    <2>5. retry' \in [Socks -> 0 .. RequestAgain] /\ state' \in [Socks -> States]
      <3>1. /\ state' = [state EXCEPT ![Item] = "REQUEST_SENT"]
            /\ retry' = [retry EXCEPT ![Item] = RequestWait]
        BY <1>6 DEF TimerSend
      <3>2. "REQUEST_SENT" \in States /\ RequestWait \in 0 .. RequestAgain
        BY DEF States
      <3> QED BY <3>1, <3>2 DEF TypeOK
    <2> QED BY <1>2, <1>4, <1>6, <2>1, <2>3, <2>4, <2>5 DEF TypeOK, TimerSend
  <1>7. ASSUME TimerAgain PROVE TypeOK'
    <2>1. PICK n \in Ids : Issue(n) /\ reqs' = Others(reqs, n)
      BY <1>7 DEF TimerAgain
    <2>2. wake' \in 0 .. MaxPoll
      <3>1. wake' = AtMost(WakeBefore(Item), ErrorRetry) /\ AtItem
        BY <1>7 DEF TimerAgain
      <3>2. WakeBefore(Item) \in 0 .. MaxPoll /\ ErrorRetry \in Nat
        BY <3>1, <1>1
      <3> QED BY <3>1, <3>2, <1>0
    <2>3. retry' \in [Socks -> 0 .. RequestAgain] /\ state' \in [Socks -> States]
      <3>1. /\ state' = [state EXCEPT ![Item] = "SLEEPING"]
            /\ retry' = [retry EXCEPT ![Item] = ErrorRetry]
        BY <1>7 DEF TimerAgain
      <3>2. "SLEEPING" \in States /\ ErrorRetry \in 0 .. RequestAgain
        BY DEF States
      <3> QED BY <3>1, <3>2 DEF TypeOK
    <2> QED BY <1>2, <1>3, <1>4, <1>7, <2>1, <2>2, <2>3 DEF TypeOK, TimerAgain
  <1>8. ASSUME TimerStop PROVE TypeOK'
    <2>1. PICK n \in Ids : Issue(n) /\ reqs' = Others(reqs, n)
      BY <1>8 DEF TimerStop
    <2>2. state' \in [Socks -> States]
      BY <1>8 DEF TimerStop, TypeOK, States
    <2> QED BY SMTT(30), <1>2, <1>3, <1>8, <2>1, <2>2 DEF TypeOK, TimerStop
  <1>9. ASSUME TimersEnd PROVE TypeOK'
    BY <1>9 DEF TypeOK, TimersEnd
  <1> QED BY <1>5, <1>6, <1>7, <1>8, <1>9 DEF Timers

LEMMA TypePoll == ASSUME TypeOK, Poll PROVE TypeOK'
  <1> USE DEF apiVars, sockVars, nsVars
  <1>1. ASSUME PollTimeout PROVE TypeOK'
    BY <1>1 DEF TypeOK, PollTimeout, GoTimers
  <1>2. ASSUME PollReady PROVE TypeOK'
    <2>1. rev' \subseteq Phases /\ pc' \in Phases
      BY <1>2 DEF PollReady, Ready, Phases
    <2>2. wake' \in 0 .. MaxPoll
      BY <1>2 DEF PollReady
    <2> QED BY <1>2, <2>1, <2>2 DEF TypeOK, PollReady
  <1> QED BY <1>1, <1>2 DEF Poll

LEMMA TypeCommands == ASSUME TypeOK, Commands PROVE TypeOK'
  <1> USE DEF apiVars, sockVars, nsVars, TakeCommand
  <1>1. ASSUME ConfigureKnown PROVE TypeOK'
    <2> DEFINE s == Head(cmds).sock
    <2>1. s \in Socks /\ Head(cmds).url \in Urls /\ Tail(cmds) \in Seq(Command)
      BY <1>1, CommandFields DEF ConfigureKnown
    <2>2. gen[url[s]] \in 0 .. MaxGen
      BY <2>1 DEF TypeOK
    <2>3. state' \in [Socks -> States] /\ fresh' \in [Socks -> 0 .. MaxGen]
      BY <1>1, <2>1, <2>2 DEF TypeOK, ConfigureKnown, States
    <2> QED BY <1>1, <2>1, <2>3 DEF TypeOK, ConfigureKnown
  <1>2. ASSUME ConfigureNew PROVE TypeOK'
    <2> DEFINE s == Head(cmds).sock
    <2>1. s \in Socks /\ Head(cmds).url \in Urls /\ Tail(cmds) \in Seq(Command)
      BY <1>2, CommandFields DEF ConfigureNew
    <2>2. gen[Head(cmds).url] \in 0 .. MaxGen /\ Append(list, s) \in Seq(Socks)
      BY <2>1 DEF TypeOK
    <2>3. /\ state' \in [Socks -> States]
          /\ request_id' \in [Socks -> Ids]
          /\ retry' \in [Socks -> 0 .. RequestAgain]
      BY SMTT(30), <1>2, <2>1 DEF TypeOK, ConfigureNew, States
    <2>4. /\ url' \in [Socks -> Urls]
          /\ subs' \in [Socks -> SUBSET Topics]
          /\ applied' \in [Socks -> 0 .. MaxGen \union {None}]
          /\ fresh' \in [Socks -> 0 .. MaxGen]
          /\ since' \in [Socks -> 0 .. MaxGen]
      BY <1>2, <2>1, <2>2 DEF TypeOK, ConfigureNew
    <2>5. list' \in Seq(Socks) /\ pc' \in Phases \union {"aborted"}
      BY <1>2, <2>2 DEF TypeOK, ConfigureNew, nc_list_add, AtCommand, Phases
    <2> QED BY <1>2, <2>1, <2>3, <2>4, <2>5 DEF TypeOK, ConfigureNew
  <1>3. ASSUME Close PROVE TypeOK'
    <2>1. Head(cmds).sock \in Socks /\ Tail(cmds) \in Seq(Command)
      BY <1>3, CommandFields DEF Close
    <2>2. list' \in Seq(Socks) /\ tailLive' \in BOOLEAN
      <3>1. CASE Head(cmds).sock \in Listed
        BY <1>3, <3>1, WithoutShift DEF Close, nc_list_rm
      <3>2. CASE Head(cmds).sock \notin Listed
        BY <1>3, <3>2 DEF Close, TypeOK
      <3> QED BY <3>1, <3>2
    <2> QED BY <1>3, <2>1, <2>2 DEF TypeOK, Close
  <1>4. ASSUME Shutdown PROVE TypeOK'
    BY <1>4, CommandFields DEF TypeOK, Shutdown
  <1>5. ASSUME CommandsEnd PROVE TypeOK'
    <2>1. "commands" \in Phases
      BY DEF Phases
    <2> QED BY <1>5, <2>1, LeaveType DEF TypeOK, CommandsEnd, Phases
  <1>6. ASSUME CommandsTerm PROVE TypeOK'
    BY <1>6 DEF TypeOK, CommandsTerm
  <1> QED BY <1>1, <1>2, <1>3, <1>4, <1>5, <1>6 DEF Commands

LEMMA TypeResponses == ASSUME TypeOK, Responses PROVE TypeOK'
  <1> USE DEF apiVars, sockVars, nsVars, TakeReply
  <1>0. RequestAgain \in 0 .. RequestAgain /\ ErrorRetry \in 0 .. RequestAgain
    OBVIOUS
  <1>1. ASSUME NEW m \in inbox, NEW s \in Listed, ReplyApplied(m, s) PROVE TypeOK'
    <2>1. s \in Socks
      BY ListedSocks
    <2>2. m \in Reply
      <3>1. m.id \in Ids
        BY <1>1, <2>1 DEF ReplyApplied, Accepts, Answers, TypeOK
      <3>2. Junk.id \notin Ids
        BY DEF Junk, NoId, Ids
      <3> QED BY <3>1, <3>2 DEF TypeOK
    <2>3. m.gen \in 0 .. MaxGen /\ TopicsOf[m.url] \subseteq Topics
      BY <2>2 DEF Reply
    <2>4. /\ state' \in [Socks -> States]
          /\ retry' \in [Socks -> 0 .. RequestAgain]
          /\ applied' \in [Socks -> 0 .. MaxGen \union {None}]
          /\ subs' \in [Socks -> SUBSET Topics]
      BY <1>0, <1>1, <2>3 DEF TypeOK, ReplyApplied, States
    <2>5. topicList' \subseteq Topics /\ updSubs' \subseteq Topics
      BY <1>1, <2>3 DEF TypeOK, ReplyApplied, Subscribe
    <2>6. since' \in [Socks -> 0 .. MaxGen]
      <3>1. gen[m.url] \in 0 .. MaxGen
        BY <2>2 DEF TypeOK, Reply
      <3>2. since' = since \/ since' = [since EXCEPT ![s] = gen[m.url]]
        BY <1>1 DEF ReplyApplied
      <3> QED BY <2>1, <3>1, <3>2 DEF TypeOK
    <2> QED BY <1>1, <2>4, <2>5, <2>6 DEF TypeOK, ReplyApplied
  <1>2. ASSUME NEW m \in inbox, NEW s \in Listed, ReplyRefused(m, s) PROVE TypeOK'
    <2>1. state' \in [Socks -> States] /\ retry' \in [Socks -> 0 .. RequestAgain]
      BY <1>0, <1>2 DEF TypeOK, ReplyRefused, States
    <2> QED BY <1>2, <2>1 DEF TypeOK, ReplyRefused
  <1>3. ASSUME NEW m \in inbox, ReplyIgnored(m) PROVE TypeOK'
    BY <1>3 DEF TypeOK, ReplyIgnored
  <1>4. ASSUME ResponsesEnd PROVE TypeOK'
    <2>1. "responses" \in Phases
      BY DEF Phases
    <2> QED BY <1>4, <2>1, LeaveType DEF TypeOK, ResponsesEnd, Phases
  <1>5. ASSUME ResponsesTerm PROVE TypeOK'
    BY <1>5 DEF TypeOK, ResponsesTerm
  <1> QED BY <1>1, <1>2, <1>3, <1>4, <1>5 DEF Responses

LEMMA TypeUpdates == ASSUME TypeOK, Updates PROVE TypeOK'
  <1> USE DEF apiVars, sockVars, nsVars
  <1>1. ASSUME NEW m \in upds, UpdateTaken(m) PROVE TypeOK'
    <2>1. m.gen \in 0 .. MaxGen
      BY DEF TypeOK, Update
    <2>2. state' \in [Socks -> States] /\ fresh' \in [Socks -> 0 .. MaxGen]
      BY <1>1, <2>1 DEF TypeOK, UpdateTaken, States
    <2> QED BY <1>1, <2>2 DEF TypeOK, UpdateTaken
  <1>2. ASSUME UpdatesEnd PROVE TypeOK'
    BY <1>2 DEF TypeOK, UpdatesEnd, GoTimers
  <1> QED BY <1>1, <1>2 DEF Updates

LEMMA TypeTick == ASSUME TypeOK, Tick PROVE TypeOK'
  <1>1. /\ \A n \in 0 .. MaxPoll : Less1(n) \in 0 .. MaxPoll
        /\ \A n \in 0 .. RequestAgain : Less1(n) \in 0 .. RequestAgain
    BY DEF Less1
  <1>2. wake' \in 0 .. MaxPoll /\ retry' \in [Socks -> 0 .. RequestAgain]
    BY <1>1 DEF TypeOK, Tick
  <1> QED BY <1>2 DEF TypeOK, Tick, apiVars, nsVars

LEMMA TypeStutter == ASSUME TypeOK, UNCHANGED vars PROVE TypeOK'
  BY DEF TypeOK, vars, apiVars, nsVars, workerVars, sockVars

LEMMA TypeStep == ASSUME TypeOK, [Next]_vars PROVE TypeOK'
  BY TypeApp, TypeService, TypeTimers, TypePoll, TypeCommands, TypeResponses,
     TypeUpdates, TypeTick, TypeStutter DEF Next, WorkerNext

(* The variables keep their types: no id reaches the reserved top bit, no    *)
(* timer is set beyond the longest of the timeouts, no message is malformed. *)
THEOREM TypeCorrect == Spec => []TypeOK
  <1>1. TypeOK /\ [Next]_vars => TypeOK'
    BY TypeStep
  <1> QED BY <1>1, TypeInit, PTL DEF Spec

-----------------------------------------------------------------------------
(* The inductive invariant, first the part about requests and replies.       *)

mailVars == <<list, state, request_id, retry, url, subs, applied, fresh, gen,
              reqs, reps, inbox, upds>>

LEMMA MailFrame == ASSUME Mail, UNCHANGED mailVars PROVE Mail'
  <1> USE DEF mailVars
  <1>1. Listed' = Listed
    BY DEF Listed
  <1>2. ListedOnce' /\ Unshadowed'
    BY DEF Mail, ListedOnce, Unshadowed
  <1>3. RequestsOwn' /\ RepliesOwn'
    BY <1>1 DEF Mail, RequestsOwn, RepliesOwn, Waits
  <1>4. DemandKnown' /\ TopicsKnown' /\ Settled'
    BY <1>1 DEF Mail, DemandKnown, TopicsKnown, Settled, Rests
  <1> QED BY <1>2, <1>3, <1>4 DEF Mail

LEMMA MailInit == Init => Mail
  <1> SUFFICES ASSUME Init PROVE Mail
    OBVIOUS
  <1>1. /\ list = <<>> /\ reqs = {} /\ reps = {} /\ inbox = {} /\ upds = {}
        /\ fresh = [s \in Socks |-> 0] /\ gen = [u \in Urls |-> 0]
        /\ subs = [s \in Socks |-> {}]
    BY DEF Init, NsInit, WorkerInit
  <1>2. url \in [Socks -> Urls]
    BY TypeInit DEF TypeOK
  <1>3. Listed = {}
    BY <1>1 DEF Listed
  <1> QED BY <1>1, <1>2, <1>3 DEF Mail, ListedOnce, Unshadowed, RequestsOwn,
             RepliesOwn, DemandKnown, TopicsKnown, Settled

(* What the configuration service and the network do. An answer is read from *)
(* the table after the request was sent, so it is as new as demanded.        *)
LEMMA MailService == ASSUME TypeOK, Mail, Service PROVE Mail'
  <1> USE DEF apiVars, workerVars, sockVars, Service
  <1>0. Listed' = Listed
    BY DEF Listed
  <1>1. ListedOnce' /\ Unshadowed' /\ TopicsKnown' /\ Settled'
    BY <1>0 DEF Mail, ListedOnce, Unshadowed, TopicsKnown, Settled, Rests
  <1>2. \A s \in Socks : \A m : Waits(s, m)' <=> Waits(s, m)
    BY <1>0 DEF Waits
  <1>3. ASSUME NEW r \in reqs, NEW ok \in BOOLEAN, NsAnswer(r, ok)
        PROVE  RequestsOwn' /\ RepliesOwn' /\ DemandKnown'
    <2> DEFINE m == [id |-> r.id, sock |-> r.sock, url |-> r.url,
                     gen |-> gen[r.url], ok |-> ok]
    <2>1. reps' \subseteq reps \union {m} /\ inbox' = inbox
      BY <1>3, PutSubset DEF NsAnswer
    <2>2. ASSUME NEW s \in Socks, Waits(s, m)
          PROVE  m.sock = s /\ m.url = url[s] /\ m.gen >= fresh[s]
      <3>1. Waits(s, r)
        BY <2>2 DEF Waits
      <3>2. r.sock = s /\ r.url = url[s]
        BY <3>1 DEF Mail, RequestsOwn
      <3>3. fresh[s] <= gen[url[s]] /\ fresh[s] \in Nat /\ gen[url[s]] \in Nat
        BY DEF Mail, DemandKnown, TypeOK
      <3> QED BY <3>2, <3>3
    <2>3. RepliesOwn'
      BY <1>2, <2>1, <2>2 DEF Mail, RepliesOwn
    <2>4. RequestsOwn'
      BY <1>2, <1>3 DEF Mail, RequestsOwn, NsAnswer
    <2>5. DemandKnown'
      BY <1>3 DEF Mail, DemandKnown, NsAnswer
    <2> QED BY <2>3, <2>4, <2>5
  <1>4. ASSUME NEW m \in reps, NEW copies \in BOOLEAN, NsDeliver(m, copies)
        PROVE  RequestsOwn' /\ RepliesOwn' /\ DemandKnown'
    <2>1. inbox' \subseteq inbox \union {m} /\ reps' \subseteq reps
      BY <1>4, PutSubset DEF NsDeliver
    <2>2. RepliesOwn'
      BY <1>2, <2>1 DEF Mail, RepliesOwn
    <2> QED BY <1>2, <1>4, <2>2 DEF Mail, RequestsOwn, DemandKnown, NsDeliver
  <1>5. ASSUME NsJunk PROVE RequestsOwn' /\ RepliesOwn' /\ DemandKnown'
    <2>1. inbox' \subseteq inbox \union {Junk} /\ reps' = reps
      BY <1>5, PutSubset DEF NsJunk
    <2>2. \A s \in Socks : ~Waits(s, Junk)
      BY DEF Waits, TypeOK, Junk, NoId, Ids
    <2>3. RepliesOwn'
      BY <1>2, <2>1, <2>2 DEF Mail, RepliesOwn
    <2> QED BY <1>2, <1>5, <2>3 DEF Mail, RequestsOwn, DemandKnown, NsJunk
  <1>6. ASSUME NsLose PROVE RequestsOwn' /\ RepliesOwn' /\ DemandKnown'
    BY <1>2, <1>6 DEF Mail, RequestsOwn, RepliesOwn, DemandKnown, NsLose
  <1>7. ASSUME NEW u \in Urls, NEW a \in Arrivals(u), NsChange(u, a)
        PROVE  RequestsOwn' /\ RepliesOwn' /\ DemandKnown'
    <2>1. a \subseteq TopicsOf[u]
      BY DEF Arrivals
    <2>2. \A v \in Urls : gen[v] \in Nat /\ gen'[v] \in Nat /\ gen[v] <= gen'[v]
      BY <1>7 DEF NsChange, TypeOK
    <2>3. \A s \in Socks : fresh[s] \in Nat /\ url[s] \in Urls
      BY DEF TypeOK
    <2>4. \A s \in Socks : fresh'[s] <= gen'[url'[s]]
      BY <2>2, <2>3 DEF Mail, DemandKnown
    <2>5. \A m \in upds : m.gen <= gen'[m.url] /\ m.topic \in TopicsOf[m.url]
      BY <2>2 DEF Mail, DemandKnown, TypeOK, Update
    <2>6. \A m \in upds' : m.gen <= gen'[m.url] /\ m.topic \in TopicsOf[m.url]
      BY <1>7, <2>1, <2>2, <2>5 DEF NsChange
    <2> QED BY <1>2, <1>7, <2>4, <2>6 DEF Mail, RequestsOwn, RepliesOwn, DemandKnown,
               NsChange
  <1> QED BY <1>1, <1>3, <1>4, <1>5, <1>6, <1>7 DEF NsNext, Mail

(* Issuing an id: whatever becomes of the item, the other sockets wait for   *)
(* other ids, and nothing but the new request is on the way under this one.  *)
LEMMA MailIssue ==
  ASSUME TypeOK, Mail, AtItem, NEW n \in Ids, Issue(n),
         NEW st \in States, state' = [state EXCEPT ![Item] = st],
         \A r \in reqs' : \/ r \in Others(reqs, n)
                          \/ r.id = n /\ r.sock = Item /\ r.url = url[Item],
         UNCHANGED <<list, url, subs, fresh, gen, upds>>
  PROVE  /\ ListedOnce' /\ Unshadowed' /\ RequestsOwn' /\ RepliesOwn'
         /\ DemandKnown' /\ TopicsKnown'
  <1>0. Listed' = Listed
    BY DEF Listed
  <1>1. Item \in Listed /\ Item \in Socks /\ scan \in 1 .. Len(list) /\ Item = list[scan]
    BY ItemListed DEF Item
  <1>2. /\ request_id'[Item] = n /\ state'[Item] = st
        /\ \A s \in Socks \ {Item} : request_id'[s] = request_id[s] /\ state'[s] = state[s]
    BY <1>1 DEF Issue, TypeOK
  <1>3. \A s \in Listed \ {Item} : request_id[s] # n
    BY DEF Issue, IsNextId, FreeIds
  <1>4. \A i \in 1 .. Len(list) : list[i] \in Listed /\ list[i] \in Socks
    BY ListedSocks DEF Listed
  <1>5. ASSUME NEW i \in 1 .. Len(list), NEW j \in 1 .. Len(list), i < j,
               state'[list[j]] = "REQUEST_SENT"
        PROVE  request_id'[list[i]] # request_id'[list[j]]
    <2>1. list[i] # list[j]
      BY <1>5 DEF Mail, ListedOnce
    <2>2. CASE list[j] = Item
      BY <1>2, <1>3, <1>4, <2>1, <2>2
    <2>3. CASE list[i] = Item
      BY <1>2, <1>3, <1>4, <2>1, <2>3
    <2>4. CASE list[i] # Item /\ list[j] # Item
      <3>1. i \in 1 .. j - 1
        BY <1>5
      <3>2. state[list[j]] = "REQUEST_SENT"
        BY <1>2, <1>4, <1>5, <2>4
      <3>3. request_id[list[i]] # request_id[list[j]]
        BY <3>1, <3>2 DEF Mail, Unshadowed
      <3> QED BY <1>2, <1>4, <2>4, <3>3
    <2> QED BY <2>2, <2>3, <2>4
  <1>6. Unshadowed'
    <2> SUFFICES ASSUME NEW j \in 1 .. Len(list), NEW i \in 1 .. j - 1,
                        state'[list[j]] = "REQUEST_SENT"
                 PROVE  request_id'[list[i]] # request_id'[list[j]]
      BY DEF Unshadowed
    <2>1. i \in 1 .. Len(list) /\ i < j
      BY DEF TypeOK
    <2> QED BY <1>5, <2>1
  <1>7. ASSUME NEW s \in Socks, NEW m, Waits(s, m)', m.id # n PROVE Waits(s, m)
    BY <1>0, <1>2, <1>7 DEF Waits
  <1>8. ASSUME NEW s \in Socks, NEW m, Waits(s, m)', m.id = n PROVE s = Item
    BY <1>0, <1>2, <1>3, <1>8 DEF Waits
  <1>9. RequestsOwn'
    <2> SUFFICES ASSUME NEW s \in Socks, NEW r \in reqs', Waits(s, r)'
                 PROVE  r.sock = s /\ r.url = url[s]
      BY DEF RequestsOwn
    <2>1. CASE r \in Others(reqs, n)
      <3>1. r \in reqs /\ r.id # n
        BY <2>1 DEF Others
      <3> QED BY <1>7, <3>1 DEF Mail, RequestsOwn
    <2>2. CASE r.id = n /\ r.sock = Item /\ r.url = url[Item]
      BY <1>8, <2>2
    <2> QED BY <2>1, <2>2
  <1>10. RepliesOwn'
    <2>1. \A m \in reps' \union inbox' : m \in reps \union inbox /\ m.id # n
      BY DEF Issue, Others
    <2> QED BY <1>7, <2>1 DEF Mail, RepliesOwn
  <1>11. ListedOnce' /\ DemandKnown' /\ TopicsKnown'
    BY DEF Mail, ListedOnce, DemandKnown, TopicsKnown
  <1> QED BY <1>6, <1>9, <1>10, <1>11

LEMMA MailTimers == ASSUME TypeOK, Mail, Timers PROVE Mail'
  <1> USE DEF apiVars, sockVars, nsVars
  <1>0. ASSUME UNCHANGED list PROVE Listed' = Listed
    BY <1>0 DEF Listed
  <1>1. ASSUME TimerSend PROVE Mail'
    <2> DEFINE q(n) == [id |-> n, sock |-> Item, url |-> url[Item]]
    <2>1. PICK n \in Ids : Issue(n) /\ reqs' \in Put(Others(reqs, n), q(n))
      BY <1>1 DEF TimerSend
    <2>2. \A r \in reqs' : r \in Others(reqs, n) \/ r = q(n)
      BY <2>1, PutSubset
    <2>3. AtItem /\ state' = [state EXCEPT ![Item] = "REQUEST_SENT"]
          /\ retry' = [retry EXCEPT ![Item] = RequestWait]
          /\ UNCHANGED <<list, url, subs, fresh, gen, upds, applied>>
      BY <1>1 DEF TimerSend
    <2>4. /\ ListedOnce' /\ Unshadowed' /\ RequestsOwn' /\ RepliesOwn'
          /\ DemandKnown' /\ TopicsKnown'
      BY <2>1, <2>2, <2>3, MailIssue DEF States
    <2>5. Settled'
      BY <1>0, <2>3, ListedSocks DEF Mail, Settled, Rests, TypeOK
    <2> QED BY <2>4, <2>5 DEF Mail
  <1>2. ASSUME TimerAgain PROVE Mail'
    <2>1. PICK n \in Ids : Issue(n) /\ reqs' = Others(reqs, n)
      BY <1>2 DEF TimerAgain
    <2>2. AtItem /\ state' = [state EXCEPT ![Item] = "SLEEPING"]
          /\ retry' = [retry EXCEPT ![Item] = ErrorRetry]
          /\ UNCHANGED <<list, url, subs, fresh, gen, upds, applied>>
      BY <1>2 DEF TimerAgain
    <2>3. /\ ListedOnce' /\ Unshadowed' /\ RequestsOwn' /\ RepliesOwn'
          /\ DemandKnown' /\ TopicsKnown'
      BY <2>1, <2>2, MailIssue DEF States
    <2>4. Settled'
      BY <1>0, <2>2, ListedSocks DEF Mail, Settled, Rests, TypeOK
    <2> QED BY <2>3, <2>4 DEF Mail
  <1>3. ASSUME TimerStop PROVE Mail'
    <2>1. PICK n \in Ids : Issue(n) /\ reqs' = Others(reqs, n)
      BY <1>3 DEF TimerStop
    <2>2. AtItem /\ state' = [state EXCEPT ![Item] = "STARTING"]
          /\ UNCHANGED <<list, url, subs, fresh, gen, upds, applied, retry>>
      BY <1>3 DEF TimerStop
    <2>3. /\ ListedOnce' /\ Unshadowed' /\ RequestsOwn' /\ RepliesOwn'
          /\ DemandKnown' /\ TopicsKnown'
      BY <2>1, <2>2, MailIssue DEF States
    <2>4. Settled'
      BY <1>0, <2>2, ListedSocks DEF Mail, Settled, Rests, TypeOK
    <2> QED BY <2>3, <2>4 DEF Mail
  <1>4. TimerSkip \/ TimersEnd => UNCHANGED mailVars
    BY DEF TimerSkip, TimersEnd, mailVars
  <1> QED BY <1>1, <1>2, <1>3, <1>4, MailFrame DEF Timers

(* Sending some sockets back to STARTING, with whatever demand, and leaving  *)
(* the others alone.                                                         *)
LEMMA MailRestart ==
  ASSUME TypeOK, Mail,
         \A s \in Listed : \/ state'[s] = "STARTING"
                           \/ state'[s] = state[s] /\ fresh'[s] = fresh[s],
         UNCHANGED <<list, request_id, retry, url, subs, applied, reqs, reps, inbox>>,
         DemandKnown'
  PROVE  Mail'
  <1>1. Listed' = Listed
    BY DEF Listed
  <1>2. ListedOnce' /\ TopicsKnown'
    BY DEF Mail, ListedOnce, TopicsKnown
  <1>3. Unshadowed'
    BY DEF Mail, Unshadowed, Listed
  <1>4. \A s \in Socks : \A m : Waits(s, m)' => Waits(s, m) /\ fresh'[s] = fresh[s]
    BY <1>1 DEF Waits
  <1>5. RequestsOwn' /\ RepliesOwn'
    BY <1>4 DEF Mail, RequestsOwn, RepliesOwn
  <1>6. Settled'
    BY <1>1 DEF Mail, Settled, Rests
  <1> QED BY <1>2, <1>3, <1>5, <1>6 DEF Mail

LEMMA MailConfigureNew == ASSUME TypeOK, Mail, ConfigureNew PROVE Mail'
  <1> USE DEF TakeCommand, nsVars
  <1> DEFINE s == Head(cmds).sock
  <1>1. s \in Socks /\ Head(cmds).url \in Urls /\ s \notin Listed
    BY CommandFields DEF ConfigureNew
  <1>2. /\ state'[s] = "STARTING" /\ url'[s] = Head(cmds).url
        /\ fresh'[s] = gen[Head(cmds).url] /\ subs'[s] = {}
        /\ \A t \in Socks \ {s} :
             /\ state'[t] = state[t] /\ request_id'[t] = request_id[t]
             /\ retry'[t] = retry[t] /\ url'[t] = url[t] /\ subs'[t] = subs[t]
             /\ applied'[t] = applied[t] /\ fresh'[t] = fresh[t]
    BY <1>1 DEF ConfigureNew, TypeOK
  <1>3. list' \in {list, Append(list, s)} /\ UNCHANGED <<gen, reqs, reps, inbox, upds>>
    BY DEF ConfigureNew, nc_list_add
  <1>4. /\ Len(list) \in Nat
        /\ list \in Seq(Socks)
        /\ \A i \in 1 .. Len(list) : list[i] \in Listed /\ list[i] \in Socks /\ list[i] # s
    <2>1. list \in Seq(Socks) /\ Len(list) \in Nat
      BY DEF TypeOK
    <2>2. \A i \in 1 .. Len(list) : list[i] \in Listed
      BY DEF Listed
    <2> QED BY <1>1, <2>1, <2>2, ListedSocks
  <1>5. /\ Len(list') \in {Len(list), Len(list) + 1}
        /\ \A i \in 1 .. Len(list) : list'[i] = list[i]
        /\ \A i \in 1 .. Len(list') : i \notin 1 .. Len(list) => i = Len(list) + 1 /\ list'[i] = s
    BY <1>3, <1>4
  <1>6. Listed' \subseteq Listed \union {s}
    BY <1>4, <1>5 DEF Listed
  <1>7. ListedOnce'
    <2> SUFFICES ASSUME NEW i \in 1 .. Len(list'), NEW j \in 1 .. Len(list'),
                        list'[i] = list'[j]
                 PROVE  i = j
      BY DEF ListedOnce
    <2>1. CASE i \in 1 .. Len(list) /\ j \in 1 .. Len(list)
      BY <1>5, <2>1 DEF Mail, ListedOnce
    <2>2. CASE ~(i \in 1 .. Len(list) /\ j \in 1 .. Len(list))
      BY <1>4, <1>5, <2>2
    <2> QED BY <2>1, <2>2
  <1>8. Unshadowed'
    <2> SUFFICES ASSUME NEW j \in 1 .. Len(list'), NEW i \in 1 .. j - 1,
                        state'[list'[j]] = "REQUEST_SENT"
                 PROVE  request_id'[list'[i]] # request_id'[list'[j]]
      BY DEF Unshadowed
    <2>1. j \in 1 .. Len(list)
      BY <1>2, <1>5
    <2>2. i \in 1 .. Len(list)
      BY <1>4, <2>1
    <2>3. list'[i] = list[i] /\ list'[j] = list[j]
      BY <1>5, <2>1, <2>2
    <2>4. list[i] \in Socks \ {s} /\ list[j] \in Socks \ {s}
      BY <1>4, <2>1, <2>2
    <2>5. state[list[j]] = "REQUEST_SENT"
      BY <1>2, <2>3, <2>4
    <2>6. request_id[list[i]] # request_id[list[j]]
      BY <2>1, <2>5 DEF Mail, Unshadowed
    <2> QED BY <1>2, <2>3, <2>4, <2>6
  <1>9. \A t \in Socks : \A m : Waits(t, m)' => Waits(t, m) /\ t # s
    BY <1>2, <1>6 DEF Waits
  <1>10. RequestsOwn' /\ RepliesOwn'
    BY <1>2, <1>3, <1>9 DEF Mail, RequestsOwn, RepliesOwn
  <1>11. DemandKnown'
    <2>1. gen[Head(cmds).url] \in Nat
      BY <1>1 DEF TypeOK
    <2>2. \A t \in Socks : fresh'[t] <= gen[url'[t]]
      BY <1>2, <2>1 DEF Mail, DemandKnown
    <2> QED BY <1>3, <2>2 DEF Mail, DemandKnown
  <1>12. TopicsKnown'
    BY <1>2 DEF Mail, TopicsKnown
  <1>13. Settled'
    BY <1>2, <1>6, ListedSocks DEF Mail, Settled, Rests
  <1> QED BY <1>7, <1>8, <1>10, <1>11, <1>12, <1>13 DEF Mail

LEMMA MailClose == ASSUME TypeOK, Mail, Close PROVE Mail'
  <1> USE DEF nsVars, sockVars
  <1>1. CASE Head(cmds).sock \notin Listed
    BY <1>1, MailFrame DEF Close, mailVars
  <1>2. CASE Head(cmds).sock \in Listed
    <2>1. list' = Without(Head(cmds).sock)
      BY <1>2 DEF Close, nc_list_rm
    <2>2. Len(list) \in Nat /\ Len(list') = Len(list) - 1
      <3>1. Len(list) \in Nat
        BY DEF TypeOK
      <3> QED BY <1>2, <2>1, <3>1, WithoutShift
    <2>3. PICK from \in [1 .. Len(list') -> 1 .. Len(list)] :
            /\ \A i \in 1 .. Len(list') : list'[i] = list[from[i]]
            /\ \A i, j \in 1 .. Len(list') : i < j => from[i] < from[j]
      BY <1>2, <2>1, WithoutShift
    <2>4. \A i \in 1 .. Len(list') : from[i] \in 1 .. Len(list) /\ list'[i] = list[from[i]]
      BY <2>3
    <2>5. \A i, j \in 1 .. Len(list') : from[i] = from[j] => i = j
      <3> SUFFICES ASSUME NEW i \in 1 .. Len(list'), NEW j \in 1 .. Len(list'), i # j
                   PROVE  from[i] # from[j]
        OBVIOUS
      <3>1. i < j \/ j < i
        BY <2>2
      <3>2. from[i] < from[j] \/ from[j] < from[i]
        BY <2>3, <3>1
      <3> QED BY <2>2, <2>4, <3>2
    <2>6. Listed' \subseteq Listed
      BY <2>4 DEF Listed
    <2>7. UNCHANGED <<state, request_id, retry, url, subs, applied, fresh, gen, reqs,
                      reps, inbox, upds>>
      BY DEF Close
    <2>8. ListedOnce'
      <3> SUFFICES ASSUME NEW i \in 1 .. Len(list'), NEW j \in 1 .. Len(list'),
                          list'[i] = list'[j]
                   PROVE  i = j
        BY DEF ListedOnce
      <3>1. /\ from[i] \in 1 .. Len(list) /\ list'[i] = list[from[i]]
            /\ from[j] \in 1 .. Len(list) /\ list'[j] = list[from[j]]
        BY <2>4
      <3>2. from[i] = from[j]
        BY <3>1 DEF Mail, ListedOnce
      <3> QED BY <2>5, <3>2
    <2>9. Unshadowed'
      <3> SUFFICES ASSUME NEW j \in 1 .. Len(list'), NEW i \in 1 .. j - 1,
                          state[list'[j]] = "REQUEST_SENT"
                   PROVE  request_id[list'[i]] # request_id[list'[j]]
        BY <2>7 DEF Unshadowed
      <3>1. i \in 1 .. Len(list') /\ i < j
        BY <2>2
      <3>2. /\ from[i] \in 1 .. Len(list) /\ from[j] \in 1 .. Len(list)
            /\ from[i] < from[j]
            /\ list'[i] = list[from[i]] /\ list'[j] = list[from[j]]
        <4>1. j \in 1 .. Len(list')
          OBVIOUS
        <4>2. from[i] < from[j]
          BY <2>3, <3>1, <4>1
        <4> QED BY <2>4, <3>1, <4>1, <4>2
      <3>3. from[i] \in 1 .. from[j] - 1
        BY <2>2, <3>2
      <3> QED BY <3>2, <3>3 DEF Mail, Unshadowed
    <2>10. \A s \in Socks : \A m : Waits(s, m)' => Waits(s, m)
      BY <2>6, <2>7 DEF Waits
    <2>11. RequestsOwn' /\ RepliesOwn'
      BY <2>7, <2>10 DEF Mail, RequestsOwn, RepliesOwn
    <2>12. DemandKnown' /\ TopicsKnown' /\ Settled'
      BY <2>6, <2>7 DEF Mail, DemandKnown, TopicsKnown, Settled, Rests
    <2> QED BY <2>8, <2>9, <2>11, <2>12 DEF Mail
  <1> QED BY <1>1, <1>2

LEMMA MailCommands == ASSUME TypeOK, Mail, Commands PROVE Mail'
  <1> USE DEF apiVars, sockVars, nsVars
  <1>1. ASSUME ConfigureKnown PROVE Mail'
    <2> DEFINE s == Head(cmds).sock
    <2>1. s \in Socks /\ s \in Listed
      BY <1>1, CommandFields DEF ConfigureKnown
    <2>2. /\ state' = [state EXCEPT ![s] = "STARTING"]
          /\ fresh' = [fresh EXCEPT ![s] = gen[url[s]]]
          /\ UNCHANGED <<list, request_id, retry, url, subs, applied, reqs, reps, inbox,
                         gen, upds>>
      BY <1>1 DEF ConfigureKnown
    <2>3. \A t \in Listed : \/ state'[t] = "STARTING"
                            \/ state'[t] = state[t] /\ fresh'[t] = fresh[t]
      BY <2>1, <2>2, ListedSocks DEF TypeOK
    <2>4. \A t \in Socks : fresh'[t] <= gen[url[t]]
      BY SMTT(30), <2>1, <2>2 DEF TypeOK, Mail, DemandKnown
    <2>5. DemandKnown'
      BY <2>2, <2>4 DEF Mail, DemandKnown
    <2> QED BY <2>2, <2>3, <2>5, MailRestart
  <1>2. Shutdown \/ CommandsEnd \/ CommandsTerm => UNCHANGED mailVars
    BY DEF Shutdown, CommandsEnd, CommandsTerm, mailVars
  <1> QED BY <1>1, <1>2, MailConfigureNew, MailClose, MailFrame DEF Commands

(* A reply is only taken by a socket that waits for it, hence a good one     *)
(* settles it with what it demands and a bad one for a short time only.      *)
LEMMA MailResponses == ASSUME TypeOK, Mail, Responses PROVE Mail'
  <1> USE DEF apiVars, sockVars, nsVars
  <1>1. ASSUME NEW m \in inbox, NEW s \in Listed, Accepts(m, s),
               state' = [state EXCEPT ![s] = "SLEEPING"],
               \A t \in Socks \ {s} : /\ retry'[t] = retry[t] /\ subs'[t] = subs[t]
                                      /\ applied'[t] = applied[t],
               retry'[s] > ErrorRetry => applied'[s] >= fresh[s],
               subs'[s] \in {{}, TopicsOf[url[s]]},
               inbox' \subseteq inbox,
               UNCHANGED <<list, request_id, url, fresh, gen, reqs, reps, upds>>
        PROVE  Mail'
    <2>1. Listed' = Listed
      BY <1>1 DEF Listed
    <2>2. s \in Socks
      BY ListedSocks
    <2>3. /\ state'[s] = "SLEEPING"
          /\ \A t \in Socks \ {s} : state'[t] = state[t]
      BY <1>1, <2>2 DEF TypeOK
    <2>4. ListedOnce'
      BY <1>1 DEF Mail, ListedOnce
    <2>5. Unshadowed'
      <3>1. \A i \in 1 .. Len(list) : list[i] \in Socks
        BY ListedSocks DEF Listed
      <3>2. \A j \in 1 .. Len(list) : state'[list[j]] = "REQUEST_SENT" => state[list[j]] = "REQUEST_SENT"
        BY <2>3, <3>1
      <3> QED BY <1>1, <3>2 DEF Mail, Unshadowed
    <2>6. \A t \in Socks : \A r : Waits(t, r)' => Waits(t, r)
      BY <1>1, <2>1, <2>3 DEF Waits
    <2>7. RequestsOwn' /\ RepliesOwn'
      BY <1>1, <2>6 DEF Mail, RequestsOwn, RepliesOwn
    <2>8. DemandKnown' /\ TopicsKnown'
      BY <1>1, <2>2 DEF Mail, DemandKnown, TopicsKnown
    <2>9. Settled'
      BY <1>1, <2>1, <2>2, <2>3, ListedSocks DEF Mail, Settled, Rests
    <2> QED BY <2>4, <2>5, <2>7, <2>8, <2>9 DEF Mail
  <1>2. ASSUME NEW m \in inbox, NEW s \in Listed, ReplyApplied(m, s) PROVE Mail'
    <2>1. s \in Socks /\ Waits(s, m)
      BY <1>2, ListedSocks DEF ReplyApplied, Accepts, Answers, Waits
    <2>2. m.url = url[s] /\ m.gen >= fresh[s]
      BY <2>1 DEF Mail, RepliesOwn
    <2>3. /\ retry'[s] = RequestAgain /\ applied'[s] = m.gen /\ subs'[s] = TopicsOf[m.url]
          /\ \A t \in Socks \ {s} : /\ retry'[t] = retry[t] /\ subs'[t] = subs[t]
                                    /\ applied'[t] = applied[t]
      BY <1>2, <2>1 DEF ReplyApplied, TypeOK
    <2>4. /\ Accepts(m, s) /\ state' = [state EXCEPT ![s] = "SLEEPING"]
          /\ inbox' \subseteq inbox
          /\ UNCHANGED <<list, request_id, url, fresh, gen, reqs, reps, upds>>
      BY <1>2 DEF ReplyApplied, TakeReply
    <2> QED BY <1>1, <2>2, <2>3, <2>4
  <1>3. ASSUME NEW m \in inbox, NEW s \in Listed, ReplyRefused(m, s) PROVE Mail'
    <2>1. s \in Socks
      BY ListedSocks
    <2>2. /\ retry'[s] = ErrorRetry /\ subs' = subs /\ applied' = applied
          /\ \A t \in Socks \ {s} : retry'[t] = retry[t]
      BY <1>3, <2>1 DEF ReplyRefused, TypeOK
    <2>3. /\ Accepts(m, s) /\ state' = [state EXCEPT ![s] = "SLEEPING"]
          /\ inbox' \subseteq inbox
          /\ UNCHANGED <<list, request_id, url, fresh, gen, reqs, reps, upds>>
      BY <1>3 DEF ReplyRefused, TakeReply
    <2>4. subs'[s] \in {{}, TopicsOf[url[s]]}
      BY <2>1, <2>2 DEF Mail, TopicsKnown
    <2>5. ~(retry'[s] > ErrorRetry)
      BY <2>2
    <2> QED BY <1>1, <2>2, <2>3, <2>4, <2>5
  <1>4. ASSUME NEW m \in inbox, ReplyIgnored(m) PROVE Mail'
    <2>1. /\ inbox' \subseteq inbox
          /\ UNCHANGED <<list, state, request_id, retry, url, subs, applied, fresh, gen,
                         reqs, reps, upds>>
      BY <1>4 DEF ReplyIgnored, TakeReply
    <2>2. Listed' = Listed
      BY <2>1 DEF Listed
    <2>3. ListedOnce' /\ Unshadowed'
      BY <2>1 DEF Mail, ListedOnce, Unshadowed
    <2>4. RequestsOwn' /\ RepliesOwn'
      BY <2>1, <2>2 DEF Mail, RequestsOwn, RepliesOwn, Waits
    <2>5. DemandKnown' /\ TopicsKnown' /\ Settled'
      BY <2>1, <2>2 DEF Mail, DemandKnown, TopicsKnown, Settled, Rests
    <2> QED BY <2>3, <2>4, <2>5 DEF Mail
  <1>5. ResponsesEnd \/ ResponsesTerm => UNCHANGED mailVars
    BY DEF ResponsesEnd, ResponsesTerm, mailVars
  <1> QED BY <1>2, <1>3, <1>4, <1>5, MailFrame DEF Responses

(* Whoever an update raises the demand of is subscribed to its topic and so  *)
(* is sent back to STARTING.                                                 *)
LEMMA MailUpdates == ASSUME TypeOK, Mail, Updates PROVE Mail'
  <1> USE DEF apiVars, sockVars, nsVars
  <1>1. ASSUME NEW m \in upds, UpdateTaken(m) PROVE Mail'
    <2>1. m.gen <= gen[m.url] /\ m.topic \in TopicsOf[m.url]
      BY DEF Mail, DemandKnown
    <2>2. IsPrefix(m.topic, m.topic)
      <3>1. m.topic \in Seq(Nat)
        BY DEF TypeOK, Update
      <3>2. Len(m.topic) \in Nat
        BY <3>1
      <3> QED BY <3>2 DEF IsPrefix
    <2>3. ASSUME NEW s \in Listed
          PROVE  \/ state'[s] = "STARTING"
                 \/ state'[s] = state[s] /\ fresh'[s] = fresh[s]
      <3>1. s \in Socks
        BY ListedSocks
      <3>2. CASE s \in Concerned(m)
        BY <1>1, <3>1, <3>2 DEF UpdateTaken
      <3>3. CASE s \notin Concerned(m)
        <4>1. ~(url[s] = m.url /\ subs[s] # {})
          BY <2>1, <2>2, <3>1, <3>3 DEF Mail, TopicsKnown, Concerned
        <4> QED BY <1>1, <3>1, <3>3, <4>1 DEF UpdateTaken
      <3> QED BY <3>2, <3>3
    <2>4. /\ UNCHANGED <<list, request_id, retry, url, subs, applied, reqs, reps, inbox, gen>>
          /\ upds' \subseteq upds
      BY <1>1 DEF UpdateTaken
    <2>5. \A s \in Socks : fresh'[s] <= gen[url[s]]
      BY <1>1, <2>1 DEF Mail, DemandKnown, UpdateTaken
    <2>6. DemandKnown'
      BY <2>4, <2>5 DEF Mail, DemandKnown
    <2> QED BY <2>3, <2>4, <2>6, MailRestart
  <1>2. UpdatesEnd => UNCHANGED mailVars
    BY DEF UpdatesEnd, mailVars
  <1> QED BY <1>1, <1>2, MailFrame DEF Updates

LEMMA MailTick == ASSUME TypeOK, Mail, Tick PROVE Mail'
  <1> USE DEF apiVars, nsVars
  <1>1. Listed' = Listed
    BY DEF Tick, Listed
  <1>2. \A s \in Socks : retry'[s] <= retry[s] /\ retry'[s] \in Nat /\ retry[s] \in Nat
    BY DEF Tick, Less1, TypeOK
  <1>3. ListedOnce' /\ Unshadowed'
    BY DEF Tick, Mail, ListedOnce, Unshadowed
  <1>4. RequestsOwn' /\ RepliesOwn'
    BY <1>1 DEF Tick, Mail, RequestsOwn, RepliesOwn, Waits
  <1>5. DemandKnown' /\ TopicsKnown'
    BY DEF Tick, Mail, DemandKnown, TopicsKnown
  <1>6. Settled'
    BY <1>1, <1>2, ListedSocks DEF Tick, Mail, Settled, Rests
  <1> QED BY <1>3, <1>4, <1>5, <1>6 DEF Mail

LEMMA MailStep == ASSUME TypeOK, Mail, [Next]_vars PROVE Mail'
  <1>1. App \/ Poll \/ UNCHANGED vars => UNCHANGED mailVars
    BY DEF App, Poll, PollTimeout, PollReady, vars, mailVars, apiVars, nsVars,
           workerVars, sockVars
  <1> QED BY <1>1, MailFrame, MailService, MailTimers, MailCommands, MailResponses,
             MailUpdates, MailTick DEF Next, WorkerNext

-----------------------------------------------------------------------------
(* The part of the invariant about the timeout of the next poll.             *)

LEMMA AtMostBoth == ASSUME NEW a \in Nat, NEW b \in Nat
                    PROVE  AtMost(a, b) \in Nat /\ AtMost(a, b) <= a /\ AtMost(a, b) <= b
  BY DEF AtMost

LEMMA WakeBeforeBound ==
  ASSUME TypeOK, AtItem
  PROVE  /\ WakeBefore(Item) \in Nat /\ WakeBefore(Item) <= wake
         /\ ~Due(Item) => WakeBefore(Item) <= retry[Item]
  <1>1. wake \in Nat /\ retry[Item] \in Nat
    BY ItemListed DEF TypeOK
  <1>2. /\ AtMost(wake, retry[Item]) \in Nat
        /\ AtMost(wake, retry[Item]) <= wake /\ AtMost(wake, retry[Item]) <= retry[Item]
    BY <1>1, AtMostBoth
  <1> QED BY <1>1, <1>2 DEF WakeBefore, Due

LEMMA ClockTimers == ASSUME TypeOK, ListedOnce, PassBounded, Timers
                     PROVE  PassBounded' /\ NoOversleep'
  <1> USE DEF apiVars, sockVars, nsVars
  <1>0. /\ \A i \in 1 .. Len(list) : list[i] \in Socks
        /\ scan \in Nat /\ Len(list) \in Nat /\ wake \in Nat
        /\ \A s \in Socks : retry[s] \in Nat
    BY DEF TypeOK
  <1>1. ASSUME AtItem, pc' = pc, list' = list, scan' = scan + 1,
               wake' \in Nat, wake' <= wake,
               state'[Item] # "STARTING", wake' <= retry'[Item],
               \A s \in Socks \ {Item} : state'[s] = state[s] /\ retry'[s] = retry[s]
        PROVE  PassBounded' /\ NoOversleep'
    <2>1. pc = "timers" /\ Item = list[scan]
      BY <1>1 DEF AtItem, Item
    <2>2. ASSUME NEW i \in 1 .. Len(list), i < scan + 1
          PROVE  state'[list[i]] # "STARTING" /\ wake' <= retry'[list[i]]
      <3>1. CASE i = scan
        BY <1>1, <2>1, <3>1
      <3>2. CASE i # scan
        <4>1. i < scan
          BY <1>0, <2>2, <3>2
        <4>2. state[list[i]] # "STARTING" /\ wake <= retry[list[i]]
          BY <2>1, <4>1 DEF PassBounded
        <4>3. list[i] \in Socks /\ list[i] # Item
          BY <1>0, <1>1, <2>1, <3>2 DEF ListedOnce, AtItem
        <4> QED BY <1>0, <1>1, <4>2, <4>3
      <3> QED BY <3>1, <3>2
    <2>3. PassBounded'
      BY <1>1, <2>2 DEF PassBounded
    <2> QED BY <1>1, <2>1, <2>3 DEF NoOversleep
  <1>2. ASSUME TimerSkip PROVE PassBounded' /\ NoOversleep'
    BY <1>1, <1>2, WakeBeforeBound DEF TimerSkip, Due
  <1>3. ASSUME TimerSend PROVE PassBounded' /\ NoOversleep'
    <2>1. AtItem /\ Item \in Socks
      BY <1>3, ItemListed DEF TimerSend
    <2>2. /\ pc' = pc /\ list' = list /\ scan' = scan + 1
          /\ state' = [state EXCEPT ![Item] = "REQUEST_SENT"]
          /\ retry' = [retry EXCEPT ![Item] = RequestWait]
          /\ wake' = AtMost(WakeBefore(Item), RequestWait)
      BY <1>3 DEF TimerSend
    <2>3. wake' \in Nat /\ wake' <= wake /\ wake' <= RequestWait
      <3>1. WakeBefore(Item) \in Nat /\ WakeBefore(Item) <= wake /\ RequestWait \in Nat
        BY <2>1, WakeBeforeBound, TimeAssumption
      <3>2. /\ AtMost(WakeBefore(Item), RequestWait) \in Nat
            /\ AtMost(WakeBefore(Item), RequestWait) <= WakeBefore(Item)
            /\ AtMost(WakeBefore(Item), RequestWait) <= RequestWait
        BY <3>1, AtMostBoth
      <3>3. wake' \in Nat /\ wake' <= WakeBefore(Item) /\ wake' <= RequestWait
        BY <2>2, <3>2
      <3> QED BY <1>0, <3>1, <3>3
    <2>4. /\ state'[Item] = "REQUEST_SENT" /\ retry'[Item] = RequestWait
          /\ \A s \in Socks \ {Item} : state'[s] = state[s] /\ retry'[s] = retry[s]
      BY <2>1, <2>2 DEF TypeOK
    <2> QED BY <1>1, <2>1, <2>2, <2>3, <2>4
  <1>4. ASSUME TimerAgain PROVE PassBounded' /\ NoOversleep'
    <2>1. AtItem /\ Item \in Socks
      BY <1>4, ItemListed DEF TimerAgain
    <2>2. /\ pc' = pc /\ list' = list /\ scan' = scan + 1
          /\ state' = [state EXCEPT ![Item] = "SLEEPING"]
          /\ retry' = [retry EXCEPT ![Item] = ErrorRetry]
          /\ wake' = AtMost(WakeBefore(Item), ErrorRetry)
      BY <1>4 DEF TimerAgain
    <2>3. wake' \in Nat /\ wake' <= wake /\ wake' <= ErrorRetry
      <3>1. WakeBefore(Item) \in Nat /\ WakeBefore(Item) <= wake /\ ErrorRetry \in Nat
        BY <2>1, WakeBeforeBound, TimeAssumption
      <3>2. /\ AtMost(WakeBefore(Item), ErrorRetry) \in Nat
            /\ AtMost(WakeBefore(Item), ErrorRetry) <= WakeBefore(Item)
            /\ AtMost(WakeBefore(Item), ErrorRetry) <= ErrorRetry
        BY <3>1, AtMostBoth
      <3>3. wake' \in Nat /\ wake' <= WakeBefore(Item) /\ wake' <= ErrorRetry
        BY <2>2, <3>2
      <3> QED BY <1>0, <3>1, <3>3
    <2>4. /\ state'[Item] = "SLEEPING" /\ retry'[Item] = ErrorRetry
          /\ \A s \in Socks \ {Item} : state'[s] = state[s] /\ retry'[s] = retry[s]
      BY <2>1, <2>2 DEF TypeOK
    <2> QED BY <1>1, <2>1, <2>2, <2>3, <2>4
  <1>5. ASSUME TimerStop PROVE PassBounded' /\ NoOversleep'
    <2>1. wake' = 0 /\ pc' = "poll" /\ retry' = retry /\ list' = list
      BY <1>5 DEF TimerStop
    <2>2. Listed' \subseteq Socks
      BY <2>1, ListedSocks DEF Listed
    <2> QED BY <1>0, <2>1, <2>2 DEF PassBounded, NoOversleep
  <1>6. ASSUME TimersEnd PROVE PassBounded' /\ NoOversleep'
    <2>1. /\ pc = "timers" /\ scan > Len(list) /\ pc' = "poll"
          /\ UNCHANGED <<list, wake, state, retry>>
      BY <1>6 DEF TimersEnd
    <2>2. \A i \in 1 .. Len(list) : state[list[i]] # "STARTING" /\ wake <= retry[list[i]]
      BY <1>0, <2>1 DEF PassBounded
    <2>3. \A s \in Listed : state[s] # "STARTING" /\ wake <= retry[s]
      BY <2>2 DEF Listed
    <2> QED BY <2>1, <2>3 DEF PassBounded, NoOversleep, Listed
  <1> QED BY <1>2, <1>3, <1>4, <1>5, <1>6 DEF Timers

(* Outside the pass: a new pass starts at the head of the list, and while    *)
(* the worker polls, the timeout and the timers run down together.           *)
LEMMA ClockOther ==
  ASSUME TypeOK, Running, PassBounded, NoOversleep,
         App \/ Service \/ Poll \/ Commands \/ Responses \/ Updates \/ Tick \/ UNCHANGED vars
  PROVE  PassBounded' /\ NoOversleep'
  <1> USE DEF apiVars, sockVars, nsVars, workerVars
  <1>0. ASSUME UNCHANGED <<list, scan, wake, state, retry>>,
               pc' = pc \/ (pc = "off" /\ pc' = "timers")
        PROVE  PassBounded' /\ NoOversleep'
    BY <1>0 DEF PassBounded, NoOversleep, Listed
  <1>1. ASSUME pc' \notin {"off", "timers", "poll"} PROVE PassBounded' /\ NoOversleep'
    BY <1>1 DEF PassBounded, NoOversleep
  <1>2. ASSUME pc' = "timers", scan' = 1 PROVE PassBounded' /\ NoOversleep'
    <2>1. \A i \in 1 .. Len(list') : ~(i < scan')
      BY <1>2
    <2> QED BY <1>2, <2>1 DEF PassBounded, NoOversleep
  <1>3. ASSUME App PROVE PassBounded' /\ NoOversleep'
    <2>1. pc' = pc \/ (pc = "off" /\ pc' = "timers")
      BY <1>3 DEF Running, App, ApiNext, NnSocket, NcConfigure, nc_start, NcClose, NcTerm,
                  NcTermReturn, NnTerm
    <2> QED BY <1>0, <1>3, <2>1 DEF App
  <1>4. ASSUME Service \/ UNCHANGED vars PROVE PassBounded' /\ NoOversleep'
    BY <1>0, <1>4 DEF Service, vars
  <1>5. ASSUME Poll PROVE PassBounded' /\ NoOversleep'
    BY <1>1, <1>2, <1>5 DEF Poll, PollTimeout, GoTimers, PollReady
  <1>6. ASSUME Commands PROVE PassBounded' /\ NoOversleep'
    <2>1. CASE CommandsEnd
      <3>1. "commands" \in Phases
        BY DEF Phases
      <3>2. pc' \in {"responses", "updates", "timers"} /\ (pc' = "timers" => scan' = 1)
        BY <2>1, <3>1, LeaveType DEF CommandsEnd
      <3> QED BY <1>1, <1>2, <3>2
    <2>2. CASE ~CommandsEnd
      BY <1>1, <1>6, <2>2 DEF Commands, ConfigureKnown, ConfigureNew, Close, Shutdown,
         CommandsTerm, AtCommand
    <2> QED BY <2>1, <2>2
  <1>7. ASSUME Responses PROVE PassBounded' /\ NoOversleep'
    <2>1. CASE ResponsesEnd
      <3>1. "responses" \in Phases
        BY DEF Phases
      <3>2. pc' \in {"responses", "updates", "timers"} /\ (pc' = "timers" => scan' = 1)
        BY <2>1, <3>1, LeaveType DEF ResponsesEnd
      <3> QED BY <1>1, <1>2, <3>2
    <2>2. CASE ~ResponsesEnd
      <3>1. pc' \in {"responses", "aborted"}
        BY <1>7, <2>2 DEF Responses, ReplyApplied, ReplyRefused, ReplyIgnored, TakeReply,
           ResponsesTerm
      <3> QED BY <1>1, <3>1
    <2> QED BY <2>1, <2>2
  <1>8. ASSUME Updates PROVE PassBounded' /\ NoOversleep'
    BY <1>1, <1>2, <1>8 DEF Updates, UpdateTaken, UpdatesEnd, GoTimers
  <1>9. ASSUME Tick PROVE PassBounded' /\ NoOversleep'
    <2>1. CASE pc = "poll"
      <3>1. /\ pc' = "poll" /\ wake' = Less1(wake) /\ UNCHANGED <<list, state>>
            /\ \A s \in Listed : retry'[s] = Less1(retry[s])
        BY <1>9, <2>1, ListedSocks DEF Tick
      <3>2. wake \in Nat /\ \A s \in Listed : retry[s] \in Nat
        BY ListedSocks DEF TypeOK
      <3>3. \A s \in Listed : wake <= (IF state[s] = "STARTING" THEN 0 ELSE retry[s])
        BY <2>1 DEF NoOversleep
      <3>4. \A s \in Listed : wake' <= (IF state[s] = "STARTING" THEN 0 ELSE retry'[s])
        BY <3>1, <3>2, <3>3 DEF Less1
      <3> QED BY <3>1, <3>4 DEF PassBounded, NoOversleep, Listed
    <2>2. CASE pc # "poll"
      BY <1>1, <1>9, <2>2 DEF Tick, Phases
    <2> QED BY <2>1, <2>2
  <1> QED BY <1>3, <1>4, <1>5, <1>6, <1>7, <1>8, <1>9

(* The thread runs from the first nc_configure on.                           *)
LEMMA RunningStep == ASSUME TypeOK, Running, [Next]_vars PROVE Running'
  <1> USE DEF apiVars, sockVars, nsVars, workerVars
  <1>1. CASE App
    BY <1>1 DEF Running, App, ApiNext, NnSocket, NcConfigure, nc_start, NcClose, NcTerm,
                NcTermReturn, NnTerm
  <1>2. ASSUME initialized' = initialized, pc # "off", pc' # "off" PROVE Running'
    BY <1>2 DEF Running
  <1>3. CASE Service \/ Tick \/ UNCHANGED vars
    BY <1>3 DEF Running, Service, Tick, vars
  <1>4. CASE Timers \/ Poll
    BY <1>2, <1>4 DEF Timers, TimerSkip, TimerSend, TimerAgain, TimerStop, TimersEnd, AtItem,
       Poll, PollTimeout, PollReady, GoTimers
  <1>5. CASE Commands
    <2>1. CASE CommandsEnd
      <3>1. "commands" \in Phases
        BY DEF Phases
      <3>2. pc' \in {"responses", "updates", "timers"}
        BY <2>1, <3>1, LeaveType DEF CommandsEnd
      <3> QED BY <1>2, <2>1, <3>2 DEF CommandsEnd
    <2>2. CASE ~CommandsEnd
      BY <1>2, <1>5, <2>2 DEF Commands, ConfigureKnown, ConfigureNew, Close, Shutdown,
         CommandsTerm, AtCommand, TakeCommand
    <2> QED BY <2>1, <2>2
  <1>6. CASE Responses
    <2>1. CASE ResponsesEnd
      <3>1. "responses" \in Phases
        BY DEF Phases
      <3>2. pc' \in {"responses", "updates", "timers"}
        BY <2>1, <3>1, LeaveType DEF ResponsesEnd
      <3> QED BY <1>2, <2>1, <3>2 DEF ResponsesEnd
    <2>2. CASE ~ResponsesEnd
      <3>1. pc = "responses" /\ pc' \in {"responses", "aborted"} /\ initialized' = initialized
        BY <1>6, <2>2 DEF Responses, ReplyApplied, ReplyRefused, ReplyIgnored, TakeReply,
           ResponsesTerm
      <3> QED BY <1>2, <3>1
    <2> QED BY <2>1, <2>2
  <1>7. CASE Updates
    BY <1>2, <1>7 DEF Updates, UpdateTaken, UpdatesEnd, GoTimers
  <1> QED BY <1>1, <1>3, <1>4, <1>5, <1>6, <1>7 DEF Next, WorkerNext

-----------------------------------------------------------------------------
(* Theorems of the specification.                                            *)

(* The inductive invariant holds.                                            *)
THEOREM Inductive == Spec => []IndInv
  <1>1. Init => IndInv
    <2>1. Init => Running /\ PassBounded /\ NoOversleep
      BY DEF Init, ApiInit, WorkerInit, Running, PassBounded, NoOversleep
    <2> QED BY <2>1, TypeInit, MailInit DEF IndInv
  <1>2. IndInv /\ [Next]_vars => IndInv'
    <2> SUFFICES ASSUME IndInv, [Next]_vars PROVE IndInv'
      OBVIOUS
    <2>1. TypeOK'
      BY TypeStep DEF IndInv
    <2>2. Mail'
      BY MailStep DEF IndInv
    <2>3. Running'
      BY RunningStep DEF IndInv
    <2>4. PassBounded' /\ NoOversleep'
      BY ClockTimers, ClockOther DEF IndInv, Mail, Next, WorkerNext
    <2> QED BY <2>1, <2>2, <2>3, <2>4 DEF IndInv
  <1> QED BY <1>1, <1>2, PTL DEF Spec

(* No late reply ever settles a socket with less than it was told to have.   *)
THEOREM NeverStale == Spec => []Settled
  <1>1. IndInv => Settled
    BY DEF IndInv, Mail
  <1> QED BY <1>1, Inductive, PTL

(* The worker never sleeps past the moment a socket needs it.                *)
THEOREM NeverLate == Spec => []NoOversleep
  <1>1. IndInv => NoOversleep
    BY DEF IndInv
  <1> QED BY <1>1, Inductive, PTL

(* A reply to the request a socket waits for is found to be for that socket, *)
(* and it is the answer to that socket's request.                            *)
THEOREM RightReply == Spec => []Routed
  <1>1. IndInv => Routed
    <2> SUFFICES ASSUME IndInv, NEW s \in Listed, NEW m \in reps \union inbox,
                        state[s] = "REQUEST_SENT", request_id[s] = m.id
                 PROVE  m.sock = s /\ m.url = url[s] /\ Accepts(m, s)
      BY DEF Routed
    <2>1. s \in Socks
      BY ListedSocks DEF IndInv
    <2>2. m.sock = s /\ m.url = url[s]
      BY <2>1 DEF IndInv, Mail, RepliesOwn, Waits
    <2>3. PICK j \in 1 .. Len(list) : list[j] = s
      BY DEF Listed
    <2>4. \A i \in 1 .. j - 1 : request_id[list[i]] # m.id
      BY <2>3 DEF IndInv, Mail, Unshadowed
    <2> QED BY <2>2, <2>3, <2>4 DEF Accepts, Answers
  <1> QED BY <1>1, Inductive, PTL

-----------------------------------------------------------------------------
(* Nothing the worker subscribed to escapes it.                              *)

(* Behind Informed: all topics of a socket are on topic_list, so none is     *)
(* subscribed to later than it was named; and a version that came after is   *)
(* demanded of the socket already, or its update waits.                      *)
Told == \A s \in Listed :
  /\ subs[s] \subseteq topicList
  /\ Heard(s) => gen[url[s]] <= since[s] \/ gen[url[s]] <= fresh[s] \/ Warned(s)

(* Most steps change nothing that Told looks at, or only take a socket off   *)
(* the list.                                                                 *)
LEMMA ToldKept ==
  ASSUME Told, Listed' \subseteq Listed,
         UNCHANGED <<url, subs, topicList, updSubs, since, fresh, gen, upds>>
  PROVE  Told'
  BY DEF Told, Heard, Warned

LEMMA ToldService == ASSUME TypeOK, Mail, Told, Service PROVE Told'
  <1> USE DEF workerVars, sockVars, Service
  <1>0. Listed' = Listed /\ UNCHANGED <<url, subs, topicList, since, fresh>>
    BY DEF Listed
  <1>1. ASSUME NEW u \in Urls, NEW a \in Arrivals(u), NsChange(u, a) PROVE Told'
    <2>1. ASSUME NEW s \in Listed, Heard(s)'
          PROVE  \/ gen'[url[s]] <= since[s] \/ gen'[url[s]] <= fresh[s]
                 \/ Warned(s)'
      <3>1. s \in Socks /\ url[s] \in Urls
        BY ListedSocks DEF TypeOK
      <3>2. updSubs' = updSubs /\ Heard(s)
        BY <1>0, <1>1, <2>1 DEF NsChange, Heard
      <3>3. CASE url[s] = u
        <4>1. PICK t \in subs[s] : t \in updSubs
          BY <3>2 DEF Heard
        <4>2. t \in TopicsOf[u] /\ a = TopicsOf[u]
          BY <3>1, <3>2, <3>3 DEF Mail, TopicsKnown, Heard, Arrivals
        <4>3. IsPrefix(t, t)
          <5>1. t \in Seq(Nat)
            BY <4>2
          <5>2. Len(t) \in Nat
            BY <5>1
          <5> QED BY <5>2 DEF IsPrefix
        <4>4. [topic |-> t, url |-> u, gen |-> gen'[u]] \in upds'
          BY <1>1, <4>1, <4>2, <4>3 DEF NsChange, Passes
        <4> QED BY <1>0, <3>3, <4>4 DEF Warned
      <3>4. CASE url[s] # u
        <4>1. gen'[url[s]] = gen[url[s]] /\ upds \subseteq upds'
          BY <1>1, <3>1, <3>4 DEF TypeOK, NsChange
        <4> QED BY <1>0, <3>2, <4>1 DEF Told, Warned
      <3> QED BY <3>3, <3>4
    <2> QED BY <1>0, <2>1 DEF Told
  <1>2. ASSUME NsNext, ~\E u \in Urls : \E a \in Arrivals(u) : NsChange(u, a)
        PROVE  UNCHANGED <<updSubs, gen, upds>>
    BY <1>2 DEF NsNext, NsAnswer, NsDeliver, NsJunk, NsLose
  <1> QED BY <1>0, <1>1, <1>2, ToldKept

(* A socket that is configured anew is subscribed to nothing, and one that   *)
(* is configured again demands what there is.                                *)
LEMMA ToldCommands == ASSUME TypeOK, Told, Commands PROVE Told'
  <1> USE DEF apiVars, sockVars, nsVars
  <1> DEFINE s == Head(cmds).sock
  <1>1. ASSUME ConfigureKnown PROVE Told'
    <2>1. s \in Listed /\ s \in Socks /\ Listed' = Listed
      BY <1>1, ListedSocks DEF ConfigureKnown, Listed
    <2>2. fresh' = [fresh EXCEPT ![s] = gen[url[s]]]
      BY <1>1 DEF ConfigureKnown
    <2>3. fresh'[s] = gen[url[s]] /\ \A t \in Socks \ {s} : fresh'[t] = fresh[t]
      BY <2>1, <2>2 DEF TypeOK
    <2>4. gen[url[s]] <= gen[url[s]]
      BY <2>1 DEF TypeOK
    <2> QED BY <1>1, <2>1, <2>3, <2>4, ListedSocks
            DEF ConfigureKnown, Told, Heard, Warned
  <1>2. ASSUME ConfigureNew PROVE Told'
    <2>1. s \in Socks
      BY <1>2, CommandFields DEF ConfigureNew
    <2>2. Listed' \subseteq Listed \union {s}
      <3>1. list \in Seq(Socks)
        BY DEF TypeOK
      <3>2. \A i \in 1 .. Len(Append(list, s)) :
              Append(list, s)[i] \in Listed \union {s}
        BY <2>1, <3>1 DEF Listed
      <3>3. list' = list \/ list' = Append(list, s)
        BY <1>2 DEF ConfigureNew, nc_list_add
      <3>4. CASE list' = list
        BY <3>4 DEF Listed
      <3>5. CASE list' = Append(list, s)
        BY <3>2, <3>5 DEF Listed
      <3> QED BY <3>3, <3>4, <3>5
    <2>3. /\ subs'[s] = {}
          /\ \A t \in Socks \ {s} : /\ url'[t] = url[t] /\ subs'[t] = subs[t]
                                    /\ fresh'[t] = fresh[t] /\ since'[t] = since[t]
      BY <1>2, <2>1 DEF ConfigureNew, TypeOK
    <2>4. UNCHANGED <<topicList, updSubs, gen, upds>>
      BY <1>2 DEF ConfigureNew
    <2> QED BY <2>2, <2>3, <2>4, ListedSocks DEF Told, Heard, Warned
  <1>3. ASSUME Close PROVE Told'
    <2>1. Listed' \subseteq Listed
      <3>1. CASE s \in Listed
        <4>1. list' = Without(s)
          BY <1>3, <3>1 DEF Close, nc_list_rm
        <4>2. \A i \in 1 .. Len(Without(s)) : Without(s)[i] \in Listed
          BY <3>1, WithoutShift DEF Listed
        <4> QED BY <4>1, <4>2 DEF Listed
      <3>2. CASE s \notin Listed
        BY <1>3, <3>2 DEF Close, Listed
      <3> QED BY <3>1, <3>2
    <2> QED BY <1>3, <2>1, ToldKept DEF Close
  <1>4. ASSUME Shutdown \/ CommandsEnd \/ CommandsTerm PROVE Told'
    BY <1>4, ToldKept DEF Shutdown, CommandsEnd, CommandsTerm, Listed
  <1> QED BY <1>1, <1>2, <1>3, <1>4 DEF Commands

(* What a reply subscribes to for one socket was not on the list before, so  *)
(* no other socket waits for it.                                             *)
LEMMA ToldResponses == ASSUME TypeOK, Mail, Told, Responses PROVE Told'
  <1> USE DEF apiVars, sockVars, nsVars
  <1>1. ASSUME NEW m \in inbox, NEW s \in Listed, ReplyApplied(m, s) PROVE Told'
    <2>1. s \in Socks /\ Waits(s, m)
      BY <1>1, ListedSocks DEF ReplyApplied, Accepts, Answers, Waits
    <2>2. m.url = url[s]
      BY <2>1 DEF Mail, RepliesOwn
    <2>3. /\ subs'[s] = TopicsOf[url[s]]
          /\ \A t \in Socks \ {s} : subs'[t] = subs[t]
          /\ topicList' = topicList \union TopicsOf[url[s]]
          /\ updSubs \subseteq updSubs'
          /\ updSubs' \subseteq updSubs \union (TopicsOf[url[s]] \ topicList)
      BY <1>1, <2>1, <2>2 DEF ReplyApplied, Subscribe, TypeOK
    <2>4. Listed' = Listed /\ UNCHANGED <<url, fresh, gen, upds>>
      BY <1>1 DEF ReplyApplied, TakeReply, Listed
    <2>5. /\ subs[s] = {} => since'[s] = gen[url[s]]
          /\ subs[s] # {} => since'[s] = since[s]
          /\ \A t \in Socks \ {s} : since'[t] = since[t]
      BY <1>1, <2>1, <2>2 DEF ReplyApplied, TypeOK
    <2>6. ASSUME NEW t \in Listed, t # s, Heard(t)'
          PROVE  gen[url[t]] <= since[t] \/ gen[url[t]] <= fresh[t] \/ Warned(t)
      <3>1. subs'[t] = subs[t] /\ subs[t] \subseteq topicList
        BY <2>3, <2>6, ListedSocks DEF Told
      <3>2. Heard(t)
        BY <2>3, <2>6, <3>1 DEF Heard
      <3> QED BY <3>2 DEF Told
    <2>7. ASSUME Heard(s)'
          PROVE  gen[url[s]] <= since'[s] \/ gen[url[s]] <= fresh[s] \/ Warned(s)
      <3>1. CASE subs[s] = {}
        BY <2>1, <2>5, <3>1 DEF TypeOK
      <3>2. CASE subs[s] # {}
        <4>1. subs'[s] = subs[s] /\ subs[s] \subseteq topicList
          BY <2>1, <2>3, <3>2 DEF Mail, TopicsKnown, Told
        <4>2. Heard(s)
          BY <2>3, <2>7, <4>1 DEF Heard
        <4> QED BY <2>5, <3>2, <4>2 DEF Told
      <3> QED BY <3>1, <3>2
    <2>8. \A t \in Listed : subs'[t] \subseteq topicList'
      BY <2>3, ListedSocks DEF Told
    <2>9. \A t \in Listed : Heard(t)' =>
             gen[url[t]] <= since'[t] \/ gen[url[t]] <= fresh[t] \/ Warned(t)
      BY <2>5, <2>6, <2>7, ListedSocks
    <2> QED BY <2>4, <2>8, <2>9 DEF Told, Warned
  <1>2. ASSUME NEW m \in inbox, NEW s \in Listed, ReplyRefused(m, s) PROVE Told'
    BY <1>2, ToldKept DEF ReplyRefused, TakeReply, Listed
  <1>3. ASSUME NEW m \in inbox, ReplyIgnored(m) PROVE Told'
    BY <1>3, ToldKept DEF ReplyIgnored, TakeReply, Listed
  <1>4. ASSUME ResponsesEnd \/ ResponsesTerm PROVE Told'
    BY <1>4, ToldKept DEF ResponsesEnd, ResponsesTerm, Listed
  <1> QED BY <1>1, <1>2, <1>3, <1>4 DEF Responses

(* The update that warned a socket is taken: its version is demanded now.    *)
LEMMA ToldUpdates == ASSUME TypeOK, Told, Updates PROVE Told'
  <1> USE DEF apiVars, sockVars, nsVars
  <1>1. ASSUME NEW m \in upds, UpdateTaken(m) PROVE Told'
    <2>1. /\ Listed' = Listed /\ upds' = upds \ {m}
          /\ UNCHANGED <<url, subs, topicList, updSubs, since, gen>>
      BY <1>1 DEF UpdateTaken, Listed
    <2>2. ASSUME NEW s \in Listed, Heard(s)
          PROVE  \/ gen[url[s]] <= since[s] \/ gen[url[s]] <= fresh'[s]
                 \/ Warned(s)'
      <3>1. s \in Socks /\ gen[url[s]] \in Nat /\ fresh[s] \in Nat /\ m.gen \in Nat
        <4>1. s \in Socks
          BY ListedSocks
        <4>2. gen[url[s]] \in 0 .. MaxGen /\ fresh[s] \in 0 .. MaxGen
          BY <4>1 DEF TypeOK
        <4>3. m.gen \in 0 .. MaxGen
          BY DEF TypeOK, Update
        <4> QED BY <4>1, <4>2, <4>3
      <3>2. fresh'[s] = IF s \in Listed /\ url[s] = m.url /\ subs[s] # {} /\ fresh[s] < m.gen
                        THEN m.gen ELSE fresh[s]
        BY <1>1, <3>1 DEF UpdateTaken
      <3>3. CASE gen[url[s]] <= fresh[s]
        <4>1. \A g, f, n \in Nat : g <= f => g <= (IF f < n THEN n ELSE f)
          OBVIOUS
        <4>2. gen[url[s]] <= (IF fresh[s] < m.gen THEN m.gen ELSE fresh[s])
          BY <3>1, <3>3, <4>1
        <4> QED BY <3>2, <3>3, <4>2
      <3>4. CASE gen[url[s]] > fresh[s] /\ Warned(s)
        <4>1. PICK w \in upds : w.url = url[s] /\ w.gen = gen[url[s]]
          BY <3>4 DEF Warned
        <4>2. CASE w = m
          <5>1. subs[s] # {}
            BY <2>2 DEF Heard
          <5> QED BY <3>1, <3>2, <3>4, <4>1, <4>2, <5>1
        <4>3. CASE w # m
          BY <2>1, <4>1, <4>3 DEF Warned
        <4> QED BY <4>2, <4>3
      <3>5. \/ gen[url[s]] <= since[s] \/ gen[url[s]] <= fresh[s] \/ Warned(s)
        BY <2>2 DEF Told
      <3> QED BY <3>1, <3>3, <3>4, <3>5
    <2> QED BY <2>1, <2>2 DEF Told, Heard
  <1>2. UpdatesEnd => Told'
    BY ToldKept DEF UpdatesEnd, Listed
  <1> QED BY <1>1, <1>2 DEF Updates

LEMMA ToldStep == ASSUME IndInv, Told, [Next]_vars PROVE Told'
  <1>1. App \/ Timers \/ Poll \/ Tick \/ UNCHANGED vars => Told'
    BY ToldKept DEF App, Timers, TimerSkip, TimerSend, TimerAgain, TimerStop,
       TimersEnd, Poll, PollTimeout, PollReady, Tick, vars, apiVars, nsVars,
       workerVars, sockVars, Listed
  <1> QED BY <1>1, ToldService, ToldCommands, ToldResponses, ToldUpdates
          DEF IndInv, Next, WorkerNext

(* If no update is lost on the way, a socket that rests and heard of its     *)
(* topics has the current version, or the update about it waits to be read.  *)
THEOREM MissesNoUpdate == Spec => []Informed
  <1>1. Init => Told
    BY DEF Init, WorkerInit, Told, Listed
  <1>2. IndInv /\ Told /\ [Next]_vars => Told'
    BY ToldStep
  <1>3. IndInv /\ Told => Informed
    <2> SUFFICES ASSUME IndInv, Told, NEW s \in Listed, Heard(s), Rests(s)
                 PROVE  applied[s] >= gen[url[s]] \/ gen[url[s]] <= since[s] \/ Warned(s)
      BY DEF Informed
    <2>1. /\ s \in Socks /\ gen[url[s]] \in Nat /\ fresh[s] \in Nat
          /\ applied[s] \in Nat \union {-1}
      BY ListedSocks DEF IndInv, TypeOK, None
    <2>2. applied[s] >= fresh[s]
      BY DEF IndInv, Mail, Settled
    <2>3. gen[url[s]] <= fresh[s] => applied[s] >= gen[url[s]]
      BY <2>1, <2>2
    <2> QED BY <2>3 DEF Told
  <1> QED BY <1>1, <1>2, <1>3, Inductive, PTL DEF Spec
=============================================================================
