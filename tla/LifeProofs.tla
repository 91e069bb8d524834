------------------------------ MODULE LifeProofs ------------------------------
(* Theorems about Nanoconfig: the life of the sockets, from nn_socket over   *)
(* the queue of commands and the list to nn_close, and the end of nc_term.   *)
EXTENDS NanoconfigProofs

-----------------------------------------------------------------------------
(* The invariant that holds however the library is used. The commands in the *)
(* queue are about open sockets: a socket number is handed out again only    *)
(* after nn_close, nn_close comes with the one close command for the number, *)
(* and nothing about the socket is queued behind that command.               *)

Idle == pc = "off" => cmds = <<>> /\ list = <<>>
OwnOpen == own \subseteq open
QueuedOpen == \A i \in 1 .. Len(cmds) :
                cmds[i].tag # "shutdown" => cmds[i].sock \in open
CloseGivenUp == \A i \in 1 .. Len(cmds) :
                  cmds[i].tag = "close" => cmds[i].sock \notin own
CloseLast == \A i, j \in 1 .. Len(cmds) :
  i < j /\ cmds[i].tag = "close" /\ cmds[j].tag # "shutdown"
    => cmds[i].sock # cmds[j].sock

(* What the worker manages is open, and it aborts after nn_term only.        *)
Managed == Listed \subseteq open
AbortsAfterNnTerm == pc = "aborted" => zombie

Custody == /\ Idle /\ OwnOpen /\ QueuedOpen /\ CloseGivenUp /\ CloseLast
           /\ Managed /\ AbortsAfterNnTerm

-----------------------------------------------------------------------------
(* What sending and taking a command do to the queue.                        *)

LEMMA SendShift ==
  ASSUME TypeOK, NEW c \in Command, Send(c)
  PROVE  \/ cmds' = cmds
         \/ /\ ~zombie
            /\ cmds' \in Seq(Command) /\ Len(cmds) \in Nat
            /\ Len(cmds') = Len(cmds) + 1
            /\ \A i \in 1 .. Len(cmds) : cmds'[i] = cmds[i]
            /\ cmds'[Len(cmds) + 1] = c
  <1>1. cmds \in Seq(Command) /\ Len(cmds) \in Nat
    BY DEF TypeOK
  <1>2. CASE cmds' = Append(cmds, c) /\ ~zombie
    BY <1>1, <1>2
  <1> QED BY <1>2 DEF Send

LEMMA TakeShift ==
  ASSUME TypeOK, cmds # <<>>, cmds' = Tail(cmds)
  PROVE  /\ Len(cmds) \in Nat /\ Len(cmds) >= 1
         /\ Len(cmds') = Len(cmds) - 1
         /\ Head(cmds) = cmds[1]
         /\ \A i \in 1 .. Len(cmds') : /\ i + 1 \in 1 .. Len(cmds)
                                       /\ cmds'[i] = cmds[i + 1]
  <1>1. cmds \in Seq(Command) /\ Len(cmds) \in Nat
    BY DEF TypeOK
  <1>2. Len(cmds) >= 1 /\ Len(cmds') = Len(cmds) - 1 /\ Head(cmds) = cmds[1]
    BY <1>1
  <1>3. \A i \in 1 .. Len(cmds') : i + 1 \in 1 .. Len(cmds) /\ cmds'[i] = cmds[i + 1]
    BY <1>1, <1>2
  <1> QED BY <1>1, <1>2, <1>3

(* The part about the queue, when nothing but the head leaves it.            *)
LEMMA TakeKeeps ==
  ASSUME TypeOK, Custody, cmds # <<>>, cmds' = Tail(cmds), own' = own,
         \/ open' = open
         \/ Head(cmds).tag = "close" /\ open' = open \ {Head(cmds).sock}
  PROVE  OwnOpen' /\ QueuedOpen' /\ CloseGivenUp' /\ CloseLast'
  <1>1. /\ Len(cmds) \in Nat /\ Len(cmds) >= 1
        /\ Len(cmds') = Len(cmds) - 1
        /\ Head(cmds) = cmds[1]
        /\ \A i \in 1 .. Len(cmds') : i + 1 \in 1 .. Len(cmds) /\ cmds'[i] = cmds[i + 1]
    BY TakeShift
  <1>2. 1 \in 1 .. Len(cmds)
    BY <1>1
  <1>3. \A i \in 1 .. Len(cmds') :
          /\ cmds'[i].tag # "shutdown" => cmds'[i].sock \in open
          /\ cmds'[i].tag = "close" => cmds'[i].sock \notin own
    BY <1>1 DEF Custody, QueuedOpen, CloseGivenUp
  <1>4. CloseGivenUp'
    BY <1>3 DEF CloseGivenUp
  <1>5. CloseLast'
    <2> SUFFICES ASSUME NEW i \in 1 .. Len(cmds'), NEW j \in 1 .. Len(cmds'), i < j,
                        cmds'[i].tag = "close", cmds'[j].tag # "shutdown"
                 PROVE  cmds'[i].sock # cmds'[j].sock
      BY DEF CloseLast
    <2>1. /\ i + 1 \in 1 .. Len(cmds) /\ cmds'[i] = cmds[i + 1]
          /\ j + 1 \in 1 .. Len(cmds) /\ cmds'[j] = cmds[j + 1]
      BY <1>1
    <2>2. i + 1 < j + 1
      BY <1>1
    <2> QED BY <2>1, <2>2 DEF Custody, CloseLast
  <1>6. CASE open' = open
    BY <1>3, <1>4, <1>5, <1>6 DEF Custody, OwnOpen, QueuedOpen
  <1>7. CASE Head(cmds).tag = "close" /\ open' = open \ {Head(cmds).sock}
    <2>1. Head(cmds).sock \notin own
      BY <1>1, <1>2, <1>7 DEF Custody, CloseGivenUp
    <2>2. ASSUME NEW i \in 1 .. Len(cmds'), cmds'[i].tag # "shutdown"
          PROVE  cmds'[i].sock # Head(cmds).sock
      <3>1. i + 1 \in 1 .. Len(cmds) /\ cmds'[i] = cmds[i + 1] /\ 1 < i + 1
        BY <1>1
      <3> QED BY <1>1, <1>2, <1>7, <2>2, <3>1 DEF Custody, CloseLast
    <2> QED BY <1>3, <1>4, <1>5, <1>7, <2>1, <2>2 DEF Custody, OwnOpen, QueuedOpen
  <1> QED BY <1>6, <1>7
(* A new command goes to the end of the queue. One for a socket that the     *)
(* application holds or has just given up, behind no close of that socket,   *)
(* keeps the order of the queue.                                             *)
LEMMA SendKeeps ==
  ASSUME TypeOK, Custody, NEW c \in Command, Send(c), open' = open,
         own' \subseteq own,
         c.tag # "shutdown" => c.sock \in own,
         c.tag = "close" => c.sock \notin own'
  PROVE  OwnOpen' /\ QueuedOpen' /\ CloseGivenUp' /\ CloseLast'
  <1>1. OwnOpen'
    BY DEF Custody, OwnOpen
  <1>2. CASE cmds' = cmds
    BY <1>1, <1>2 DEF Custody, QueuedOpen, CloseGivenUp, CloseLast
  <1>3. CASE /\ Len(cmds) \in Nat
             /\ Len(cmds') = Len(cmds) + 1
             /\ \A i \in 1 .. Len(cmds) : cmds'[i] = cmds[i]
             /\ cmds'[Len(cmds) + 1] = c
    <2>1. \A i \in 1 .. Len(cmds') :
            \/ i \in 1 .. Len(cmds) /\ cmds'[i] = cmds[i]
            \/ i = Len(cmds) + 1 /\ cmds'[i] = c
      BY <1>3
    <2>2. QueuedOpen' /\ CloseGivenUp'
      BY <2>1 DEF Custody, OwnOpen, QueuedOpen, CloseGivenUp
    <2>3. CloseLast'
      <3> SUFFICES ASSUME NEW i \in 1 .. Len(cmds'), NEW j \in 1 .. Len(cmds'), i < j,
                          cmds'[i].tag = "close", cmds'[j].tag # "shutdown"
                   PROVE  cmds'[i].sock # cmds'[j].sock
        BY DEF CloseLast
      <3>1. i \in 1 .. Len(cmds) /\ cmds'[i] = cmds[i]
        BY <1>3
      <3>2. CASE j \in 1 .. Len(cmds) /\ cmds'[j] = cmds[j]
        BY <3>1, <3>2 DEF Custody, CloseLast
      <3>3. CASE cmds'[j] = c
        <4>1. cmds[i].sock \notin own
          BY <3>1 DEF Custody, CloseGivenUp
        <4> QED BY <3>1, <3>3, <4>1
      <3> QED BY <2>1, <3>2, <3>3
    <2> QED BY <1>1, <2>2, <2>3
  <1> QED BY <1>2, <1>3, SendShift

-----------------------------------------------------------------------------
(* The invariant, step by step.                                              *)

LEMMA CustodyFrame ==
  ASSUME Running, Running', Custody, UNCHANGED <<initialized, own, open, cmds, list, zombie>>,
         pc' = "aborted" => pc = "aborted" \/ zombie
  PROVE  Custody'
  <1>1. pc' = "off" => pc = "off"
    BY DEF Running
  <1>2. Idle' /\ OwnOpen' /\ Managed' /\ AbortsAfterNnTerm'
    BY <1>1 DEF Custody, Idle, OwnOpen, Managed, Listed, AbortsAfterNnTerm
  <1>3. QueuedOpen' /\ CloseGivenUp' /\ CloseLast'
    BY DEF Custody, QueuedOpen, CloseGivenUp, CloseLast
  <1> QED BY <1>2, <1>3 DEF Custody

LEMMA CustodyApp == ASSUME TypeOK, Running, Running', Custody, App PROVE Custody'
  <1>1. list' = list /\ Listed' = Listed
    BY DEF App, Listed
  <1>2. ASSUME NEW s \in Socks, NnSocket(s) PROVE Custody'
    <2>1. /\ s \notin own \union open
          /\ own' = own \union {s} /\ open' = open \union {s}
          /\ UNCHANGED <<cmds, zombie, pc>>
      BY <1>2 DEF NnSocket
    <2>2. \A i \in 1 .. Len(cmds) : cmds[i].tag = "close" => cmds[i].sock # s
      BY <2>1 DEF Custody, QueuedOpen
    <2>3. QueuedOpen' /\ CloseGivenUp' /\ CloseLast'
      BY <2>1, <2>2 DEF Custody, QueuedOpen, CloseGivenUp, CloseLast
    <2> QED BY <1>1, <2>1, <2>3 DEF Custody, Idle, OwnOpen, Managed, AbortsAfterNnTerm
  <1>3. ASSUME NEW s \in Socks, NEW u \in Urls, NcConfigure(s, u) PROVE Custody'
    <2> DEFINE c == [tag |-> "configure", sock |-> s, url |-> u]
    <2>1. c \in Command /\ c.tag = "configure" /\ c.sock = s
      BY DEF Command
    <2>2. /\ s \in own /\ Send(c) /\ UNCHANGED <<own, open, zombie>>
          /\ initialized' = TRUE
          /\ pc' = (IF initialized THEN pc ELSE "timers")
      BY <1>3 DEF NcConfigure, nc_start
    <2> HIDE DEF c
    <2>3. OwnOpen' /\ QueuedOpen' /\ CloseGivenUp' /\ CloseLast'
      BY <2>1, <2>2, SendKeeps
    <2>4. pc' # "off" /\ (pc' = "aborted" => pc = "aborted")
      BY <2>2 DEF Running
    <2> QED BY <1>1, <2>2, <2>3, <2>4 DEF Custody, Idle, Managed, AbortsAfterNnTerm
  <1>4. ASSUME NEW s \in Socks, NcClose(s) PROVE Custody'
    <2> DEFINE c == [tag |-> "close", sock |-> s]
    <2>1. s \in own /\ own' = own \ {s} /\ UNCHANGED <<initialized, zombie, pc>>
      BY <1>4 DEF NcClose
    <2>2. CASE initialized
      <3>1. c \in Command /\ c.tag = "close" /\ c.sock = s
        BY DEF Command
      <3>2. Send(c) /\ open' = open
        BY <1>4, <2>2 DEF NcClose
      <3> HIDE DEF c
      <3>3. OwnOpen' /\ QueuedOpen' /\ CloseGivenUp' /\ CloseLast'
        BY <2>1, <3>1, <3>2, SendKeeps
      <3>4. pc # "off"
        BY <2>2 DEF Running
      <3> QED BY <1>1, <2>1, <3>2, <3>3, <3>4 DEF Custody, Idle, Managed, AbortsAfterNnTerm
    <2>3. CASE ~initialized
      <3>1. open' = open \ {s} /\ cmds' = cmds
        BY <1>4, <2>3 DEF NcClose
      <3>2. cmds = <<>> /\ Listed = {}
        <4>1. cmds = <<>> /\ list = <<>>
          BY <2>3 DEF Running, Custody, Idle
        <4> QED BY <4>1 DEF Listed
      <3>3. QueuedOpen' /\ CloseGivenUp' /\ CloseLast'
        BY <3>1, <3>2 DEF QueuedOpen, CloseGivenUp, CloseLast
      <3> QED BY <1>1, <2>1, <3>1, <3>2, <3>3 DEF Custody, Idle, OwnOpen, Managed,
                 AbortsAfterNnTerm
    <2> QED BY <2>2, <2>3
  <1>5. ASSUME NcTerm PROVE Custody'
    <2> DEFINE c == [tag |-> "shutdown"]
    <2>1. UNCHANGED <<initialized, own, open, zombie, pc>>
      BY <1>5 DEF NcTerm
    <2>2. CASE initialized
      <3>1. c \in Command /\ c.tag = "shutdown" /\ Send(c)
        BY <1>5, <2>2 DEF NcTerm, Command
      <3> HIDE DEF c
      <3>2. OwnOpen' /\ QueuedOpen' /\ CloseGivenUp' /\ CloseLast'
        BY <2>1, <3>1, SendKeeps
      <3>3. pc # "off"
        BY <2>2 DEF Running
      <3> QED BY <1>1, <2>1, <3>2, <3>3 DEF Custody, Idle, Managed, AbortsAfterNnTerm
    <2>3. CASE ~initialized
      <3>1. cmds' = cmds
        BY <1>5, <2>3 DEF NcTerm
      <3> QED BY <1>1, <2>1, <3>1, CustodyFrame
    <2> QED BY <2>2, <2>3
  <1>6. ASSUME NcTermReturn PROVE Custody'
    BY <1>1, <1>6, CustodyFrame DEF NcTermReturn
  <1>7. ASSUME NnTerm PROVE Custody'
    <2>1. zombie' = TRUE /\ UNCHANGED <<initialized, own, open, cmds, list, pc>>
      BY <1>1, <1>7 DEF NnTerm
    <2> QED BY <1>1, <2>1 DEF Custody, Idle, OwnOpen, QueuedOpen, CloseGivenUp, CloseLast,
               Managed, AbortsAfterNnTerm
  <1> QED BY <1>2, <1>3, <1>4, <1>5, <1>6, <1>7 DEF App, ApiNext
(* The worker's steps that neither take a command nor change the list.       *)
LEMMA CustodyOther ==
  ASSUME TypeOK, Running, Running', Custody,
         \/ Service \/ Timers \/ Poll \/ Responses \/ Updates \/ Tick \/ UNCHANGED vars
         \/ CommandsEnd \/ CommandsTerm
  PROVE  Custody'
  <1> USE DEF apiVars, nsVars, sockVars, workerVars
  <1>1. CASE Service \/ Tick \/ UNCHANGED vars
    BY <1>1, CustodyFrame DEF Service, Tick, vars
  <1>2. CASE Timers \/ Poll \/ Updates \/ CommandsTerm
    BY <1>2, CustodyFrame DEF Timers, TimerSkip, TimerSend, TimerAgain, TimerStop, TimersEnd,
       Poll, PollTimeout, PollReady, GoTimers, Updates, UpdateTaken, UpdatesEnd, CommandsTerm
  <1>3. CASE CommandsEnd
    <2>1. "commands" \in Phases
      BY DEF Phases
    <2>2. pc' \in {"responses", "updates", "timers"}
      BY <1>3, <2>1, LeaveType DEF CommandsEnd
    <2> QED BY <1>3, <2>2, CustodyFrame DEF CommandsEnd
  <1>4. CASE Responses
    <2>1. CASE ResponsesEnd
      <3>1. "responses" \in Phases
        BY DEF Phases
      <3>2. pc' \in {"responses", "updates", "timers"}
        BY <2>1, <3>1, LeaveType DEF ResponsesEnd
      <3> QED BY <2>1, <3>2, CustodyFrame DEF ResponsesEnd
    <2>2. CASE ~ResponsesEnd
      BY <1>4, <2>2, CustodyFrame DEF Responses, ReplyApplied, ReplyRefused, ReplyIgnored,
         TakeReply, ResponsesTerm
    <2> QED BY <2>1, <2>2
  <1> QED BY <1>1, <1>2, <1>3, <1>4

(* Removing a socket from the list leaves no other entry of it.              *)
LEMMA Dropped ==
  ASSUME TypeOK, ListedOnce, NEW s \in Listed, list' = Without(s)
  PROVE  Listed' = Listed \ {s}
  <1> DEFINE k == CHOOSE i \in 1 .. Len(list) : list[i] = s
  <1>1. k \in 1 .. Len(list) /\ list[k] = s
    BY DEF Listed
  <1>2. Len(list) \in Nat
    BY DEF TypeOK
  <1>3. list' = [i \in 1 .. Len(list) - 1 |-> IF i < k THEN list[i] ELSE list[i + 1]]
    BY DEF Without
  <1> HIDE DEF k
  <1>4. Len(list') = Len(list) - 1
    BY WithoutShift
  <1>5. ASSUME NEW i \in 1 .. Len(list') PROVE list'[i] \in Listed \ {s}
    <2>1. CASE i < k
      <3>1. list'[i] = list[i] /\ i \in 1 .. Len(list) /\ i # k
        BY <1>1, <1>2, <1>3, <1>4, <2>1
      <3> QED BY <1>1, <3>1 DEF Listed, ListedOnce
    <2>2. CASE ~(i < k)
      <3>1. list'[i] = list[i + 1] /\ i + 1 \in 1 .. Len(list) /\ i + 1 # k
        BY <1>1, <1>2, <1>3, <1>4, <2>2
      <3> QED BY <1>1, <3>1 DEF Listed, ListedOnce
    <2> QED BY <2>1, <2>2
  <1>6. ASSUME NEW i \in 1 .. Len(list), list[i] # s PROVE list[i] \in Listed'
    <2>1. i # k
      BY <1>1, <1>6
    <2>2. CASE i < k
      <3>1. i \in 1 .. Len(list') /\ list'[i] = list[i]
        BY <1>1, <1>2, <1>3, <1>4, <2>2
      <3> QED BY <3>1 DEF Listed
    <2>3. CASE i > k
      <3>1. i - 1 \in 1 .. Len(list) - 1 /\ ~(i - 1 < k) /\ (i - 1) + 1 = i
        BY <1>1, <1>2, <2>3
      <3>2. i - 1 \in 1 .. Len(list') /\ list'[i - 1] = list[i]
        BY <1>3, <1>4, <3>1
      <3> QED BY <3>2 DEF Listed
    <2> QED BY <1>1, <2>1, <2>2, <2>3
  <1> QED BY ZenonT(30), <1>5, <1>6 DEF Listed

LEMMA CustodyCommands ==
  ASSUME TypeOK, ListedOnce, Running, Running', Custody,
         ConfigureKnown \/ ConfigureNew \/ Close \/ Shutdown
  PROVE  Custody'
  <1> USE DEF AtCommand, nsVars, sockVars
  <1>0. pc # "off" /\ pc = "commands" /\ cmds # <<>>
    BY DEF ConfigureKnown, ConfigureNew, Close, Shutdown
  <1>1. Head(cmds).tag # "shutdown" => Head(cmds).sock \in open
    <2>1. 1 \in 1 .. Len(cmds) /\ Head(cmds) = cmds[1]
      BY <1>0 DEF TypeOK
    <2> QED BY <2>1 DEF Custody, QueuedOpen
  <1>2. ASSUME ConfigureKnown \/ Shutdown PROVE Custody'
    <2>1. /\ cmds' = Tail(cmds) /\ pc' # "off" /\ pc' # "aborted"
          /\ UNCHANGED <<own, open, list, zombie>>
      BY <1>0, <1>2 DEF ConfigureKnown, Shutdown, TakeCommand
    <2>2. OwnOpen' /\ QueuedOpen' /\ CloseGivenUp' /\ CloseLast'
      BY <1>0, <2>1, TakeKeeps
    <2> QED BY <2>1, <2>2 DEF Custody, Idle, Managed, Listed, AbortsAfterNnTerm
  <1>3. ASSUME ConfigureNew PROVE Custody'
    <2> DEFINE s == Head(cmds).sock
    <2>1. /\ s \in open /\ cmds' = Tail(cmds)
          /\ UNCHANGED <<own, open, zombie>>
          /\ list' \in {list, Append(list, s)}
      BY <1>1, <1>3 DEF ConfigureNew, TakeCommand, nc_list_add
    <2>2. pc' = "commands"
      BY <1>0, <1>3, <2>1 DEF ConfigureNew
    <2>3. OwnOpen' /\ QueuedOpen' /\ CloseGivenUp' /\ CloseLast'
      BY <1>0, <2>1, TakeKeeps
    <2>4. Listed' \subseteq Listed \union {s}
      <3>1. list \in Seq(Socks)
        BY DEF TypeOK
      <3>2. CASE list' = Append(list, s)
        <4>1. \A i \in 1 .. Len(list') : \/ i \in 1 .. Len(list) /\ list'[i] = list[i]
                                         \/ list'[i] = s
          BY <3>1, <3>2
        <4> QED BY <4>1 DEF Listed
      <3>3. CASE list' = list
        BY <3>3 DEF Listed
      <3> QED BY <2>1, <3>2, <3>3
    <2> QED BY <2>1, <2>2, <2>3, <2>4 DEF Custody, Idle, Managed, AbortsAfterNnTerm
  <1>4. ASSUME Close PROVE Custody'
    <2> DEFINE s == Head(cmds).sock
    <2>1. /\ Head(cmds).tag = "close" /\ cmds' = Tail(cmds) /\ open' = open \ {s}
          /\ UNCHANGED <<own, zombie, pc>>
      BY <1>4 DEF Close
    <2>2. OwnOpen' /\ QueuedOpen' /\ CloseGivenUp' /\ CloseLast'
      BY <1>0, <2>1, TakeKeeps
    <2>3. Listed' = Listed \ {s}
      <3>1. CASE s \in Listed
        BY <1>4, <3>1, Dropped DEF Close, nc_list_rm
      <3>2. CASE s \notin Listed
        BY <1>4, <3>2 DEF Close, Listed
      <3> QED BY <3>1, <3>2
    <2> QED BY <1>0, <2>1, <2>2, <2>3 DEF Custody, Idle, Managed, AbortsAfterNnTerm
  <1> QED BY <1>2, <1>3, <1>4

LEMMA CustodyStep ==
  ASSUME IndInv, IndInv', Custody, [Next]_vars PROVE Custody'
  BY CustodyApp, CustodyCommands, CustodyOther DEF IndInv, Mail, Next, WorkerNext, Commands

LEMMA CustodyInit == Init => Custody
  <1> SUFFICES ASSUME Init PROVE Custody
    OBVIOUS
  <1>1. list = <<>> /\ cmds = <<>> /\ own = {} /\ open = {} /\ pc = "off"
    BY DEF Init, ApiInit, WorkerInit
  <1> QED BY <1>1 DEF Custody, Idle, OwnOpen, QueuedOpen, CloseGivenUp, CloseLast, Managed,
             Listed, AbortsAfterNnTerm

(* The invariant about the queue and the list holds, whatever is interrupted *)
(* and however early or late the application calls.                          *)
THEOREM InCustody == Spec => []Custody
  <1>1. IndInv /\ IndInv' /\ Custody /\ [Next]_vars => Custody'
    BY CustodyStep
  <1> QED BY <1>1, CustodyInit, Inductive, PTL DEF Spec

(* No socket on the worker's list is closed under it, even with early and    *)
(* late calls: the list shrinks with the same command that closes.           *)
THEOREM NeverClosedUnder == Spec => []ListedOpen
  <1>1. Custody => ListedOpen
    BY DEF Custody, Managed, ListedOpen
  <1> QED BY <1>1, InCustody, PTL

(* The one step that takes a socket off the list takes it alone, and the     *)
(* application gave it up before.                                            *)
LEMMA OnlyCloseDrops ==
  ASSUME TypeOK, ListedOnce, Custody, [Next]_vars
  PROVE  \A s \in Listed \ Listed' : s \notin own
  <1> USE DEF apiVars, nsVars, sockVars, workerVars
  <1>1. ASSUME list' = list PROVE Listed' = Listed
    BY <1>1 DEF Listed
  <1>2. CASE Close
    <2> DEFINE s == Head(cmds).sock
    <2>1. 1 \in 1 .. Len(cmds) /\ Head(cmds) = cmds[1] /\ cmds[1].tag = "close"
      BY <1>2 DEF TypeOK, Close, AtCommand
    <2>2. s \notin own
      BY <2>1 DEF Custody, CloseGivenUp
    <2>3. Listed \ {s} \subseteq Listed'
      BY <1>1, <1>2, Dropped DEF Close, nc_list_rm
    <2> QED BY <2>2, <2>3
  <1>3. CASE ConfigureNew
    <2>1. list \in Seq(Socks) /\ list' \in {list, Append(list, Head(cmds).sock)}
      BY <1>3 DEF TypeOK, ConfigureNew, nc_list_add
    <2>2. ASSUME list' = Append(list, Head(cmds).sock) PROVE Listed \subseteq Listed'
      <3>1. \A i \in 1 .. Len(list) : i \in 1 .. Len(list') /\ list'[i] = list[i]
        BY <2>1, <2>2
      <3> QED BY <3>1 DEF Listed
    <2> QED BY <1>1, <2>1, <2>2
  <1>4. CASE [Next]_vars /\ ~Close /\ ~ConfigureNew
    <2>1. CASE App \/ Service \/ Tick \/ UNCHANGED vars
      BY <1>1, <2>1 DEF App, Service, Tick, vars
    <2>2. CASE Timers \/ Poll \/ Updates
      BY <1>1, <2>2 DEF Timers, TimerSkip, TimerSend, TimerAgain, TimerStop, TimersEnd,
         Poll, PollTimeout, PollReady, Updates, UpdateTaken, UpdatesEnd
    <2>3. CASE Commands
      BY <1>1, <1>4, <2>3 DEF Commands, ConfigureKnown, Shutdown, CommandsEnd, CommandsTerm
    <2>4. CASE Responses
      BY <1>1, <2>4 DEF Responses, ReplyApplied, ReplyRefused, ReplyIgnored, TakeReply,
         ResponsesEnd, ResponsesTerm
    <2> QED BY <1>4, <2>1, <2>2, <2>3, <2>4 DEF Next, WorkerNext
  <1> QED BY <1>2, <1>3, <1>4

(* No socket the application still holds ever leaves the list, whatever is   *)
(* closed, configured again or given the same number.                        *)
THEOREM NoneLost == Spec => OnlyClosedLeave
  <1>1. IndInv /\ Custody /\ [Next]_vars => [\A s \in Listed \ Listed' : s \notin own]_vars
    BY OnlyCloseDrops DEF IndInv, Mail
  <1> QED BY <1>1, InCustody, Inductive, PTL DEF Spec, OnlyClosedLeave

(* The worker aborts only once the application has called nn_term: no        *)
(* command ever makes it ask a closed socket for its protocol.               *)
THEOREM OnlyNnTermAborts == Spec => []AbortsAfterNnTerm
  <1>1. Custody => AbortsAfterNnTerm
    BY DEF Custody
  <1> QED BY <1>1, InCustody, PTL

-----------------------------------------------------------------------------
(* Used as documented: nn_term after nc_term, and no call after nc_term.     *)

AsDocumented == ~EarlyNnTerm /\ ~CallsAfterTerm

(* Once nc_term has returned the thread is gone, and nn_term comes after it. *)
Ended == /\ term = "done" => pc \in {"off", "exited"}
         /\ zombie => term = "done"

LEMMA EndedFrame == ASSUME Ended, UNCHANGED <<term, zombie>>,
                           term = "done" => pc' = pc
                    PROVE  Ended'
  BY DEF Ended

(* A worker that takes a step is running, so nobody has called nn_term.      *)
LEMMA WorkerRuns == ASSUME WorkerNext
                    PROVE  pc \notin {"off", "exited"} /\ UNCHANGED <<term, zombie>>
  BY DEF WorkerNext, Timers, TimerSkip, TimerSend, TimerAgain, TimerStop, TimersEnd, AtItem,
     Poll, PollTimeout, PollReady, Commands, ConfigureKnown, ConfigureNew, Close, Shutdown,
     AtCommand, TakeCommand, CommandsEnd, CommandsTerm, Responses, ReplyApplied,
     ReplyRefused, ReplyIgnored, TakeReply, ResponsesEnd, ResponsesTerm, Updates,
     UpdateTaken, UpdatesEnd, apiVars

LEMMA EndedStep ==
  ASSUME AsDocumented, Running, Ended, [Next]_vars
  PROVE  Ended'
  <1> USE DEF AsDocumented
  <1>1. ASSUME App PROVE Ended'
    <2>1. ASSUME NEW s \in Socks, NnSocket(s) \/ NcClose(s) PROVE Ended'
      BY <2>1, EndedFrame DEF NnSocket, NcClose
    <2>2. ASSUME NEW s \in Socks, NEW u \in Urls, NcConfigure(s, u) PROVE Ended'
      <3>1. term = "no" /\ term' = term /\ zombie' = zombie
        BY <2>2 DEF NcConfigure, MayCall
      <3> QED BY <3>1, EndedFrame
    <2>3. ASSUME NcTerm PROVE Ended'
      <3>1. CASE initialized
        BY <2>3, <3>1 DEF NcTerm, Ended
      <3>2. CASE ~initialized
        <4>1. pc = "off"
          BY <3>2 DEF Running
        <4> QED BY <2>3, <3>2, <4>1 DEF NcTerm, Ended
      <3> QED BY <3>1, <3>2
    <2>4. ASSUME NcTermReturn PROVE Ended'
      BY <2>4 DEF NcTermReturn, Ended
    <2>5. ASSUME NnTerm PROVE Ended'
      BY <2>5 DEF NnTerm, Ended
    <2> QED BY <1>1, <2>1, <2>2, <2>3, <2>4, <2>5 DEF App, ApiNext
  <1>2. ASSUME WorkerNext PROVE Ended'
    BY <1>2, WorkerRuns, EndedFrame DEF Ended
  <1>3. ASSUME Service \/ Tick \/ UNCHANGED vars PROVE Ended'
    BY <1>3, EndedFrame DEF Service, Tick, vars, apiVars, workerVars
  <1> QED BY <1>1, <1>2, <1>3 DEF Next

LEMMA EndedInit == Init => Ended
  BY DEF Init, ApiInit, WorkerInit, Ended

(* The end, when nn_term comes after nc_term and no call after that: the     *)
(* worker is gone when nc_term returns, and only then does nanomsg go.       *)
THEOREM EndedInOrder == ASSUME AsDocumented PROVE Spec => []Ended
  <1>1. IndInv /\ Ended /\ [Next]_vars => Ended'
    BY EndedStep DEF IndInv
  <1> QED BY <1>1, EndedInit, Inductive, PTL DEF Spec

(* Used as documented, nanoconfig never aborts the process.                  *)
THEOREM NeverAborts == ASSUME AsDocumented PROVE Spec => []NoAbort
  <1>1. Custody /\ Ended => NoAbort
    BY DEF Custody, AbortsAfterNnTerm, Ended, NoAbort
  <1> QED BY <1>1, InCustody, EndedInOrder, PTL
-----------------------------------------------------------------------------
(* No signal either: then no command is lost, nothing is queued behind the   *)
(* shutdown, and the worker ends with the queue empty.                       *)

Uninterrupted == AsDocumented /\ ~Interrupts

IsClose(c, s) == c.tag = "close" /\ c.sock = s
CloseQueued == \A s \in open \ own : \E i \in 1 .. Len(cmds) : IsClose(cmds[i], s)
ShutdownLast == \A i \in 1 .. Len(cmds) :
                  cmds[i].tag = "shutdown" => i = Len(cmds) /\ term = "joining"
Drained == pc = "exited" => cmds = <<>> /\ term # "no"

Delivery == CloseQueued /\ ShutdownLast /\ Drained

(* Before nc_term every command that is sent reaches the queue.              *)
LEMMA Sent ==
  ASSUME TypeOK, Uninterrupted, Ended, term = "no", NEW c \in Command, Send(c)
  PROVE  /\ Len(cmds) \in Nat
         /\ Len(cmds') = Len(cmds) + 1
         /\ \A i \in 1 .. Len(cmds) : cmds'[i] = cmds[i]
         /\ cmds'[Len(cmds) + 1] = c
  <1>1. cmds' = Append(cmds, c)
    BY DEF Send, Ended, Uninterrupted
  <1>2. cmds \in Seq(Command)
    BY DEF TypeOK
  <1> QED BY <1>1, <1>2

LEMMA SentKeeps ==
  ASSUME TypeOK, Uninterrupted, Ended, Delivery, term = "no", NEW c \in Command, Send(c),
         pc' # "exited", open' = open,
         \A s \in own \ own' : IsClose(c, s),
         c.tag = "shutdown" => term' = "joining"
  PROVE  Delivery'
  <1>1. /\ Len(cmds) \in Nat
        /\ Len(cmds') = Len(cmds) + 1
        /\ \A i \in 1 .. Len(cmds) : cmds'[i] = cmds[i]
        /\ cmds'[Len(cmds) + 1] = c
    BY Sent
  <1>2. 1 .. Len(cmds) \subseteq 1 .. Len(cmds') /\ Len(cmds) + 1 \in 1 .. Len(cmds')
    BY <1>1
  <1>3. CloseQueued'
    <2> SUFFICES ASSUME NEW s \in open, s \notin own'
                 PROVE  \E i \in 1 .. Len(cmds') : IsClose(cmds'[i], s)
      BY DEF CloseQueued, IsClose
    <2>1. CASE s \in own
      BY <1>1, <1>2, <2>1
    <2>2. CASE s \notin own
      BY <1>1, <1>2, <2>2 DEF Delivery, CloseQueued
    <2> QED BY <2>1, <2>2
  <1>4. ShutdownLast'
    <2>1. \A i \in 1 .. Len(cmds') : \/ i \in 1 .. Len(cmds) /\ cmds'[i] = cmds[i]
                                     \/ i = Len(cmds') /\ cmds'[i] = c
      BY <1>1
    <2> QED BY <1>1, <2>1 DEF Delivery, ShutdownLast
  <1> QED BY <1>3, <1>4 DEF Delivery, Drained

LEMMA DeliveryFrame ==
  ASSUME Delivery, UNCHANGED <<own, open, cmds>>, pc' = "exited" => pc = "exited",
         \/ term' = term
         \/ cmds = <<>> /\ term' = "done"
  PROVE  Delivery'
  <1>1. CloseQueued'
    BY DEF Delivery, CloseQueued
  <1>2. ShutdownLast' /\ Drained'
    BY DEF Delivery, ShutdownLast, Drained
  <1> QED BY <1>1, <1>2 DEF Delivery

LEMMA DeliveryApp ==
  ASSUME TypeOK, Running, Uninterrupted, Custody, Ended, Delivery, App PROVE Delivery'
  <1> USE DEF Uninterrupted, AsDocumented
  <1>1. ASSUME NEW s \in Socks, NnSocket(s) PROVE Delivery'
    <2>1. /\ own' = own \union {s} /\ open' = open \union {s}
          /\ UNCHANGED <<cmds, pc, term>>
      BY <1>1 DEF NnSocket
    <2>2. open' \ own' \subseteq open \ own
      BY <2>1
    <2>3. CloseQueued'
      BY <2>1, <2>2 DEF Delivery, CloseQueued
    <2> QED BY <2>1, <2>3 DEF Delivery, ShutdownLast, Drained
  <1>2. ASSUME NEW s \in Socks, NEW u \in Urls, NcConfigure(s, u) PROVE Delivery'
    <2> DEFINE c == [tag |-> "configure", sock |-> s, url |-> u]
    <2>1. /\ term = "no" /\ Send(c) /\ UNCHANGED <<own, open>>
          /\ pc' = (IF initialized THEN pc ELSE "timers")
      BY <1>2 DEF NcConfigure, MayCall, nc_start
    <2>2. c \in Command /\ c.tag # "shutdown"
      BY DEF Command
    <2>3. pc' # "exited"
      BY <2>1 DEF Delivery, Drained
    <2> QED BY <2>1, <2>2, <2>3, SentKeeps
  <1>3. ASSUME NEW s \in Socks, NcClose(s) PROVE Delivery'
    <2> DEFINE c == [tag |-> "close", sock |-> s]
    <2>1. /\ term = "no" /\ term' = term /\ own' = own \ {s} /\ pc' = pc
          /\ IF initialized THEN Send(c) /\ open' = open
             ELSE open' = open \ {s} /\ cmds' = cmds
      BY <1>3 DEF NcClose, MayCall
    <2>2. CASE initialized
      <3>1. c \in Command /\ c.tag # "shutdown" /\ \A t \in own \ own' : IsClose(c, t)
        BY <2>1 DEF Command, IsClose
      <3>2. pc' # "exited"
        BY <2>1 DEF Delivery, Drained
      <3> QED BY <2>1, <2>2, <3>1, <3>2, SentKeeps
    <2>3. CASE ~initialized
      <3>1. open' \ own' \subseteq open \ own /\ cmds' = cmds
        BY <2>1, <2>3
      <3>2. CloseQueued'
        BY <3>1 DEF Delivery, CloseQueued
      <3> QED BY <2>1, <3>1, <3>2 DEF Delivery, ShutdownLast, Drained
    <2> QED BY <2>2, <2>3
  <1>4. ASSUME NcTerm PROVE Delivery'
    <2> DEFINE c == [tag |-> "shutdown"]
    <2>1. /\ term = "no" /\ UNCHANGED <<own, open, pc>>
          /\ IF initialized THEN Send(c) /\ term' = "joining"
             ELSE cmds' = cmds /\ term' = "done"
      BY <1>4 DEF NcTerm
    <2>2. CASE initialized
      <3>1. c \in Command /\ pc' # "exited"
        BY <2>1 DEF Command, Delivery, Drained
      <3> QED BY <2>1, <2>2, <3>1, SentKeeps
    <2>3. CASE ~initialized
      <3>1. cmds = <<>>
        BY <2>3 DEF Running, Custody, Idle
      <3> QED BY <2>1, <2>3, <3>1, DeliveryFrame
    <2> QED BY <2>2, <2>3
  <1>5. ASSUME NcTermReturn PROVE Delivery'
    BY <1>5, DeliveryFrame DEF NcTermReturn, Delivery, Drained
  <1>6. ASSUME NnTerm PROVE Delivery'
    BY <1>6, DeliveryFrame DEF NnTerm
  <1> QED BY <1>1, <1>2, <1>3, <1>4, <1>5, <1>6 DEF App, ApiNext

LEMMA DeliveryCommands ==
  ASSUME TypeOK, Delivery, ConfigureKnown \/ ConfigureNew \/ Close \/ Shutdown
  PROVE  Delivery'
  <1> USE DEF AtCommand
  <1>1. /\ cmds # <<>> /\ cmds' = Tail(cmds) /\ own' = own /\ term' = term /\ pc = "commands"
        /\ pc' = "exited" => Head(cmds).tag = "shutdown"
        /\ \/ open' = open /\ Head(cmds).tag # "close"
           \/ Head(cmds).tag = "close" /\ open' = open \ {Head(cmds).sock}
    BY DEF ConfigureKnown, ConfigureNew, Close, Shutdown, TakeCommand
  <1>2. /\ Len(cmds) \in Nat /\ Len(cmds) >= 1
        /\ Len(cmds') = Len(cmds) - 1
        /\ Head(cmds) = cmds[1]
        /\ \A i \in 1 .. Len(cmds') : i + 1 \in 1 .. Len(cmds) /\ cmds'[i] = cmds[i + 1]
    BY <1>1, TakeShift
  <1>3. CloseQueued'
    <2> SUFFICES ASSUME NEW s \in open', s \notin own
                 PROVE  \E i \in 1 .. Len(cmds') : IsClose(cmds'[i], s)
      BY <1>1 DEF CloseQueued
    <2>1. s \in open /\ ~IsClose(Head(cmds), s)
      BY <1>1 DEF IsClose
    <2>2. PICK i \in 1 .. Len(cmds) : IsClose(cmds[i], s)
      BY <2>1 DEF Delivery, CloseQueued
    <2>3. i # 1
      BY <1>2, <2>1, <2>2
    <2>4. i - 1 \in 1 .. Len(cmds') /\ cmds'[i - 1] = cmds[i]
      BY <1>2, <2>3
    <2> QED BY <2>2, <2>4
  <1>4. ShutdownLast'
    <2> SUFFICES ASSUME NEW i \in 1 .. Len(cmds'), cmds'[i].tag = "shutdown"
                 PROVE  i = Len(cmds') /\ term = "joining"
      BY <1>1 DEF ShutdownLast
    <2>1. i + 1 = Len(cmds) /\ term = "joining"
      BY <1>2 DEF Delivery, ShutdownLast
    <2> QED BY <1>2, <2>1
  <1>5. Drained'
    <2> SUFFICES ASSUME pc' = "exited" PROVE cmds' = <<>> /\ term # "no"
      BY <1>1 DEF Drained
    <2>1. 1 = Len(cmds) /\ term = "joining"
      <3>1. 1 \in 1 .. Len(cmds) /\ cmds[1].tag = "shutdown"
        BY <1>1, <1>2
      <3> QED BY <3>1 DEF Delivery, ShutdownLast
    <2>2. cmds' = <<>>
      <3>1. cmds \in Seq(Command)
        BY DEF TypeOK
      <3> QED BY <1>1, <2>1, <3>1
    <2> QED BY <2>1, <2>2
  <1> QED BY <1>3, <1>4, <1>5 DEF Delivery

LEMMA DeliveryOther ==
  ASSUME Delivery, Ended,
         \/ Service \/ Timers \/ Poll \/ Responses \/ Updates \/ Tick \/ UNCHANGED vars
         \/ CommandsEnd \/ CommandsTerm
  PROVE  Delivery'
  <1> USE DEF apiVars, nsVars, sockVars, workerVars
  <1>1. CASE Service \/ Tick \/ UNCHANGED vars
    BY <1>1, DeliveryFrame DEF Service, Tick, vars
  <1>2. CASE Timers \/ Poll \/ Updates
    BY <1>2, DeliveryFrame DEF Timers, TimerSkip, TimerSend, TimerAgain, TimerStop, TimersEnd,
       AtItem, Poll, PollTimeout, PollReady, GoTimers, Updates, UpdateTaken, UpdatesEnd
  <1>3. CASE CommandsEnd \/ ResponsesEnd
    <2>1. pc' # "exited"
      BY <1>3 DEF CommandsEnd, ResponsesEnd, Leave, PhaseAfter, GoTimers
    <2> QED BY <1>3, <2>1, DeliveryFrame DEF CommandsEnd, ResponsesEnd
  <1>4. CASE Responses /\ ~ResponsesEnd
    BY <1>4, DeliveryFrame DEF Responses, ReplyApplied, ReplyRefused, ReplyIgnored, TakeReply,
       ResponsesTerm
  <1>5. CASE CommandsTerm
    BY <1>5 DEF CommandsTerm, Ended
  <1> QED BY <1>1, <1>2, <1>3, <1>4, <1>5

LEMMA DeliveryStep ==
  ASSUME Uninterrupted, IndInv, Custody, Ended, Delivery, [Next]_vars PROVE Delivery'
  BY DeliveryApp, DeliveryCommands, DeliveryOther DEF IndInv, Next, WorkerNext, Commands

LEMMA DeliveryInit == Init => Delivery
  BY DEF Init, ApiInit, WorkerInit, Delivery, CloseQueued, ShutdownLast, Drained

(* The queue, when no call of the worker is interrupted: what nc_close       *)
(* queued is there until the worker has closed, and shutdown comes last.     *)
THEOREM EverythingDelivered == ASSUME Uninterrupted PROVE Spec => []Delivery
  <1>1. IndInv /\ Custody /\ Ended /\ Delivery /\ [Next]_vars => Delivery'
    BY DeliveryStep
  <1>2. Spec => []Ended
    BY EndedInOrder DEF Uninterrupted
  <1> QED BY <1>1, <1>2, DeliveryInit, Inductive, InCustody, PTL DEF Spec

(* When nc_term returns, every socket that was given to nc_close is closed.  *)
THEOREM ClosedByTheEnd == ASSUME Uninterrupted PROVE Spec => []TermClosesAll
  <1>1. Custody /\ Ended /\ Delivery => TermClosesAll
    <2> SUFFICES ASSUME Custody, Ended, Delivery, term = "done" PROVE open \subseteq own
      BY DEF TermClosesAll
    <2>1. cmds = <<>>
      BY DEF Custody, Idle, Ended, Delivery, Drained
    <2>2. \A s \in open \ own : \E i \in 1 .. Len(cmds) : IsClose(cmds[i], s)
      BY DEF Delivery, CloseQueued
    <2> QED BY <2>1, <2>2
  <1>2. Spec => []Ended
    BY EndedInOrder DEF Uninterrupted
  <1> QED BY <1>1, <1>2, EverythingDelivered, InCustody, PTL
-----------------------------------------------------------------------------
(* nc_close and nc_term implement SocketLife: each step of the library is a  *)
(* step of the abstract specification or leaves a socket's stage alone.      *)

LEMMA LifeInit == Init => Life!Init
  BY DEF Init, ApiInit, Life!Init, stage

LEMMA LifeStutter == ASSUME UNCHANGED <<own, open, term>> \/
                            (UNCHANGED <<own, open>> /\ term # "done" /\ term' # "done")
                     PROVE  UNCHANGED Life!vars
  BY DEF Life!vars, stage

(* One socket changes its stage.                                             *)
LEMMA StageOf ==
  ASSUME NEW s \in Socks, own' \ {s} = own \ {s}, open' \ {s} = open \ {s}, NEW new,
         new = IF s \in own' THEN "open" ELSE IF s \in open' THEN "closing" ELSE "free"
  PROVE  stage' = [stage EXCEPT ![s] = new]
  <1>1. \A t \in Socks \ {s} : (t \in own' <=> t \in own) /\ (t \in open' <=> t \in open)
    OBVIOUS
  <1> QED BY <1>1 DEF stage

LEMMA LifeApp ==
  ASSUME TypeOK, Running, Uninterrupted, Custody, Ended, Delivery, App
  PROVE  [Life!Next]_(Life!vars)
  <1> USE DEF Uninterrupted, AsDocumented
  <1>1. ASSUME NEW s \in Socks, NnSocket(s) PROVE Life!Open(s)
    <2>1. /\ s \notin own \union open /\ term' = term
          /\ own' = own \union {s} /\ open' = open \union {s}
      BY <1>1 DEF NnSocket
    <2>2. stage' = [stage EXCEPT ![s] = "open"]
      BY <2>1, StageOf
    <2> QED BY <2>1, <2>2 DEF Life!Open, stage
  <1>2. ASSUME NEW s \in Socks, NcClose(s) PROVE Life!CloseLater(s) \/ Life!CloseNow(s)
    <2>1. /\ s \in own /\ term = "no" /\ term' = term /\ own' = own \ {s}
          /\ IF initialized THEN open' = open ELSE open' = open \ {s}
      BY <1>2 DEF NcClose, MayCall
    <2>2. stage[s] = "open" /\ s \in open
      BY <2>1 DEF stage, Custody, OwnOpen
    <2>3. CASE initialized
      <3>1. stage' = [stage EXCEPT ![s] = "closing"]
        BY <2>1, <2>2, <2>3, StageOf
      <3> QED BY <2>1, <2>2, <3>1 DEF Life!CloseLater
    <2>4. CASE ~initialized
      <3>1. stage' = [stage EXCEPT ![s] = "free"]
        BY <2>1, <2>2, <2>4, StageOf
      <3> QED BY <2>1, <2>2, <3>1 DEF Life!CloseNow
    <2> QED BY <2>3, <2>4
  <1>3. ASSUME term # "done", term' = "done", UNCHANGED <<own, open>>, cmds = <<>>
        PROVE  Life!Finish
    <2>1. \A s \in open : s \in own
      BY <1>3 DEF Delivery, CloseQueued
    <2>2. \A s \in Socks : stage[s] # "closing"
      BY <2>1 DEF stage
    <2>3. stage' = stage
      BY <1>3 DEF stage
    <2> QED BY <1>3, <2>2, <2>3 DEF Life!Finish
  <1>4. ASSUME NcTerm PROVE Life!Finish \/ UNCHANGED Life!vars
    <2>1. CASE initialized
      BY <1>4, <2>1, LifeStutter DEF NcTerm
    <2>2. CASE ~initialized
      <3>1. cmds = <<>>
        BY <2>2 DEF Running, Custody, Idle
      <3> QED BY <1>3, <1>4, <2>2, <3>1 DEF NcTerm
    <2> QED BY <2>1, <2>2
  <1>5. ASSUME NcTermReturn PROVE Life!Finish
    <2>1. cmds = <<>>
      BY <1>5 DEF NcTermReturn, Delivery, Drained
    <2> QED BY <1>3, <1>5, <2>1 DEF NcTermReturn
  <1>6. ASSUME NEW s \in Socks, NEW u \in Urls, NcConfigure(s, u) PROVE UNCHANGED Life!vars
    BY <1>6, LifeStutter DEF NcConfigure
  <1>7. ASSUME NnTerm PROVE UNCHANGED Life!vars
    BY <1>7, LifeStutter DEF NnTerm
  <1> QED BY <1>1, <1>2, <1>4, <1>5, <1>6, <1>7 DEF App, ApiNext, Life!Next

LEMMA LifeWorker ==
  ASSUME TypeOK, Custody, Ended, WorkerNext \/ Service \/ Tick \/ UNCHANGED vars
  PROVE  [Life!Next]_(Life!vars)
  <1> USE DEF AtCommand
  <1>1. ASSUME Close PROVE Life!Closed(Head(cmds).sock) /\ Head(cmds).sock \in Socks
    <2> DEFINE s == Head(cmds).sock
    <2>1. /\ cmds # <<>> /\ Head(cmds).tag = "close"
          /\ open' = open \ {s} /\ own' = own /\ term' = term /\ pc = "commands"
      BY <1>1 DEF Close
    <2>2. s \in Socks
      BY <1>1, CommandFields DEF Close
    <2>3. s \in open /\ s \notin own
      <3>1. 1 \in 1 .. Len(cmds) /\ Head(cmds) = cmds[1]
        BY <2>1 DEF TypeOK
      <3> QED BY <2>1, <3>1 DEF Custody, QueuedOpen, CloseGivenUp
    <2>4. term # "done"
      BY <2>1 DEF Ended
    <2>5. stage' = [stage EXCEPT ![s] = "free"]
      BY <2>1, <2>2, <2>3, StageOf
    <2>6. stage[s] = "closing"
      BY <2>2, <2>3 DEF stage
    <2> QED BY <2>1, <2>2, <2>4, <2>5, <2>6 DEF Life!Closed
  <1>2. ASSUME ~Close PROVE UNCHANGED <<own, open, term>>
    <2>1. CASE Service \/ Tick \/ UNCHANGED vars
      BY SMTT(30), <2>1 DEF Service, Tick, vars, apiVars, workerVars
    <2>2. CASE WorkerNext
      BY Zenon, <1>2, <2>2 DEF WorkerNext, Timers, TimerSkip, TimerSend, TimerAgain, TimerStop,
         TimersEnd, Poll, PollTimeout, PollReady, Commands, ConfigureKnown, ConfigureNew,
         Shutdown, TakeCommand, CommandsEnd, CommandsTerm, Responses, ReplyApplied,
         ReplyRefused, ReplyIgnored, TakeReply, ResponsesEnd, ResponsesTerm, Updates,
         UpdateTaken, UpdatesEnd, apiVars
    <2> QED BY <2>1, <2>2
  <1> QED BY <1>1, <1>2, LifeStutter DEF Life!Next

(* nc_close and nc_term keep what SocketLife promises: a socket given to     *)
(* nc_close is closed later and once, and none is half closed when nc_term   *)
(* has returned.                                                             *)
THEOREM KeepsPromise == ASSUME Uninterrupted PROVE Spec => LifeSpec
  <1>1. IndInv /\ Custody /\ Ended /\ Delivery /\ [Next]_vars => [Life!Next]_(Life!vars)
    BY LifeApp, LifeWorker DEF IndInv, Next
  <1>2. Spec => []Ended
    BY EndedInOrder DEF Uninterrupted
  <1> QED BY <1>1, <1>2, LifeInit, EverythingDelivered, Inductive, InCustody, PTL
          DEF Spec, LifeSpec, Life!Spec
=============================================================================
