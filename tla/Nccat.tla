------------------------------- MODULE Nccat -------------------------------
(* nccat (tools/nanocat.c): the table of its options for the parser of       *)
(* Options, and the loops that send and receive. The socket gets its         *)
(* endpoints from nc_configure, which returns before anything is connected;  *)
(* to the loops that is a peer that comes late. Time is counted in           *)
(* milliseconds and passes while the program waits.                          *)
EXTENDS Integers, Options

CONSTANTS Intervals,   \* values of --interval, in milliseconds
          PerSecond,   \* milliseconds in a second: 1000, less in an instance
          MaxTime      \* bound: how long a run of the program is looked at

ASSUME NccatAssumption == /\ Intervals \subseteq Nat
                          /\ PerSecond \in Nat \ {0, 1}
                          /\ MaxTime \in Nat

-----------------------------------------------------------------------------
(* The table nn_options.                                                     *)
ReadWrite == {"req", "rep", "surveyor", "respondent", "bus", "pair"}
WriteOnly == {"push", "pub"}
ReadOnly == {"pull", "sub"}
SocketTypes == ReadWrite \union WriteOnly \union ReadOnly
Formats == {"format", "raw", "ascii", "quoted", "msgpack"}
DataSources == {"data", "file"}
NccatOption == SocketTypes \union Formats \union DataSources
                 \union {"verbose", "silent", "help", "topology", "subscribe", "interval"}
NccatFlag == {"SOCK", "WRITEABLE", "READABLE", "SOCK_SUB", "DATA", "ENDPOINT"}

NccatProvides == [o \in NccatOption |->
  {f \in NccatFlag : \/ f = "SOCK" /\ o \in SocketTypes
                     \/ f = "WRITEABLE" /\ o \in ReadWrite \union WriteOnly
                     \/ f = "READABLE" /\ o \in ReadWrite \union ReadOnly
                     \/ f = "SOCK_SUB" /\ o = "sub"
                     \/ f = "DATA" /\ o \in DataSources
                     \/ f = "ENDPOINT" /\ o = "topology"}]

NccatConflicts == [o \in NccatOption |->
  {f \in NccatFlag : \/ f = "SOCK" /\ o \in SocketTypes
                     \/ f = "DATA" /\ o \in DataSources
                     \/ f = "ENDPOINT" /\ o = "topology"}]

NccatRequires == [o \in NccatOption |->
  {f \in NccatFlag : \/ f = "DATA" /\ o \in WriteOnly \union {"req", "surveyor"}
                     \/ f = "SOCK_SUB" /\ o = "subscribe"
                     \/ f = "READABLE" /\ o \in Formats
                     \/ f = "WRITEABLE" /\ o \in DataSources \union {"interval"}}]

NccatRequired == {"SOCK", "ENDPOINT"}
NccatTakesArg == DataSources \union {"topology", "subscribe", "format", "interval"}
NccatChecked == {"format", "interval", "file"}
NccatFiles == {"file"}
NccatHelps == {"help"}

(* The parser is nn_parse_options, given this table. The program may go by   *)
(* the names of the socket types (nn_push and so on).                        *)
ASSUME NccatTable ==
  /\ Option = NccatOption /\ Flag = NccatFlag
  /\ Provides = NccatProvides /\ Conflicts = NccatConflicts
  /\ Requires = NccatRequires /\ Required = NccatRequired
  /\ TakesArg = NccatTakesArg /\ Checked = NccatChecked
  /\ Files = NccatFiles /\ Helps = NccatHelps
  /\ Arg0 \subseteq SocketTypes

-----------------------------------------------------------------------------
VARIABLES type,      \* options.socket_type
          data,      \* is there options.data_to_send?
          interval,  \* options.send_interval, -1 if not given
          prefixes,  \* number of options.subscriptions
          filter,    \* what a SUB socket is subscribed to
          at,        \* where the program is
          now,       \* the clock
          start,     \* start_time of the current round
          until,     \* when nn_recv or nn_sleep returns at the latest
          pending    \* is a request or survey of this socket unanswered?

setVars == <<type, data, interval, prefixes>>
loopVars == <<filter, at, now, start, until, pending>>
vars == <<optVars, setVars, loopVars>>

Init == /\ OptInit
        /\ type = "none" /\ data = FALSE /\ interval = -1 /\ prefixes = 0
        /\ filter = "nothing" /\ at = "parse" /\ pending = FALSE
        /\ now = 0 /\ start = 0 /\ until = 0

(* A step of the parser, with what the option sets.                          *)
Taken == IF given' # given /\ parse' = "args" THEN {Last(given')} ELSE {}
Parse == /\ at = "parse"
         /\ OptNext
         /\ type' = IF Taken \intersect SocketTypes # {} THEN Last(given') ELSE type
         /\ data' = (data \/ Taken \intersect DataSources # {})
         /\ interval' \in IF "interval" \in Taken THEN Intervals ELSE {interval}
         /\ prefixes' = prefixes + Cardinality(Taken \intersect {"subscribe"})
         /\ UNCHANGED loopVars

(* Mutant of FirstPoint: a socket that can do both always sends.             *)
AlwaysSends == CASE type \in WriteOnly -> "send"
                 [] type \in ReadOnly -> "recv"
                 [] type \in {"bus", "pair", "surveyor", "req"} -> "rw_send"
                 [] OTHER -> "resp_recv"

FirstPoint == CASE type \in WriteOnly -> "send"
                [] type \in {"surveyor", "req"} -> "rw_send"
                [] type \in {"bus", "pair"} /\ data -> "rw_send"
                [] type \in {"rep", "respondent"} /\ data -> "resp_recv"
                [] OTHER -> "recv"

(* main, after the command line: create, subscribe, configure.               *)
Begin == /\ at = "parse"
         /\ parse = "accepted"
         /\ filter' = CASE type = "sub" /\ prefixes = 0 -> "everything"
                        [] type = "sub" /\ prefixes > 0 -> "prefixes"
                        [] OTHER -> "nothing"
         /\ at' \in {FirstPoint, "failed"}
         /\ start' = now
         /\ UNCHANGED <<optVars, setVars, now, until, pending>>

Stay == UNCHANGED <<optVars, setVars, filter, now>>
Goto(p) == at' = p /\ UNCHANGED <<start, until>>
NextRound(p) == at' = p /\ start' = now /\ UNCHANGED until
WaitAt(p, t) == at' = p /\ until' = t /\ UNCHANGED start

Rest == start + interval - now

(* nn_send_loop: the send returns, with or without success.                  *)
SendLoop == /\ at = "send"
            /\ IF interval < 0 THEN Goto("close")
               ELSE IF Rest > 0 THEN WaitAt("send_sleep", start + interval)
               ELSE NextRound("send")
            /\ pending' = pending
            /\ Stay

SendSlept == /\ at = "send_sleep"
             /\ now >= until
             /\ NextRound("send")
             /\ pending' = pending
             /\ Stay

(* What nn_recv may do. A requester or surveyor that waits for nothing gets  *)
(* EFSM, a survey may expire; the answer to a request ends the waiting.      *)
Asks == type \in {"req", "surveyor"}
Message == /\ Asks => pending
           /\ pending' = (pending /\ type # "req")
NoMore == /\ Asks
          /\ ~pending \/ type = "surveyor"
          /\ pending' = FALSE

(* The test of errno is made of a message as well: with ETIMEDOUT or EFSM    *)
(* left there by an earlier call it ends the loop, and is not printed.       *)
RecvLoop == /\ at = "recv"
            /\ \/ Message /\ Goto("recv")
               \/ Message /\ Goto("close")
               \/ NoMore /\ Goto("close")
            /\ Stay

(* nn_rw_loop. A message that could not be sent leaves the socket as it was. *)
RwSend == /\ at = "rw_send"
          /\ pending' \in {pending, Asks}
          /\ Goto(IF interval < 0 THEN "recv" ELSE "rw_wait")
          /\ Stay

(* nn_set_recv_timeout takes its argument for seconds.                       *)
RecvTimeout(timeo) == timeo * PerSecond

(* Mutant of RwWait: the timeout is set although nothing is left of it.      *)
RwWaitAlways == /\ at = "rw_wait"
                /\ WaitAt("rw_recv", now + RecvTimeout(Rest))
                /\ pending' = pending
                /\ Stay

(* The inner loop: the rest of the interval, in milliseconds, as timeout.    *)
RwWait == /\ at = "rw_wait"
          /\ IF Rest <= 0 THEN NextRound("rw_send")
             ELSE WaitAt("rw_recv", now + RecvTimeout(Rest))
          /\ pending' = pending
          /\ Stay

(* Mutant of RwRecv: a message starts the next round at once.                *)
RwRecvHasty == /\ at = "rw_recv"
               /\ Message /\ NextRound("rw_send")
               /\ Stay

RwRecv == /\ at = "rw_recv"
          /\ \/ Message /\ Goto("rw_wait")
             \/ now >= until /\ pending' = pending /\ Goto("rw_wait")
             \/ NoMore /\ (IF Rest > 0 THEN WaitAt("rw_sleep", start + interval)
                           ELSE Goto("rw_wait"))
          /\ Stay

RwSlept == /\ at = "rw_sleep"
           /\ now >= until
           /\ Goto("rw_wait")
           /\ pending' = pending
           /\ Stay

(* nn_resp_loop.                                                             *)
RespRecv == at = "resp_recv" /\ Goto("resp_send") /\ pending' = pending /\ Stay
RespSend == at = "resp_send" /\ Goto("resp_recv") /\ pending' = pending /\ Stay

Close == at = "close" /\ Goto("exited") /\ pending' = pending /\ Stay

(* nn_recv with a timeout and nn_sleep return when their time has come.      *)
Tick == /\ now < MaxTime
        /\ \/ at \in {"send", "recv", "rw_send", "resp_recv", "resp_send"}
           \/ at \in {"send_sleep", "rw_recv", "rw_sleep"} /\ now < until
        /\ now' = now + 1
        /\ UNCHANGED <<optVars, setVars, filter, at, start, until, pending>>

Next == \/ Parse \/ Begin \/ SendLoop \/ SendSlept \/ RecvLoop
        \/ RwSend \/ RwWait \/ RwRecv \/ RwSlept \/ RespRecv \/ RespSend
        \/ Close \/ Tick

Spec == Init /\ [][Next]_vars

-----------------------------------------------------------------------------
Points == {"parse", "failed", "send", "send_sleep", "recv", "rw_send", "rw_wait",
           "rw_recv", "rw_sleep", "resp_recv", "resp_send", "close", "exited"}

TypeOK == /\ parse \in {"arg0", "args", "accepted", "refused", "helped", "stuck", "aborted"}
          /\ mask \subseteq Flag
          /\ given \in Seq(Option)
          /\ type \in SocketTypes \union {"none"}
          /\ data \in BOOLEAN /\ pending \in BOOLEAN
          /\ interval \in Intervals \union {-1}
          /\ prefixes \in Nat
          /\ filter \in {"nothing", "everything", "prefixes"}
          /\ at \in Points
          /\ now \in 0 .. MaxTime /\ start \in 0 .. now
          /\ until \in Nat

(* A command line that is accepted makes sense to the loops, in whatever     *)
(* order it was written: one socket type, one topology, data from one place  *)
(* at most and only for a socket that sends, with an interval only then, and *)
(* a format only for one that receives, prefixes only for a SUB socket.      *)
Uses(os) == Cardinality({i \in 1 .. Len(given) : given[i] \in os})
AcceptedSensible == parse = "accepted" =>
  /\ Uses(SocketTypes) = 1 /\ Uses({"topology"}) = 1 /\ Uses(DataSources) <= 1
  /\ Uses(DataSources \union {"interval"}) > 0 => type \in ReadWrite \union WriteOnly
  /\ Uses(Formats) > 0 => type \in ReadWrite \union ReadOnly
  /\ prefixes > 0 => type = "sub"

(* Every nn_send of the loops has data to send: what main chooses by the     *)
(* type relies on what the table of options demands of that type.            *)
SendsData == at \in {"send", "rw_send", "resp_send"} => data

(* "Send message (or request) every SEC seconds": never before the interval  *)
(* is over, whatever arrives meanwhile.                                      *)
NotTooOften == [][start' # start /\ at # "parse" => start' >= start + interval]_vars

(* The same sentence (tools/nanocat.c, --interval): nccat is not still       *)
(* waiting for messages when the next one should be sent.                    *)
SendsEvery == at = "rw_recv" => now <= start + interval
=============================================================================
