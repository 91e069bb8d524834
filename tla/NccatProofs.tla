---------------------------- MODULE NccatProofs ----------------------------
(* Theorems about Nccat, for every set of intervals, however long the        *)
(* command line is and however long the program runs.                        *)
EXTENDS Nccat, OptionsProofs, FiniteSetTheorems

-----------------------------------------------------------------------------
(* The table, read by its flags.                                             *)
LEMMA TableFacts ==
  ASSUME NEW o \in Option
  PROVE  /\ "SOCK" \in Provides[o] <=> o \in SocketTypes
         /\ "SOCK" \in Conflicts[o] <=> o \in SocketTypes
         /\ "WRITEABLE" \in Provides[o] <=> o \in ReadWrite \union WriteOnly
         /\ "READABLE" \in Provides[o] <=> o \in ReadWrite \union ReadOnly
         /\ "SOCK_SUB" \in Provides[o] <=> o = "sub"
         /\ "DATA" \in Provides[o] <=> o \in DataSources
         /\ "DATA" \in Conflicts[o] <=> o \in DataSources
         /\ "ENDPOINT" \in Provides[o] <=> o = "topology"
         /\ "ENDPOINT" \in Conflicts[o] <=> o = "topology"
  <1>1. o \in NccatOption /\ Provides[o] = NccatProvides[o] /\ Conflicts[o] = NccatConflicts[o]
    BY NccatTable DEF NccatTable
  <1>2. NccatProvides[o] =
          {f \in NccatFlag : \/ f = "SOCK" /\ o \in SocketTypes
                             \/ f = "WRITEABLE" /\ o \in ReadWrite \union WriteOnly
                             \/ f = "READABLE" /\ o \in ReadWrite \union ReadOnly
                             \/ f = "SOCK_SUB" /\ o = "sub"
                             \/ f = "DATA" /\ o \in DataSources
                             \/ f = "ENDPOINT" /\ o = "topology"}
    BY <1>1 DEF NccatProvides
  <1>3. NccatConflicts[o] =
          {f \in NccatFlag : \/ f = "SOCK" /\ o \in SocketTypes
                             \/ f = "DATA" /\ o \in DataSources
                             \/ f = "ENDPOINT" /\ o = "topology"}
    BY <1>1 DEF NccatConflicts
  <1> QED BY <1>1, <1>2, <1>3 DEF NccatFlag

LEMMA TableRequires ==
  ASSUME NEW o \in Option
  PROVE  /\ o \in WriteOnly \union {"req", "surveyor"} => "DATA" \in Requires[o]
         /\ o = "subscribe" => "SOCK_SUB" \in Requires[o]
         /\ o \in Formats => "READABLE" \in Requires[o]
         /\ o \in DataSources \union {"interval"} => "WRITEABLE" \in Requires[o]
  <1>1. o \in NccatOption /\ Requires[o] = NccatRequires[o]
    BY NccatTable DEF NccatTable
  <1>2. NccatRequires[o] =
          {f \in NccatFlag : \/ f = "DATA" /\ o \in WriteOnly \union {"req", "surveyor"}
                             \/ f = "SOCK_SUB" /\ o = "subscribe"
                             \/ f = "READABLE" /\ o \in Formats
                             \/ f = "WRITEABLE" /\ o \in DataSources \union {"interval"}}
    BY <1>1 DEF NccatRequires
  <1> QED BY <1>1, <1>2 DEF NccatFlag

LEMMA Kinds ==
  /\ ReadWrite \union WriteOnly \subseteq SocketTypes
  /\ ReadWrite \union ReadOnly \subseteq SocketTypes
  /\ "sub" \in SocketTypes /\ "none" \notin SocketTypes
  /\ SocketTypes \intersect DataSources = {}
  /\ "interval" \notin SocketTypes \union DataSources
  /\ "subscribe" \notin SocketTypes \union DataSources
  BY DEF SocketTypes, ReadWrite, WriteOnly, ReadOnly, DataSources

-----------------------------------------------------------------------------
(* What the variables say of the options that were given. It takes the       *)
(* parser's own invariant: the type is that of every option for a type,      *)
(* because there are no two of them.                                         *)

GivenAny(os) == \E i \in 1 .. Len(given) : given[i] \in os

SetByOptions == parse \in {"arg0", "args", "accepted"} =>
  /\ \A i \in 1 .. Len(given) : given[i] \in SocketTypes => type = given[i]
  /\ GivenAny(DataSources) => data
  /\ prefixes > 0 => GivenAny({"subscribe"})

(* Where the loops may be, and what a pause ends with.                       *)
LoopFits == /\ at \in {"send", "send_sleep"} => type \in WriteOnly
            /\ at \in {"rw_send", "rw_wait", "rw_recv", "rw_sleep"} =>
                 type \in {"surveyor", "req"} \/ data
            /\ at \in {"resp_recv", "resp_send"} => data
            /\ at # "parse" => parse = "accepted"
            /\ at = "send_sleep" => interval >= 0 /\ until = start + interval

NcInv == TypeOK /\ OptInv /\ SetByOptions /\ LoopFits

LEMMA Numbers ==
  ASSUME TypeOK
  PROVE  /\ now \in Nat /\ start \in Nat /\ start <= now /\ now <= MaxTime
         /\ interval \in Int /\ (interval = -1 \/ interval \in Nat) /\ until \in Nat
         /\ prefixes \in Nat
  BY NccatAssumption DEF NccatAssumption, TypeOK

LEMMA NcInit == Init => NcInv
  <1> SUFFICES ASSUME Init PROVE NcInv
    OBVIOUS
  <1>1. OptInit
    BY DEF Init
  <1>2. OptInv
    BY <1>1, Initially
  <1>3. Len(given) = 0 /\ given \in Seq(Option) /\ mask = {} /\ parse = "arg0"
    BY <1>1 DEF OptInit
  <1>4. TypeOK
    <2>1. now \in 0 .. MaxTime /\ start \in 0 .. now /\ until \in Nat /\ prefixes \in Nat
      BY NccatAssumption DEF Init, NccatAssumption
    <2>2. /\ type \in SocketTypes \union {"none"} /\ interval \in Intervals \union {-1}
          /\ filter \in {"nothing", "everything", "prefixes"} /\ at \in Points
          /\ data \in BOOLEAN /\ pending \in BOOLEAN
      BY DEF Init, Points
    <2>3. /\ parse \in {"arg0", "args", "accepted", "refused", "helped", "stuck", "aborted"}
          /\ mask \subseteq Flag /\ given \in Seq(Option)
      BY <1>3
    <2> QED BY <2>1, <2>2, <2>3 DEF TypeOK
  <1>5. SetByOptions
    BY <1>3 DEF Init, SetByOptions, GivenAny
  <1>6. LoopFits
    BY DEF Init, LoopFits
  <1> QED BY <1>2, <1>4, <1>5, <1>6 DEF NcInv

-----------------------------------------------------------------------------
(* What a step of the parser comes to: one more option, which does not       *)
(* conflict with those before it; the end of the line; or the end of the     *)
(* program.                                                                  *)
LEMMA ParseCases ==
  ASSUME OptInv, mask \subseteq Flag, OptNext
  PROVE  /\ parse \in {"arg0", "args"}
         /\ parse' \in {"args", "accepted", "refused", "helped", "stuck", "aborted"}
         /\ mask' \subseteq Flag
         /\ \/ \E o \in Option : /\ given' = Append(given, o) /\ parse' = "args"
                                 /\ ~Conflicting(o)
            \/ given' = given /\ parse' \in {"args", "accepted"}
            \/ parse' \in {"refused", "helped", "stuck", "aborted"}
  <1>1. ASSUME NEW o \in Option, NEW fits \in BOOLEAN, Process(o, fits)
        PROVE  /\ parse' \in {"args", "refused", "helped", "stuck", "aborted"}
               /\ mask' \subseteq Flag
               /\ parse' = "args" => given' = Append(given, o) /\ ~Conflicting(o)
    <2>1. Provides[o] \subseteq Flag
      BY OptionsAssumption DEF OptionsAssumption
    <2> QED BY <1>1, <2>1 DEF Process
  <1>2. CASE ParseArg0
    <2>1. Arg0 \subseteq Option
      BY OptionsAssumption DEF OptionsAssumption
    <2>2. \/ \E o \in Arg0 : Process(o, TRUE)
          \/ parse' = "args" /\ UNCHANGED <<mask, given>>
      BY <1>2 DEF ParseArg0
    <2>3. parse = "arg0"
      BY <1>2 DEF ParseArg0
    <2>4. CASE \E o \in Arg0 : Process(o, TRUE)
      BY <1>1, <2>1, <2>3, <2>4
    <2>5. CASE parse' = "args" /\ UNCHANGED <<mask, given>>
      BY <2>3, <2>5
    <2> QED BY <2>2, <2>4, <2>5
  <1>3. ASSUME NEW o \in Option, NEW attached \in BOOLEAN, NEW more \in BOOLEAN,
               NEW fits \in BOOLEAN, ParseOption(o, attached, more, fits)
        PROVE  /\ parse = "args" /\ parse' \in {"args", "refused", "helped", "stuck", "aborted"}
               /\ mask' \subseteq Flag
               /\ parse' = "args" => given' = Append(given, o) /\ ~Conflicting(o)
    <2>1. parse = "args" /\ (Refuse \/ Process(o, fits))
      BY <1>3 DEF ParseOption
    <2>2. CASE Refuse
      BY <2>1, <2>2 DEF Refuse
    <2>3. CASE Process(o, fits)
      BY <1>1, <2>1, <2>3
    <2> QED BY <2>1, <2>2, <2>3
  <1>4. CASE \E o \in Option, attached, more, fits \in BOOLEAN :
               ParseOption(o, attached, more, fits)
    <2>1. PICK o \in Option : /\ parse = "args" /\ parse' \in {"args", "refused", "helped", "stuck", "aborted"}
                              /\ mask' \subseteq Flag
                              /\ parse' = "args" => given' = Append(given, o) /\ ~Conflicting(o)
      BY <1>3, <1>4
    <2> QED BY <2>1
  <1>5. CASE ParseUnclear
    BY <1>5 DEF ParseUnclear, Refuse
  <1>6. CASE CheckRequires
    <2>1. parse = "args" /\ parse' \in {"accepted", "refused"} /\ UNCHANGED <<mask, given>>
      BY <1>6 DEF CheckRequires
    <2> QED BY <2>1
  <1> QED BY <1>2, <1>4, <1>5, <1>6 DEF OptNext

LEMMA TakenCases ==
  ASSUME given \in Seq(Option)
  PROVE  /\ \A o \in Option : given' = Append(given, o) /\ parse' = "args" =>
                                Taken = {o} /\ Last(given') = o
         /\ given' = given \/ parse' # "args" => Taken = {}
  <1>1. ASSUME NEW o \in Option, given' = Append(given, o), parse' = "args"
        PROVE  Taken = {o} /\ Last(given') = o
    <2>1. Len(Append(given, o)) = Len(given) + 1 /\ Len(given) \in Nat
          /\ Append(given, o)[Len(given) + 1] = o
      OBVIOUS
    <2>2. given' # given
      BY <1>1, <2>1
    <2>3. Last(given') = o
      BY <1>1, <2>1 DEF Last
    <2> QED BY <1>1, <2>2, <2>3 DEF Taken
  <1>2. given' = given \/ parse' # "args" => Taken = {}
    BY DEF Taken
  <1> QED BY <1>1, <1>2

LEMMA SetsTyped ==
  ASSUME TypeOK, OptInv, Parse
  PROVE  /\ type' \in SocketTypes \union {"none"} /\ data' \in BOOLEAN
         /\ interval' \in Intervals \union {-1} /\ prefixes' \in Nat
  <1>1. given \in Seq(Option) /\ mask \subseteq Flag
    BY DEF TypeOK
  <1>2. OptNext
    BY DEF Parse
  <1>3. Taken = {} \/ \E o \in Option : Taken = {o} /\ Last(given') = o
    BY <1>1, <1>2, ParseCases, TakenCases
  <1>4. type' = (IF Taken \intersect SocketTypes # {} THEN Last(given') ELSE type)
        /\ data' = (data \/ Taken \intersect DataSources # {})
        /\ interval' \in (IF "interval" \in Taken THEN Intervals ELSE {interval})
        /\ prefixes' = prefixes + Cardinality(Taken \intersect {"subscribe"})
    BY DEF Parse
  <1>5. type' \in SocketTypes \union {"none"}
    BY <1>3, <1>4 DEF TypeOK
  <1>6. data' \in BOOLEAN /\ interval' \in Intervals \union {-1}
    BY <1>4 DEF TypeOK
  <1>7. prefixes' \in Nat
    <2>1. IsFiniteSet(Taken \intersect {"subscribe"})
      BY FS_Singleton, FS_Subset
    <2>2. Cardinality(Taken \intersect {"subscribe"}) \in Nat
      BY <2>1, FS_CardinalityType
    <2> QED BY <1>4, <2>2 DEF TypeOK
  <1> QED BY <1>5, <1>6, <1>7

LEMMA SetsFit ==
  ASSUME NcInv, Parse PROVE SetByOptions'
  <1>1. /\ given \in Seq(Option) /\ mask \subseteq Flag /\ OptNext /\ OptInv
        /\ type \in SocketTypes \union {"none"} /\ prefixes \in Nat
    BY DEF NcInv, TypeOK, Parse
  <1>2. /\ type' = IF Taken \intersect SocketTypes # {} THEN Last(given') ELSE type
        /\ data' = (data \/ Taken \intersect DataSources # {})
        /\ prefixes' = prefixes + Cardinality(Taken \intersect {"subscribe"})
    BY DEF Parse
  <1>3. parse \in {"arg0", "args"}
    BY <1>1, ParseCases
  <1>4. /\ \A i \in 1 .. Len(given) : given[i] \in SocketTypes => type = given[i]
        /\ GivenAny(DataSources) => data
        /\ prefixes > 0 => GivenAny({"subscribe"})
        /\ mask = Provided
    BY <1>1, <1>3 DEF NcInv, SetByOptions, OptInv, MaskExact
  <1>5. CASE parse' \in {"refused", "helped", "stuck", "aborted"}
    BY <1>5 DEF SetByOptions
  <1>6. CASE given' = given
    <2>1. Taken = {}
      BY <1>1, <1>6, TakenCases
    <2>2. Cardinality(Taken \intersect {"subscribe"}) = 0
      BY <2>1, FS_EmptySet
    <2>3. type' = type /\ (data => data')
      BY <1>2, <2>1
    <2>4. prefixes' = prefixes
      BY <1>1, <1>2, <2>2
    <2> QED BY <1>4, <1>6, <2>3, <2>4 DEF SetByOptions, GivenAny
  <1>7. ASSUME NEW o \in Option, given' = Append(given, o), parse' = "args", ~Conflicting(o)
        PROVE  SetByOptions'
    <2> DEFINE n == Len(given)
    <2>1. /\ n \in Nat /\ Len(given') = n + 1 /\ given'[n + 1] = o
          /\ \A i \in 1 .. n : given'[i] = given[i] /\ i \in 1 .. n + 1 /\ given[i] \in Option
          /\ \A i \in 1 .. n + 1 : i \in 1 .. n \/ i = n + 1
          /\ n + 1 \in 1 .. n + 1
      BY <1>1, <1>7
    <2>2. Taken = {o} /\ Last(given') = o
      BY <1>1, <1>7, TakenCases
    <2>3. o \in SocketTypes => \A i \in 1 .. n : given[i] \notin SocketTypes
      <3> SUFFICES ASSUME o \in SocketTypes, NEW i \in 1 .. n, given[i] \in SocketTypes
                   PROVE  FALSE
        OBVIOUS
      <3>1. "SOCK" \in Conflicts[o] /\ "SOCK" \in Provides[given[i]]
        BY <2>1, TableFacts
      <3>2. "SOCK" \in mask
        BY <1>4, <3>1 DEF Provided
      <3> QED BY <1>7, <3>1, <3>2 DEF Conflicting
    <2> HIDE DEF n
    <2>4. \A i \in 1 .. Len(given') : given'[i] \in SocketTypes => type' = given'[i]
      <3>1. o \in SocketTypes => type' = o
        BY <1>2, <2>2
      <3>2. o \notin SocketTypes => type' = type
        BY <1>2, <2>2
      <3> QED BY <1>4, <2>1, <2>3, <3>1, <3>2 DEF n
    <2>5. GivenAny(DataSources)' => data'
      <3>1. ASSUME NEW i \in 1 .. Len(given'), given'[i] \in DataSources PROVE data'
        <4>1. CASE i \in 1 .. n
          <5>1. data
            BY <1>4, <2>1, <3>1, <4>1 DEF GivenAny, n
          <5> QED BY <1>2, <5>1
        <4>2. CASE i = n + 1
          BY <1>2, <2>1, <2>2, <3>1, <4>2
        <4> QED BY <2>1, <4>1, <4>2
      <3> QED BY <3>1 DEF GivenAny
    <2>6. prefixes' > 0 => GivenAny({"subscribe"})'
      <3>1. CASE o = "subscribe"
        BY <2>1, <3>1 DEF GivenAny
      <3>2. CASE o # "subscribe"
        <4>1. Taken \intersect {"subscribe"} = {}
          BY <2>2, <3>2
        <4>2. prefixes' = prefixes
          <5>1. Cardinality(Taken \intersect {"subscribe"}) = 0
            BY <4>1, FS_EmptySet
          <5> QED BY <1>1, <1>2, <5>1
        <4>3. ASSUME prefixes > 0 PROVE GivenAny({"subscribe"})'
          <5>1. PICK i \in 1 .. n : given[i] = "subscribe"
            BY <1>4, <4>3 DEF GivenAny, n
          <5> QED BY <2>1, <5>1 DEF GivenAny
        <4> QED BY <4>2, <4>3
      <3> QED BY <3>1, <3>2
    <2> QED BY <2>4, <2>5, <2>6 DEF SetByOptions
  <1> QED BY <1>1, <1>5, <1>6, <1>7, ParseCases

-----------------------------------------------------------------------------
(* The loops. What every action of theirs leaves alone and keeps in range;   *)
(* a round never begins before the interval of the last one is over.         *)
Turn == /\ at' \in Points /\ pending' \in BOOLEAN
        /\ now' \in 0 .. MaxTime /\ start' \in 0 .. now' /\ until' \in Nat
        /\ UNCHANGED <<optVars, setVars, filter>>
        /\ start' # start => start' >= start + interval

LEMMA TurnTyped == ASSUME TypeOK, Turn PROVE TypeOK'
  <1>1. /\ UNCHANGED <<parse, mask, given>> /\ UNCHANGED <<type, data, interval, prefixes>>
        /\ filter' = filter
    BY DEF Turn, optVars, setVars
  <1>2. at' \in Points /\ pending' \in BOOLEAN
    BY DEF Turn
  <1>3. now' \in 0 .. MaxTime /\ start' \in 0 .. now' /\ until' \in Nat
    BY DEF Turn
  <1> QED BY <1>1, <1>2, <1>3 DEF TypeOK

(* An answer, or nothing to wait for: pending stays a truth value.           *)
LEMMA Answers == ASSUME TypeOK, Message \/ NoMore PROVE pending' \in BOOLEAN
  <1>1. pending \in BOOLEAN
    BY DEF TypeOK
  <1>2. CASE Message
    <2>1. pending' = (pending /\ type # "req")
      BY <1>2 DEF Message
    <2> QED BY <1>1, <2>1
  <1>3. CASE NoMore
    BY <1>3 DEF NoMore
  <1> QED BY <1>2, <1>3

(* Where a step goes from the clock's point of view.                         *)
LEMMA Going ==
  ASSUME TypeOK, Stay, pending' \in BOOLEAN, NEW p \in Points, Goto(p)
  PROVE  Turn /\ at' = p /\ until' = until /\ start' = start
  <1>1. /\ now' = now /\ UNCHANGED <<optVars, setVars, filter>>
        /\ at' = p /\ start' = start /\ until' = until
    BY DEF Stay, Goto
  <1>2. now' \in 0 .. MaxTime /\ start' \in 0 .. now' /\ until' \in Nat
    BY <1>1 DEF TypeOK
  <1> QED BY <1>1, <1>2 DEF Turn

LEMMA Beginning ==
  ASSUME TypeOK, Stay, pending' \in BOOLEAN, NEW p \in Points, NextRound(p),
         now >= start + interval
  PROVE  Turn /\ at' = p
  <1>1. /\ now' = now /\ UNCHANGED <<optVars, setVars, filter>>
        /\ at' = p /\ start' = now /\ until' = until
    BY DEF Stay, NextRound
  <1>2. now' \in 0 .. MaxTime /\ start' \in 0 .. now' /\ until' \in Nat
    BY <1>1, Numbers DEF TypeOK
  <1>3. start' >= start + interval
    BY <1>1
  <1> QED BY <1>1, <1>2, <1>3 DEF Turn

LEMMA Waiting ==
  ASSUME TypeOK, Stay, pending' \in BOOLEAN, NEW p \in Points, NEW t \in Nat, WaitAt(p, t)
  PROVE  Turn /\ at' = p /\ until' = t /\ start' = start
  <1>1. /\ now' = now /\ UNCHANGED <<optVars, setVars, filter>>
        /\ at' = p /\ start' = start /\ until' = t
    BY DEF Stay, WaitAt
  <1>2. now' \in 0 .. MaxTime /\ start' \in 0 .. now' /\ until' \in Nat
    BY <1>1 DEF TypeOK
  <1> QED BY <1>1, <1>2 DEF Turn

LEMMA SameSets ==
  ASSUME Turn
  PROVE  type' = type /\ data' = data /\ interval' = interval /\ parse' = parse
  BY DEF Turn, setVars, optVars

(* nn_send_loop.                                                             *)
LEMMA SendTurns == ASSUME NcInv, SendLoop \/ SendSlept PROVE Turn /\ LoopFits'
  <1>1. TypeOK /\ type \in WriteOnly /\ parse = "accepted"
    BY DEF NcInv, LoopFits, SendLoop, SendSlept
  <1>2. /\ now \in Nat /\ start \in Nat /\ interval \in Int /\ (interval = -1 \/ interval \in Nat)
    BY <1>1, Numbers
  <1>3. Stay /\ pending' \in BOOLEAN
    BY <1>1 DEF SendLoop, SendSlept, TypeOK
  <1>4. {"send", "send_sleep", "close"} \subseteq Points
    BY DEF Points
  <1>5. ASSUME Turn, at' \in {"send", "close"} PROVE LoopFits'
    BY <1>1, <1>5, SameSets DEF LoopFits
  <1>6. CASE SendLoop
    <2>1. CASE interval < 0
      <3>1. Goto("close")
        BY <1>6, <2>1 DEF SendLoop
      <3> QED BY <1>1, <1>3, <1>4, <1>5, <3>1, Going
    <2>2. CASE ~(interval < 0) /\ Rest > 0
      <3>1. WaitAt("send_sleep", start + interval)
        BY <1>6, <2>2 DEF SendLoop
      <3>2. start + interval \in Nat /\ interval >= 0
        BY <1>2, <2>2
      <3>3. Turn /\ at' = "send_sleep" /\ until' = start + interval /\ start' = start
        BY <1>1, <1>3, <1>4, <3>1, <3>2, Waiting
      <3> QED BY <1>1, <3>2, <3>3, SameSets DEF LoopFits
    <2>3. CASE ~(interval < 0) /\ ~(Rest > 0)
      <3>1. NextRound("send")
        BY <1>6, <2>3 DEF SendLoop
      <3>2. now >= start + interval
        BY <1>2, <2>3 DEF Rest
      <3> QED BY <1>1, <1>3, <1>4, <1>5, <3>1, <3>2, Beginning
    <2> QED BY <2>1, <2>2, <2>3
  <1>7. CASE SendSlept
    <2>1. NextRound("send") /\ now >= until /\ until = start + interval
      BY <1>7 DEF SendSlept, NcInv, LoopFits
    <2> QED BY <1>1, <1>3, <1>4, <1>5, <2>1, Beginning
  <1> QED BY <1>6, <1>7

(* nn_recv_loop, nn_resp_loop and the end.                                   *)
LEMMA RecvTurns ==
  ASSUME NcInv, RecvLoop \/ RespRecv \/ RespSend \/ Close PROVE Turn /\ LoopFits'
  <1>1. TypeOK
    BY DEF NcInv
  <1>2. Stay
    BY DEF RecvLoop, RespRecv, RespSend, Close
  <1>3. pending' \in BOOLEAN
    <2>1. CASE RecvLoop
      BY <1>1, <2>1, Answers DEF RecvLoop
    <2>2. CASE RespRecv \/ RespSend \/ Close
      BY <1>1, <2>2 DEF RespRecv, RespSend, Close, TypeOK
    <2> QED BY <2>1, <2>2
  <1>4. {"recv", "close", "resp_send", "resp_recv", "exited"} \subseteq Points
    BY DEF Points
  <1>5. \/ at = "recv" /\ (Goto("recv") \/ Goto("close"))
        \/ at = "resp_recv" /\ Goto("resp_send")
        \/ at = "resp_send" /\ Goto("resp_recv")
        \/ at = "close" /\ Goto("exited")
    BY DEF RecvLoop, RespRecv, RespSend, Close
  <1>6. Turn /\ \/ at \in {"recv", "close"} /\ at' \in {"recv", "close", "exited"}
                \/ at \in {"resp_recv", "resp_send"} /\ at' \in {"resp_recv", "resp_send"}
    BY <1>1, <1>2, <1>3, <1>4, <1>5, Going
  <1> QED BY <1>6, SameSets DEF NcInv, LoopFits

(* nn_rw_loop.                                                               *)
LEMMA RwTurns ==
  ASSUME NcInv, RwSend \/ RwWait \/ RwRecv \/ RwSlept PROVE Turn /\ LoopFits'
  <1>1. /\ TypeOK /\ parse = "accepted"
        /\ type \in {"surveyor", "req"} \/ data
    BY DEF NcInv, LoopFits, RwSend, RwWait, RwRecv, RwSlept
  <1>2. /\ now \in Nat /\ start \in Nat /\ interval \in Int /\ until \in Nat
    BY <1>1, Numbers
  <1>3. Stay
    BY DEF RwSend, RwWait, RwRecv, RwSlept
  <1>4. {"recv", "rw_send", "rw_wait", "rw_recv", "rw_sleep"} \subseteq Points
    BY DEF Points
  <1>5. pending' \in BOOLEAN
    <2>1. CASE RwSend
      <3>1. pending \in BOOLEAN /\ Asks \in BOOLEAN
        BY <1>1 DEF TypeOK, Asks
      <3>2. pending' \in {pending, Asks}
        BY <2>1 DEF RwSend
      <3> QED BY <3>1, <3>2, Zenon
    <2>2. CASE RwWait \/ RwSlept
      BY <1>1, <2>2 DEF RwWait, RwSlept, TypeOK
    <2>3. CASE RwRecv
      <3>1. Message \/ NoMore \/ pending' = pending
        BY <2>3 DEF RwRecv
      <3> QED BY <1>1, <3>1, Answers DEF TypeOK
    <2> QED BY <2>1, <2>2, <2>3
  <1>6. ASSUME Turn, at' \in {"recv", "rw_send", "rw_wait", "rw_recv", "rw_sleep"}
        PROVE  LoopFits'
    BY <1>1, <1>6, SameSets DEF LoopFits
  <1>7. CASE RwSend
    <2>1. Goto("recv") \/ Goto("rw_wait")
      BY <1>7 DEF RwSend
    <2> QED BY <1>1, <1>3, <1>4, <1>5, <1>6, <2>1, Going
  <1>8. CASE RwWait
    <2>1. CASE Rest <= 0
      <3>1. NextRound("rw_send")
        BY <1>8, <2>1 DEF RwWait
      <3>2. now >= start + interval
        BY <1>2, <2>1 DEF Rest
      <3> QED BY <1>1, <1>3, <1>4, <1>5, <1>6, <3>1, <3>2, Beginning
    <2>2. CASE ~(Rest <= 0)
      <3>1. WaitAt("rw_recv", now + RecvTimeout(Rest))
        BY <1>8, <2>2 DEF RwWait
      <3>2. Rest \in Nat
        BY <1>2, <2>2 DEF Rest
      <3>3. PerSecond \in Nat
        BY NccatAssumption DEF NccatAssumption
      <3> HIDE DEF Rest
      <3>4. Rest * PerSecond \in Nat
        BY <3>2, <3>3
      <3>5. now + RecvTimeout(Rest) \in Nat
        BY <1>2, <3>4 DEF RecvTimeout
      <3> QED BY <1>1, <1>3, <1>4, <1>5, <1>6, <3>1, <3>5, Waiting
    <2> QED BY <2>1, <2>2
  <1>9. CASE RwRecv
    <2>1. Goto("rw_wait") \/ (Rest > 0 /\ WaitAt("rw_sleep", start + interval))
      BY <1>9 DEF RwRecv
    <2>2. Rest > 0 => start + interval \in Nat
      BY <1>2 DEF Rest
    <2>3. CASE Goto("rw_wait")
      BY <1>1, <1>3, <1>4, <1>5, <1>6, <2>3, Going
    <2>4. CASE Rest > 0 /\ WaitAt("rw_sleep", start + interval)
      BY <1>1, <1>3, <1>4, <1>5, <1>6, <2>2, <2>4, Waiting
    <2> QED BY <2>1, <2>3, <2>4
  <1>10. CASE RwSlept
    BY <1>1, <1>3, <1>4, <1>5, <1>6, <1>10, Going DEF RwSlept
  <1> QED BY <1>7, <1>8, <1>9, <1>10

LEMMA TickTurns == ASSUME NcInv, Tick PROVE Turn /\ LoopFits'
  <1>1. TypeOK /\ now < MaxTime /\ now' = now + 1
        /\ UNCHANGED <<optVars, setVars, filter, at, start, until, pending>>
    BY DEF NcInv, Tick
  <1>2. now' \in 0 .. MaxTime /\ start' \in 0 .. now' /\ until' \in Nat
    BY <1>1, Numbers, NccatAssumption DEF NccatAssumption
  <1>3. at' \in Points /\ pending' \in BOOLEAN
    BY <1>1 DEF TypeOK
  <1>4. Turn
    BY <1>1, <1>2, <1>3 DEF Turn
  <1> QED BY <1>1, <1>4, SameSets DEF NcInv, LoopFits

-----------------------------------------------------------------------------
(* What an accepted line gives the loops.                                    *)
LEMMA AcceptedGives ==
  ASSUME NcInv, parse = "accepted"
  PROVE  /\ Compatible /\ given \in Seq(Option)
         /\ \A i \in 1 .. Len(given) : given[i] \in Option
         /\ \E k \in 1 .. Len(given) : given[k] \in SocketTypes /\ type = given[k]
         /\ type \in WriteOnly \union {"req", "surveyor"} => data
  <1>1. Compatible
    BY Enough DEF NcInv, AcceptedCompatible
  <1>2. given \in Seq(Option) /\ \A i \in 1 .. Len(given) : given[i] \in Option
    <2>1. given \in Seq(Option)
      BY DEF NcInv, TypeOK
    <2> QED BY <2>1
  <1>3. \A i \in 1 .. Len(given) : given[i] \in SocketTypes => type = given[i]
    BY DEF NcInv, SetByOptions
  <1>4. PICK k \in 1 .. Len(given) : "SOCK" \in Provides[given[k]]
    <2>1. "SOCK" \in Required
      BY NccatTable DEF NccatTable, NccatRequired
    <2> QED BY <1>1, <2>1 DEF Compatible, Provided
  <1>5. given[k] \in SocketTypes /\ type = given[k]
    BY <1>2, <1>3, <1>4, TableFacts
  <1>6. type \in WriteOnly \union {"req", "surveyor"} => data
    <2> SUFFICES ASSUME type \in WriteOnly \union {"req", "surveyor"} PROVE data
      OBVIOUS
    <2>1. "DATA" \in Requires[given[k]]
      BY <1>2, <1>5, TableRequires
    <2>2. PICK m \in 1 .. Len(given) : "DATA" \in Provides[given[m]]
      BY <1>1, <2>1 DEF Compatible, Provided
    <2>3. given[m] \in DataSources
      BY <1>2, <2>2, TableFacts
    <2> QED BY <2>3 DEF NcInv, SetByOptions, GivenAny
  <1> QED BY <1>1, <1>2, <1>5, <1>6

LEMMA ParseKeeps == ASSUME NcInv, Parse PROVE NcInv'
  <1>1. OptInv /\ TypeOK /\ at = "parse" /\ OptNext /\ mask \subseteq Flag
    BY DEF NcInv, TypeOK, Parse
  <1>2. OptInv'
    BY <1>1, Step
  <1>3. SetByOptions'
    BY SetsFit
  <1>4. UNCHANGED <<filter, at, now, start, until, pending>>
    BY DEF Parse, loopVars
  <1>5. LoopFits'
    BY <1>1, <1>4 DEF LoopFits
  <1>6. parse' \in {"arg0", "args", "accepted", "refused", "helped", "stuck", "aborted"} /\ mask' \subseteq Flag
    BY <1>1, ParseCases
  <1>7. given' \in Seq(Option)
    BY <1>2 DEF OptInv
  <1>8. /\ type' \in SocketTypes \union {"none"} /\ data' \in BOOLEAN
        /\ interval' \in Intervals \union {-1} /\ prefixes' \in Nat
    BY <1>1, SetsTyped
  <1>9. /\ filter' \in {"nothing", "everything", "prefixes"}
        /\ at' \in Points /\ now' \in 0 .. MaxTime /\ start' \in 0 .. now'
        /\ until' \in Nat /\ pending' \in BOOLEAN
    BY <1>1, <1>4 DEF TypeOK
  <1>10. TypeOK'
    BY <1>6, <1>7, <1>8, <1>9 DEF TypeOK
  <1> QED BY <1>2, <1>3, <1>5, <1>10 DEF NcInv

(* Every loop is entered with what it needs.                                 *)
LEMMA FirstFits ==
  ASSUME TypeOK
  PROVE  /\ FirstPoint \in {"send", "rw_send", "resp_recv", "recv"}
         /\ FirstPoint = "send" => type \in WriteOnly
         /\ FirstPoint = "rw_send" => type \in {"surveyor", "req"} \/ data
         /\ FirstPoint = "resp_recv" => data
  <1>1. CASE type \in WriteOnly
    BY <1>1 DEF FirstPoint, WriteOnly
  <1>2. CASE type \in {"surveyor", "req"}
    BY <1>2 DEF FirstPoint, WriteOnly
  <1>3. CASE type \in {"bus", "pair"} /\ data
    BY <1>3 DEF FirstPoint, WriteOnly
  <1>4. CASE type \in {"rep", "respondent"} /\ data
    BY <1>4 DEF FirstPoint, WriteOnly
  <1>5. CASE /\ type \notin WriteOnly /\ type \notin {"surveyor", "req"}
             /\ ~(type \in {"bus", "pair"} /\ data)
             /\ ~(type \in {"rep", "respondent"} /\ data)
    <2>1. FirstPoint = "recv"
      BY <1>5 DEF FirstPoint
    <2> QED BY <2>1
  <1> QED BY <1>1, <1>2, <1>3, <1>4, <1>5

LEMMA BeginKeeps == ASSUME NcInv, Begin PROVE NcInv'
  <1>1. /\ TypeOK /\ OptInv /\ SetByOptions /\ parse = "accepted"
        /\ at' \in {FirstPoint, "failed"} /\ start' = now
        /\ UNCHANGED <<optVars, setVars, now, until, pending>>
        /\ filter' \in {"nothing", "everything", "prefixes"}
    BY DEF NcInv, Begin
  <1>2. /\ parse' = parse /\ mask' = mask /\ given' = given
        /\ type' = type /\ data' = data /\ interval' = interval /\ prefixes' = prefixes
    BY <1>1 DEF optVars, setVars
  <1>3. /\ FirstPoint \in {"send", "rw_send", "resp_recv", "recv"}
        /\ FirstPoint = "send" => type \in WriteOnly
        /\ FirstPoint = "rw_send" => type \in {"surveyor", "req"} \/ data
        /\ FirstPoint = "resp_recv" => data
    BY <1>1, FirstFits
  <1>4. LoopFits'
    BY <1>1, <1>2, <1>3 DEF LoopFits
  <1>5. now' \in 0 .. MaxTime /\ start' \in 0 .. now' /\ until' \in Nat /\ pending' \in BOOLEAN
    BY <1>1, Numbers DEF TypeOK
  <1>6. at' \in Points
    BY <1>1, <1>3 DEF Points
  <1>7. TypeOK'
    BY <1>1, <1>2, <1>5, <1>6 DEF TypeOK
  <1>8. OptInv'
    BY <1>1, Step
  <1>9. SetByOptions'
    BY <1>1, <1>2 DEF SetByOptions, GivenAny
  <1> QED BY <1>4, <1>7, <1>8, <1>9 DEF NcInv

LEMMA TurnKeeps == ASSUME NcInv, Turn, LoopFits' PROVE NcInv'
  <1>1. TypeOK'
    BY TurnTyped DEF NcInv
  <1>2. OptInv'
    BY Step DEF NcInv, Turn
  <1>3. SetByOptions'
    BY DEF NcInv, SetByOptions, GivenAny, Turn, optVars, setVars
  <1> QED BY <1>1, <1>2, <1>3 DEF NcInv

LEMMA NcStep == ASSUME NcInv, [Next]_vars PROVE NcInv'
  <1>1. CASE UNCHANGED vars
    <2>1. /\ UNCHANGED optVars
          /\ UNCHANGED <<type, data, interval, prefixes, parse, mask, given>>
          /\ UNCHANGED <<filter, at, now, start, until, pending>>
      BY <1>1 DEF vars, optVars, setVars, loopVars
    <2>2. OptInv'
      BY <2>1, Step DEF NcInv
    <2>3. TypeOK'
      BY <2>1 DEF NcInv, TypeOK
    <2>4. SetByOptions' /\ LoopFits'
      BY <2>1 DEF NcInv, SetByOptions, GivenAny, LoopFits
    <2> QED BY <2>2, <2>3, <2>4 DEF NcInv
  <1> QED BY <1>1, ParseKeeps, BeginKeeps, SendTurns, RecvTurns, RwTurns, TickTurns, TurnKeeps
          DEF Next

LEMMA AlwaysNcInv == Spec => []NcInv
  <1>1. NcInv /\ [Next]_vars => NcInv'
    BY NcStep
  <1> QED BY NcInit, <1>1, PTL DEF Spec

(* The variables of main and of the parser keep their types.                 *)
THEOREM NccatTyped == Spec => []TypeOK
  <1>1. NcInv => TypeOK
    BY DEF NcInv
  <1> QED BY <1>1, AlwaysNcInv, PTL

(* The parser's own theorem, of the program that contains it: what nccat     *)
(* accepts is free of conflicts and provides all that is required.           *)
THEOREM NccatCompatible == Spec => []AcceptedCompatible
  <1>1. NcInv => AcceptedCompatible
    BY Enough DEF NcInv
  <1> QED BY <1>1, AlwaysNcInv, PTL

(* Wherever one of the loops calls nn_send there is something to send: the   *)
(* table of options demands it of every type for which main does not ask.    *)
THEOREM AlwaysData == Spec => []SendsData
  <1>1. ASSUME NcInv PROVE SendsData
    <2>1. parse = "accepted" => (type \in WriteOnly \union {"req", "surveyor"} => data)
      BY <1>1, AcceptedGives
    <2>2. LoopFits
      BY <1>1 DEF NcInv
    <2> QED BY <2>1, <2>2 DEF LoopFits, SendsData
  <1> QED BY <1>1, AlwaysNcInv, PTL

(* However messages and timeouts fall, a message is never sent before the    *)
(* interval since the last one is over.                                      *)
THEOREM IntervalKept == Spec => NotTooOften
  <1> DEFINE Late == start' # start /\ at # "parse" => start' >= start + interval
  <1>1. ASSUME NcInv, [Next]_vars PROVE Late \/ UNCHANGED vars
    <2>1. Turn => Late
      BY DEF Turn
    <2>2. Parse \/ Begin => Late
      BY DEF Parse, Begin
    <2> HIDE DEF Late
    <2> QED BY <1>1, <2>1, <2>2, SendTurns, RecvTurns, RwTurns, TickTurns DEF Next
  <1> QED BY <1>1, AlwaysNcInv, PTL DEF Spec, NotTooOften

-----------------------------------------------------------------------------
(* Counting the uses of options.                                             *)
LEMMA UsesCounted ==
  ASSUME given \in Seq(Option), NEW os
  PROVE  /\ Uses(os) \in Nat
         /\ Uses(os) > 0 => GivenAny(os)
         /\ (\A i, j \in 1 .. Len(given) : given[i] \in os /\ given[j] \in os => i = j)
              => Uses(os) = IF GivenAny(os) THEN 1 ELSE 0
  <1> DEFINE U == {i \in 1 .. Len(given) : given[i] \in os}
  <1>1. Uses(os) = Cardinality(U)
    BY DEF Uses
  <1>2. ASSUME ~GivenAny(os) PROVE Uses(os) = 0
    <2>1. U = {}
      BY <1>2 DEF GivenAny
    <2> QED BY <1>1, <2>1, FS_EmptySet
  <1>3. ASSUME GivenAny(os),
               \A i, j \in 1 .. Len(given) : given[i] \in os /\ given[j] \in os => i = j
        PROVE  Uses(os) = 1
    <2>1. PICK i \in 1 .. Len(given) : given[i] \in os
      BY <1>3 DEF GivenAny
    <2>2. U = {i}
      BY <1>3, <2>1
    <2> QED BY <1>1, <2>2, FS_Singleton
  <1>4. Uses(os) \in Nat
    <2>1. Len(given) \in Int /\ 1 \in Int
      OBVIOUS
    <2>2. IsFiniteSet(1 .. Len(given)) /\ U \subseteq 1 .. Len(given)
      BY <2>1, FS_Interval
    <2>3. IsFiniteSet(U)
      BY <2>2, FS_Subset
    <2> QED BY <1>1, <2>3, FS_CardinalityType
  <1> QED BY <1>2, <1>3, <1>4

(* Options that provide a flag and conflict with it exclude each other.      *)
LEMMA OneOfFlag ==
  ASSUME Compatible, \A i \in 1 .. Len(given) : given[i] \in Option,
         NEW os, NEW f,
         \A o \in Option : /\ f \in Provides[o] <=> o \in os
                           /\ f \in Conflicts[o] <=> o \in os
  PROVE  \A i, j \in 1 .. Len(given) : given[i] \in os /\ given[j] \in os => i = j
  <1> SUFFICES ASSUME NEW i \in 1 .. Len(given), NEW j \in 1 .. Len(given),
                      given[i] \in os, given[j] \in os, i # j
               PROVE  FALSE
    OBVIOUS
  <1>1. f \in Conflicts[given[i]] /\ f \in Provides[given[j]]
    OBVIOUS
  <1>2. Conflicts[given[i]] \intersect Provides[given[j]] = {}
    BY DEF Compatible
  <1> QED BY <1>1, <1>2

(* Some option provides what an option or the program requires.              *)
LEMMA SomeProvides ==
  ASSUME Compatible, NEW f,
         f \in Required \/ \E i \in 1 .. Len(given) : f \in Requires[given[i]]
  PROVE  \E k \in 1 .. Len(given) : f \in Provides[given[k]]
  <1>1. f \in Provided
    BY DEF Compatible
  <1> QED BY <1>1 DEF Provided

(* Whatever the order of its options, a command line that is accepted is one *)
(* the loops can work with: one socket type, one topology, data at most      *)
(* once, and no option that is meant for another type of socket.             *)
THEOREM AcceptedMakesSense == Spec => []AcceptedSensible
  <1>1. ASSUME NcInv PROVE AcceptedSensible
    <2> SUFFICES ASSUME parse = "accepted"
                 PROVE  /\ Uses(SocketTypes) = 1 /\ Uses({"topology"}) = 1
                        /\ Uses(DataSources) <= 1
                        /\ Uses(DataSources \union {"interval"}) > 0
                             => type \in ReadWrite \union WriteOnly
                        /\ Uses(Formats) > 0 => type \in ReadWrite \union ReadOnly
                        /\ prefixes > 0 => type = "sub"
      BY DEF AcceptedSensible
    <2>1. /\ Compatible /\ given \in Seq(Option)
          /\ \A i \in 1 .. Len(given) : given[i] \in Option
          /\ \E k \in 1 .. Len(given) : given[k] \in SocketTypes /\ type = given[k]
      BY <1>1, AcceptedGives
    <2>2. /\ \A i \in 1 .. Len(given) : given[i] \in SocketTypes => type = given[i]
          /\ prefixes > 0 => GivenAny({"subscribe"})
      BY <1>1 DEF NcInv, SetByOptions
    <2>3. Uses(SocketTypes) = 1
      <3>1. \A o \in Option : /\ "SOCK" \in Provides[o] <=> o \in SocketTypes
                              /\ "SOCK" \in Conflicts[o] <=> o \in SocketTypes
        BY TableFacts
      <3>2. \A i, j \in 1 .. Len(given) :
              given[i] \in SocketTypes /\ given[j] \in SocketTypes => i = j
        BY <2>1, <3>1, OneOfFlag
      <3>3. GivenAny(SocketTypes)
        BY <2>1 DEF GivenAny
      <3> QED BY <2>1, <3>2, <3>3, UsesCounted
    <2>4. Uses({"topology"}) = 1
      <3>1. \A o \in Option : /\ "ENDPOINT" \in Provides[o] <=> o \in {"topology"}
                              /\ "ENDPOINT" \in Conflicts[o] <=> o \in {"topology"}
        BY TableFacts
      <3>2. \A i, j \in 1 .. Len(given) :
              given[i] \in {"topology"} /\ given[j] \in {"topology"} => i = j
        BY <2>1, <3>1, OneOfFlag
      <3>3. "ENDPOINT" \in Required
        BY NccatTable DEF NccatTable, NccatRequired
      <3>4. PICK k \in 1 .. Len(given) : "ENDPOINT" \in Provides[given[k]]
        BY <2>1, <3>3, SomeProvides
      <3>5. GivenAny({"topology"})
        BY <2>1, <3>1, <3>4 DEF GivenAny
      <3> QED BY <2>1, <3>2, <3>5, UsesCounted
    <2>5. Uses(DataSources) <= 1
      <3>1. \A o \in Option : /\ "DATA" \in Provides[o] <=> o \in DataSources
                              /\ "DATA" \in Conflicts[o] <=> o \in DataSources
        BY TableFacts
      <3>2. \A i, j \in 1 .. Len(given) :
              given[i] \in DataSources /\ given[j] \in DataSources => i = j
        BY <2>1, <3>1, OneOfFlag
      <3>3. Uses(DataSources) = IF GivenAny(DataSources) THEN 1 ELSE 0
        BY <2>1, <3>2, UsesCounted
      <3> QED BY <3>3
    <2>6. ASSUME Uses(DataSources \union {"interval"}) > 0
          PROVE  type \in ReadWrite \union WriteOnly
      <3>1. PICK i \in 1 .. Len(given) : given[i] \in DataSources \union {"interval"}
        BY <2>1, <2>6, UsesCounted DEF GivenAny
      <3>2. "WRITEABLE" \in Requires[given[i]]
        BY <2>1, <3>1, TableRequires
      <3>3. PICK k \in 1 .. Len(given) : "WRITEABLE" \in Provides[given[k]]
        BY <2>1, <3>2, SomeProvides
      <3>4. given[k] \in ReadWrite \union WriteOnly
        BY <2>1, <3>3, TableFacts
      <3> QED BY <2>2, <3>4, Kinds
    <2>7. ASSUME Uses(Formats) > 0 PROVE type \in ReadWrite \union ReadOnly
      <3>1. PICK i \in 1 .. Len(given) : given[i] \in Formats
        BY <2>1, <2>7, UsesCounted DEF GivenAny
      <3>2. "READABLE" \in Requires[given[i]]
        BY <2>1, <3>1, TableRequires
      <3>3. PICK k \in 1 .. Len(given) : "READABLE" \in Provides[given[k]]
        BY <2>1, <3>2, SomeProvides
      <3>4. given[k] \in ReadWrite \union ReadOnly
        BY <2>1, <3>3, TableFacts
      <3> QED BY <2>2, <3>4, Kinds
    <2>8. ASSUME prefixes > 0 PROVE type = "sub"
      <3>1. PICK i \in 1 .. Len(given) : given[i] = "subscribe"
        BY <2>2, <2>8 DEF GivenAny
      <3>2. "SOCK_SUB" \in Requires[given[i]]
        BY <2>1, <3>1, TableRequires
      <3>3. PICK k \in 1 .. Len(given) : "SOCK_SUB" \in Provides[given[k]]
        BY <2>1, <3>2, SomeProvides
      <3>4. given[k] = "sub"
        BY <2>1, <3>3, TableFacts
      <3> QED BY <2>2, <3>4, Kinds
    <2> QED BY <2>3, <2>4, <2>5, <2>6, <2>7, <2>8
  <1> QED BY <1>1, AlwaysNcInv, PTL
=============================================================================
