------------------------------ MODULE NcReply ------------------------------
(* What nc_parse_and_apply (src/src/worker.c) reads from a reply and in      *)
(* which order it acts on it: one action per option, address and topic. The  *)
(* log holds what it does with them: options set, endpoints and topics taken *)
(* into the lists, whose later treatment is the subject of NcApply.          *)
EXTENDS ReplyText

CONSTANTS Texts,       \* replies as their authors wrote them: see ReplyText
          Replies      \* the messages that may come: see below

(* A message comes with what its author meant: "meant" is the log of a       *)
(* worker that does as the message says, "whole" tells that nothing of the   *)
(* message is missing, "plain" that it is, or is the beginning of, a text    *)
(* that the worker should understand.                                        *)
ASSUME ReplyAssumption ==
  /\ \A w \in Texts : WellWritten(w)
  /\ \A r \in Replies :
       /\ DOMAIN r = {"bytes", "meant", "whole", "plain"}
       /\ r.bytes \in Seq(Byte)
       /\ r.plain => \E w \in Texts : /\ BeginningOf(r.bytes, w) /\ r.meant = w.meant
                                     /\ (r.whole <=> Complete(r.bytes, w))

VARIABLES msg,     \* the reply
          c,       \* buf and buflen
          phase,   \* what is read next, or the verdict
          ralen,   \* elements of the reply
          left,    \* options or topics of the current mapping or array to come
          rest,    \* values to skip, or elements of an option's value, to come
          num,     \* addressnum
          i,       \* index of the address
          tuple,   \* the address: its elements, kind, transport
          optid,   \* the option set last, kept when a name is not found
          optlev,  \* its level
          log      \* what has been done

vars == <<msg, c, phase, ralen, left, rest, num, i, tuple, optid, optlev, log>>

M == msg.bytes
NoTuple == [kind |-> -1, addr |-> <<>>, transport |-> <<>>]

Init == /\ msg \in Replies
        /\ c = [at |-> 1, len |-> Len(M)]
        /\ phase = "head"
        /\ ralen = 0 /\ left = 0 /\ rest = 0 /\ num = 0 /\ i = 0
        /\ tuple = NoTuple
        /\ optid = <<>> /\ optlev = SolSocket
        /\ log = <<>>

Stop(verdict) == /\ phase' = verdict
                 /\ UNCHANGED <<msg, c, ralen, left, rest, num, i, tuple, optid, optlev, log>>
Refuse == Stop("refused")    \* return 0

(* Where a string does not parse or a value cannot be skipped, or the code   *)
(* believes it did and goes on somewhere else.                               *)
Reject(res) == Stop(IF res = Astray THEN "astray" ELSE "refused")

(* An error reply only matters to the log of messages. The test of its text  *)
(* is inverted: text that does not parse is printed, from a pointer that was *)
(* never set.                                                                *)
ErrorReply(n, r) ==
  LET code == nc_mp_parse_int(M, r) IN
  IF n < 3 \/ ~code.ok THEN Refuse
  ELSE IF nc_mp_parse_string(M, code.next) # Fail THEN Refuse
  ELSE Stop("refused") \/ Stop("crashed")

Begin ==
  /\ phase = "head"
  /\ LET arr == nc_mp_parse_array(M, c)
         code == nc_mp_parse_int(M, arr.next)
         opts == nc_mp_parse_mapping(M, code.next) IN
       IF ~arr.ok THEN Refuse
       ELSE IF ~code.ok THEN Refuse
       ELSE IF code.val = 0 THEN ErrorReply(arr.val, code.next)
       ELSE IF code.val # 1 \/ arr.val < 3 THEN Refuse
       ELSE IF ~opts.ok THEN Refuse
       ELSE /\ phase' = "options"
            /\ ralen' = arr.val
            /\ left' = opts.val
            /\ c' = opts.next
            /\ UNCHANGED <<msg, rest, num, i, tuple, optid, optlev, log>>

-----------------------------------------------------------------------------
(* An option of the socket or of an address is done with.                    *)
NextOption == /\ phase' = IF tuple = NoTuple THEN "options" ELSE "address options"
              /\ left' = left - 1

(* A number or a string, which is what nn_setsockopt takes.                  *)
Scalar(r) == LET int == nc_mp_parse_int(M, r)
                 str == nc_mp_parse_string(M, r) IN
             IF int.ok THEN Got([int |-> int.val], int.next)
             ELSE IF str.ok THEN Got([str |-> str.val], str.next)
             ELSE str

(* One value is set at once, those of an array follow one by one.            *)
nc_parse_and_set_option(lev, id, r) ==
  LET one == Scalar(r)
      arr == nc_mp_parse_array(M, r) IN
  IF one.ok
    THEN /\ log' = Append(log, SetCall(lev, id, one.val))
         /\ c' = one.next
         /\ optid' = id
         /\ NextOption
         /\ UNCHANGED <<msg, ralen, rest, num, i, tuple, optlev>>
  ELSE IF arr.ok
    THEN /\ phase' = "values"
         /\ rest' = arr.val
         /\ c' = arr.next
         /\ optid' = id
         /\ optlev' = lev
         /\ UNCHANGED <<msg, ralen, left, num, i, tuple, log>>
  ELSE Reject(one)

(* What is neither number nor string is not even skipped.                    *)
Element ==
  /\ phase = "values"
  /\ rest > 0
  /\ LET v == Scalar(c) IN
       IF v = Astray THEN Reject(v)
       ELSE /\ IF v.ok THEN c' = v.next /\ log' = Append(log, SetCall(optlev, optid, v.val))
               ELSE UNCHANGED <<c, log>>
            /\ rest' = rest - 1
            /\ UNCHANGED <<msg, phase, ralen, left, num, i, tuple, optid, optlev>>

ElementsEnd == /\ phase = "values"
               /\ rest <= 0
               /\ NextOption
               /\ UNCHANGED <<msg, c, ralen, rest, num, i, tuple, optid, optlev, log>>

(* Skip n values and what they contain.                                      *)
StartSkip(n, r) == /\ phase' = "skip"
                   /\ rest' = n
                   /\ c' = r
                   /\ UNCHANGED <<msg, ralen, left, num, i, tuple, optid, optlev, log>>

Skip == /\ phase = "skip"
        /\ rest > 0
        /\ LET over == nc_mp_skip_value(M, c) IN
             IF ~over.ok THEN Reject(over)
             ELSE /\ c' = over.next
                  /\ rest' = rest - 1 + over.val
                  /\ UNCHANGED <<msg, phase, ralen, left, num, i, tuple, optid, optlev, log>>

Known(name) == name \in DOMAIN Symbols
Owned(name, owner) == Known(name) /\ Symbols[name].owner = owner
                      /\ Symbols[name].len > ProtocolLen

(* Mutant of SocketLevel: the level of the protocol is forgotten.            *)
GenericLevel(name) == SolSocket
SocketLevel(name) == IF Owned(name, Protocol) THEN Protocol ELSE SolSocket

(* An option of the socket; an unknown one is skipped with its value.        *)
SocketOption ==
  /\ phase = "options"
  /\ left > 0
  /\ LET key == nc_mp_parse_string(M, c) IN
       IF ~key.ok THEN Reject(key)
       ELSE IF Known(key.val)
         THEN nc_parse_and_set_option(SocketLevel(key.val), key.val, key.next)
       ELSE StartSkip(1, key.next)

SocketSkipped == /\ phase = "skip"
                 /\ rest = 0
                 /\ tuple = NoTuple
                 /\ NextOption
                 /\ UNCHANGED <<msg, c, ralen, rest, num, i, tuple, optid, optlev, log>>

AddressList ==
  /\ phase = "options"
  /\ left <= 0
  /\ LET arr == nc_mp_parse_array(M, c) IN
       IF ~arr.ok THEN Refuse
       ELSE /\ num' = arr.val
            /\ i' = 0
            /\ c' = arr.next
            /\ phase' = "addresses"
            /\ UNCHANGED <<msg, ralen, left, rest, tuple, optid, optlev, log>>

-----------------------------------------------------------------------------
(* strchr (addr, ':') stops at a byte 0 of the message, not at the end of    *)
(* the string, and behind the message it may find anything.                  *)
Stops(at) == {k \in at .. Len(M) : M[k] \in {Colon, 0}}
ColonAt(at) == IF Stops(at) = {} THEN {0, Len(M) + 1}
               ELSE {IF M[Min(Stops(at))] = Colon THEN Min(Stops(at)) ELSE 0}

(* for (j = 2; i < tuplelen; ++j): the index of the address decides, and     *)
(* nothing in the loop changes it, so it skips until that fails: as if it    *)
(* had to skip more values than the message has bytes.                       *)
SkipTransport(n, r) ==
  IF i < n THEN StartSkip(Len(M) + 1, r)
  ELSE /\ c' = r
       /\ i' = i + 1
       /\ UNCHANGED <<msg, phase, ralen, left, rest, num, tuple, optid, optlev, log>>

TakeAddress(kind, addr, r) ==
  /\ log' = Append(log, Endpoint(kind, addr))
  /\ c' = r
  /\ i' = i + 1
  /\ phase' = "addresses"
  /\ left' = 0

WithOptions(kind, addr, transport, r) ==
  LET opts == nc_mp_parse_mapping(M, r) IN
  IF ~opts.ok THEN Refuse
  ELSE /\ tuple' = [kind |-> kind, addr |-> addr, transport |-> transport]
       /\ left' = opts.val
       /\ c' = opts.next
       /\ phase' = "address options"
       /\ UNCHANGED <<msg, ralen, rest, num, i, optid, optlev, log>>

(* A tuple of kind, address and maybe options.                               *)
Address ==
  /\ phase = "addresses"
  /\ i < num
  /\ LET n == nc_mp_parse_array(M, c)
         kind == nc_mp_parse_int(M, n.next)
         addr == nc_mp_parse_string(M, kind.next)
         start == addr.next.at - Len(addr.val) IN
       IF ~n.ok THEN Refuse
       ELSE IF n.val \notin {2, 3} THEN Refuse
       ELSE IF ~kind.ok THEN Refuse
       ELSE IF kind.val \notin {0, 1} THEN Refuse
       ELSE IF ~addr.ok THEN Reject(addr)
       ELSE \E at \in ColonAt(start) :
              LET transport == SubSeq(M, start, at - 1) IN
              IF at = 0 THEN Refuse
              ELSE IF transport \notin Transports THEN SkipTransport(n.val, addr.next)
              ELSE IF n.val = 3
                THEN WithOptions(kind.val, addr.val, transport, addr.next)
              ELSE /\ TakeAddress(kind.val, addr.val, addr.next)
                   /\ UNCHANGED <<msg, ralen, rest, num, tuple, optid, optlev>>

AddressLevel(name) == IF Owned(name, tuple.transport) THEN tuple.transport ELSE SolSocket

(* An option of the address. An unknown one is skipped, and then the next    *)
(* thing in the message is set as the value of the option before it, at the  *)
(* level the unknown name suggests.                                          *)
AddressOption ==
  /\ phase = "address options"
  /\ left > 0
  /\ LET key == nc_mp_parse_string(M, c) IN
       IF ~key.ok THEN Reject(key)
       ELSE IF Known(key.val)
         THEN nc_parse_and_set_option(AddressLevel(key.val), key.val, key.next)
       ELSE StartSkip(1, key.next)

AddressSkipped == /\ phase = "skip"
                  /\ rest = 0
                  /\ tuple # NoTuple
                  /\ \E lev \in {SolSocket, tuple.transport} :
                       nc_parse_and_set_option(lev, optid, c)

AddressOptionsEnd == /\ phase = "address options"
                     /\ left <= 0
                     /\ TakeAddress(tuple.kind, tuple.addr, c)
                     /\ tuple' = NoTuple
                     /\ UNCHANGED <<msg, ralen, rest, num, optid, optlev>>

(* All addresses are known: endpoints the reply does not name are shut down  *)
(* here (NcApply). Topics are optional.                                      *)
TopicList ==
  /\ phase = "addresses"
  /\ i >= num
  /\ IF ralen <= 3 THEN Stop("applied")
     ELSE LET arr == nc_mp_parse_array(M, c) IN
          IF ~arr.ok THEN Refuse
          ELSE /\ left' = arr.val
               /\ c' = arr.next
               /\ phase' = "topics"
               /\ UNCHANGED <<msg, ralen, rest, num, i, tuple, optid, optlev, log>>

Topic ==
  /\ phase = "topics"
  /\ left > 0
  /\ LET name == nc_mp_parse_string(M, c) IN
       IF ~name.ok THEN Reject(name)
       ELSE /\ log' = Append(log, Subscribed(name.val))
            /\ c' = name.next
            /\ left' = left - 1
            /\ UNCHANGED <<msg, phase, ralen, rest, num, i, tuple, optid, optlev>>

(* Anything is allowed at the end of the list.                               *)
Done == phase = "topics" /\ left <= 0 /\ Stop("applied")

(* After its verdict the function has returned; a reply on which it stopped  *)
(* anywhere else would be a deadlock.                                        *)
Verdicts == {"applied", "refused", "crashed", "astray"}
Returned == phase \in Verdicts /\ UNCHANGED vars

Next == \/ Begin \/ SocketOption \/ SocketSkipped \/ AddressList
        \/ Address \/ AddressOption \/ AddressSkipped \/ AddressOptionsEnd
        \/ Element \/ ElementsEnd \/ Skip
        \/ TopicList \/ Topic \/ Done \/ Returned

Spec == Init /\ [][Next]_vars

-----------------------------------------------------------------------------
(* The reader stays inside the message: what is left of it ends where the    *)
(* message ends, wherever the message was cut off and whatever it claims,    *)
(* but for a length of 2^31 or more: nothing else leads the reader astray.   *)
Inside == /\ c.at \in 1 .. Len(M) + 1
          /\ c.len = Len(M) + 1 - c.at
          /\ phase = "astray" => ~ShortLengths(M)

(* What the author of a reply wrote takes effect as written, to the value    *)
(* and the level of each option, in the order of the reply, in whichever of  *)
(* the encodings of msgpack; of a reply that turns out to be malformed, at   *)
(* most a first part takes effect. Unknown socket options leave no trace.    *)
AsWritten == msg.plain => IsPrefix(log, msg.meant)
                          /\ (phase = "applied" => log = msg.meant)

(* The verdict, on which retry and refresh depend: a reply that is complete  *)
(* and plain is applied, one that was cut short is refused.                  *)
Verdict == msg.plain => /\ phase \in {"refused", "crashed", "astray"} => ~msg.whole
                        /\ phase = "applied" => msg.whole

(* The loops of the reader, none of which is bounded by the length of the    *)
(* message, and one of which has a condition nothing changes: how far a      *)
(* phase is from the end of the loop around it.                              *)
Outer == {"addresses", "topics"}
Inner == {"options", "address options"}
Innermost == {"head", "values", "skip"}
Depth == [p \in Verdicts \union Outer \union Inner \union Innermost |->
            IF p \in Verdicts THEN 0 ELSE IF p \in Outer THEN 1
            ELSE IF p \in Inner THEN 2 ELSE 3]
NextCloser == \/ c'.len < c.len
              \/ c'.len = c.len /\ Depth[phase'] < Depth[phase]
              \/ c'.len = c.len /\ phase' = phase /\ 0 <= rest' /\ rest' < rest

(* Every step takes bytes off the message, or leaves a loop for the one      *)
(* around it, or counts down: no reply keeps the worker for ever, unless it  *)
(* leads it astray (see Inside), where this model ends.                      *)
Closer == [][NextCloser]_vars

(* The function that skips a value was written apart from those that read    *)
(* one. They agree where a value ends, and how many values an array or a     *)
(* mapping contains, but for those with a length of four bytes (see Count).  *)
SkipsAlike ==
  LET one == Scalar(c)
      arr == nc_mp_parse_array(M, c)
      map == nc_mp_parse_mapping(M, c)
      over == nc_mp_skip_value(M, c) IN
  /\ one.ok => over = Got(0, one.next)
  /\ arr.ok /\ M[c.at] # 221 => over = Got(arr.val, arr.next)
  /\ map.ok /\ M[c.at] # 223 => over = Got(2 * map.val, map.next)
=============================================================================
