# A verification of nanoconfig

nanoconfig puts nanomsg sockets into topologies that a configuration service
describes. An application calls `nc_configure (socket, url)` instead of
`nn_bind` and `nn_connect`; a worker thread of the library asks the service
about the URL, binds and connects the socket as the reply says, asks again from
time to time and at once when the service announces a change.

This directory models the library in TLA+, checks small instances of the models
with TLC and proves nearly all of the safety properties with TLAPS for all values
of the constants.

## 1. The system

Paths are relative to the root of the repository.

| Component | Source | State | Operations | Modelled in |
|---|---|---|---|---|
| API | `src/nanoconfig.c`, `src/state.h`, `src/nanoconfig.h` | `nc_state`: `initialized`, the socket numbers, the thread | `nc_configure`, `nc_close`, `nc_term`; `nc_start` on the first `nc_configure` | `NcApi`, `SocketLife` |
| Worker loop | `src/worker.c` 130-430, 846-1038 | `socket_list`, per socket `state`, `request_id`, `retry_time`, request; `next_request_id` | `nc_process_timers`, `nc_poll_exec`, `nc_process_commands`, `nc_process_responses`, `nc_process_updates` | `NcWorker` |
| Application of replies | `src/worker.c` 60-128, 449-844 | per socket `endpoint_list` and `subscr_list`; `topic_list`; the subscriptions of the updates socket | `nc_parse_and_apply` | `NcReply` (what is read, set and opened), `NcApply` (the lists); in `NcWorker` as one step |
| Configuration service, network | `examples/ns.py`, `examples/config.yaml` (example of a service) | the table of configurations; messages on the way | answer, publish; lose, repeat, delay, reorder | `NameService` |
| msgpack reader | `src/utils/msgpack.c` | none | parse an int, string, array, map; skip a value | `Msgpack` |
| Clock | `src/utils/clock.c` | `last_tsc`, `last_time` | `nn_clock_init`, `nn_clock_now` | `NnClock` |
| Threads | `src/utils/thread*` | the thread handle | create with all signals blocked, join | in `nc_start`, `NcTermReturn`; an assumption of `NcWorker` |
| Random numbers | `src/utils/random.c` | the seed | the first request id | `FirstIds` |
| Allocation, errors, sleep, integer types | `src/utils/alloc.*`, `err.*`, `sleep.*`, `int.h` | none of the program's | wrappers | a failed assertion is the value `"aborted"` |
| Command-line parser | `tools/options.c` | the mask of flags provided, the options seen | `nn_parse_options`: one word after the other, conflicts, requirements | `Options` |
| nccat | `tools/nanocat.c` | its options; the clock in its loops | choose a loop by socket type; send, receive, request and wait, answer | `Nccat` |
| ncdev | `tools/nanodev.c` | two sockets | hand them to `nn_device` | not modelled |
| Documentation, build | `doc/`, `CMakeLists.txt` | | | quoted by properties |

### How the parts interact

The threads of the application talk to the worker only through an inproc
PUSH/PULL pair of nanomsg sockets: three commands, one way, no answer. A call
returns when its command is queued, so when the worker acts on it the
application may have closed the socket and got its number back for another one.
`nc_term` queues `NC_SHUTDOWN` and joins the thread.

`nccat` is an application of the library with one socket: it configures it
from `--topology` and then only sends and receives.

The worker polls three descriptors: commands, replies on the request socket
(`AF_SP_RAW` `NN_REQ`, so that the library itself matches replies to requests by
a 31-bit id in the message), and updates on a SUB socket that is there only if
`NN_CONFIG_UPDATES` is set. Between polls it walks over `socket_list`, sends the
requests that are due and computes how long to poll. A socket is `STARTING` (a
request has to be sent), `REQUEST_SENT` (waiting for at most 1 s) or `SLEEPING`
(for 100 ms after a failure, for 5 minutes after a success). An update whose
topic a socket subscribes to sets it back to `STARTING`, as does a second
`nc_configure`.

### What is hard

* Replies are matched by a number in a system where requests time out, are
  repeated and are reset by updates: a reply may be late, may be one of two, may
  belong to a request the socket no longer cares about.
* The answer to a request is computed by the service before the worker
  subscribes to the topics it names.
* Commands are asynchronous; calls of several threads meet in one bounded queue,
  and `nn_send` blocks when it is full.
* `nn_term` makes every call of nanomsg fail with `ETERM`, at any moment, and
  each of the worker's loops has its own way of dealing with that.
* The lists are linked by hand, with tail pointers, and a reply may turn out to
  be malformed after half of it was applied.
* A call of nanomsg that fails is mostly reported and never made again.
* A reply is bytes, cut off or from a future version; every type comes in several
  encodings, and what is not understood must be skipped by exactly its length.
* The clock answers from a cache that a counter of the processor keeps valid, on
  whichever processor the thread happens to be, while anybody may set the clock of
  the system.
* The poll timeout is the minimum over items that change while it is computed.
* `nccat`'s loops rely on what a table of options, written elsewhere, demands of
  the socket types, and the parser sees each option only with those before it.

### What makes each part correct

* API: a socket given to `nc_close` is closed exactly once and not before; no
  socket is half closed when `nc_term` returns; `nc_term` returns.
* Worker: a socket settles only with a configuration that is as new as it was
  told to have, and misses no update that reaches the worker; a reply reaches the
  socket that asked; the worker sleeps no longer than its sockets can; every socket
  converges to the service's table.
* Application of replies: the endpoints of the socket become those of the reply,
  endpoints that stay are not touched, none is forgotten when a reply fails
  half-way, updates reach all sockets that depend on them: all this but for what
  nanomsg refused.
* Reading of replies: the reader stays inside the message (as long as no length in it
  is 2^31 or more); a complete reply takes
  effect as written, in every encoding, a cut one is refused; unknown options of
  a socket leave no trace.
* Clock: its error does not add up, and it goes back only where the clock of the
  system was set back.
* Command line and nccat: what is accepted is free of conflicts and enough for the
  loop that is chosen; messages leave as often as `--interval` says.

## 2. Modules

| Module | Content |
|---|---|
| `NcApi` | the application's calls and the queue of commands |
| `NameService` | service, publisher and network: the environment |
| `NcWorker` | the worker thread, one action per `nn_recv` or `nn_send` of its loop |
| `Nanoconfig` | the composition, its fairness and its properties |
| `SocketLife` | abstract: what `nc_close` and `nc_term` promise |
| `NanoconfigProofs` | the theorems about `Nanoconfig`: requests, replies, versions, timers |
| `LifeProofs` | the theorems about the life of sockets in `Nanoconfig`, and that it implements `SocketLife` |
| `NcApply` | `nc_parse_and_apply`, one action per element of the reply and of the lists |
| `NcApplyProofs` | the theorems about `NcApply` |
| `Msgpack` | the reader of msgpack as operators on bytes and a cursor |
| `ReplyText` | the reference for the reader: how a reply is written in msgpack, and what it asks for |
| `NcReply` | `nc_parse_and_apply` as a reader: one action per option, value, address and topic |
| `NcReplyProofs` | the theorems about `NcReply` for any bytes, and the lemmas about `Msgpack` |
| `ReplyTextProofs` | the theorems about `NcReply` for the texts of `ReplyText`, and what `Msgpack` reads of them |
| `NnClock` | `nn_clock_init`, `nn_clock_now`, one action per reading |
| `NnClockProofs` | the theorems about `NnClock` |
| `Options` | `nn_parse_options` for any table of options |
| `OptionsProofs` | the theorem about `Options` |
| `Nccat` | the table of nccat's options on top of `Options`, `main` and its loops |
| `NccatProofs` | the theorems about `Nccat` |
| `MCNanoconfig`, `MCNcApply`, `MCNcReply`, `MCNccat` | instances for TLC |

`Nanoconfig` extends `NcWorker`, which extends `NameService`, which extends
`NcApi`; `Next` is a step of an application thread, of the environment, of the
worker, or a tick of time. `stage` in `Nanoconfig` maps the composition to
`SocketLife`: a socket is `"open"` while the application owns it, `"closing"`
between `nc_close` and `nn_close`, `"free"` before and after.

### Correspondence

`cmds` is the inproc queue, `initialized` the field of `nc_state`. `own` is what
the application may still use, `open` what nanomsg has open, `zombie` says
that `nn_term` was called. A caller that is blocked in `nn_send` is a call that
is not yet taken, since `Send` needs room in the queue.

`list` is `socket_list` as reached from its head, `state`, `request_id`, `retry`
and `url` are the fields of `nc_socket`; `retry[s]` is the time left until
`retry_time` (0 when it has passed) and `wake` the time left until
`next_timeout`. `tailLive` says whether `socket_list.tail` points into the list:
`nc_list_rm` does not move it when it unlinks the last item, so that the next
`nc_list_add` hangs the new item where nobody finds it. `pc` is where the thread
is, `scan` the position in the loop of `nc_process_timers`, `rev` the
descriptors the last `poll` reported. `applied` and `fresh` are history
variables: the version of the configuration a socket has, and the oldest one it
may be content with (raised when it is told of a change and when it is
configured); `since` is the version the table had when its topics were learned.
`topicList` holds the topics on `topic_list`, `updSubs` those the SUB socket is
really subscribed to. Messages carry the sender, the URL and the version as history.

In `NcApply`, `eps`, `subs` and `topics` are the three kinds of linked lists,
`real` is what nanomsg has open, `heard` counts `NN_SUB_SUBSCRIBE`. Two history
variables keep what failed: `orphans` the endpoints whose `nn_shutdown` did, which are
open and no longer on the list, and `refused` the topics whose subscription did. `lost` holds
the lists whose tail points into freed memory, and `broken` the first list that
is reached through an invalid pointer. What the program does from there on is
undefined; a behaviour of the model ends there.

`NcReply` reads the same function from the other end. `c` is the cursor
(`buf` and `buflen`), `phase` what is read next or the verdict, `ralen`, `left`,
`num` and `i` the counters of the loops, `optid` and `optlev` the option set
last and its level, and `log` what is done, in order: calls of `nn_setsockopt`,
endpoints and topics taken into the lists. From there on they are those of
`NcApply`, where a reply is already a structure. Each reply carries as history
`meant` (the log its author wants), `whole` (nothing of it is missing) and `plain`
(it is, or is the beginning of, a text of `ReplyText`, which the worker should
understand).
`rest` counts the elements of an option's value that are still to be set
(phase `"values"`) or the values still to be skipped (phase `"skip"`). The
operator `nc_mp_skip_value` skips one value and yields how many it contains; the
code calls itself for those, and the model adds them to `rest`, which visits them
in the same order.

`ReplyText` says what a text is from the side of the author of a configuration
service: by the format of msgpack and by the documentation, not by the code. A text
is the bytes of a reply together with the places where its parts begin and the calls
it asks for; `IntAt`, `LengthAt`, `StrAt` and `ValueAt` say what is written between two
places, and `WellWritten` puts a reply together from them. That the places are part of
the text keeps these definitions free of recursion: the parts of a list are between
consecutive places, and the values inside an unknown value are listed one after the
other with the number of those still to come. `MCNcReply` writes replies down as values,
encodes them in each width (`Pack`), lays out the places (`Text`) and cuts the
messages off at each byte; TLC checks that each of its texts is `WellWritten`.

The operators of `Msgpack` keep the names of
the functions; they return the value and the next cursor, or `Fail`, or `Astray`: the
code keeps the length of a string in an `int` (150) and adds the one of a value it skips
to 32-bit numbers (318), so a length of 2^31 or more passes for a good one and `buf` then
points somewhere else, maybe in front of the message. What the code makes of
the bytes there is not modelled; the reply ends in the phase `"astray"`.

In `NnClock`, `real` is true time in ticks of the counter, `started[cpu]` what the
counter of a processor was at time 0, `tsc`, `last_tsc` and `last_time` are the
variables of the code. `CMakeLists.txt` defines none of the `NN_HAVE_` macros for clocks, so
`nn_clock_time` is `gettimeofday` (108-117): true time and `offset`, which `SetTime`
changes at any moment. `asked` and `now` remember when the last call was made and
what it returned, `said` and `read` when the system gave that answer and `last_time`, and
`setBack` whether its clock was set back since. `counters = FALSE` is a machine without the instruction.

In `Options`, `mask` is `nn_parse_context.mask` and `given` the options processed
in order (`last_option_usage` without the order); `parse` says whether words are
still read, and how it ended (`exit (0)` after `--help` is `"helped"`,
every error `"refused"`; reading a file may fail, and then the loop at 461 never ends:
`"stuck"`; an empty file may end in the `assert (data)` at 480: `"aborted"`). In `Nccat`, `type`, `data`, `interval` and `prefixes` are
the fields of `nn_options_t` that the loops look at, `at` is where
the program is, `start` is `start_time`, and `until` the moment at which
`nn_recv` or `nn_sleep` returns at the latest. `pending` says whether nanomsg
has a request or survey without answer: without one, `nn_recv` fails with `EFSM`.

### Abstractions

* One call of nanomsg is one step with everything up to the next call. An
  `nn_term` between the `nn_recv` of a command and the `nn_getsockopt` it leads
  to is not represented.
* `nc_process_timers` reads the clock once before its loop; no time passes in
  the model during the pass. `Tick` runs in `poll` and in the other phases.
* The request ids of an instance are few, so `Issue` passes over ids that a
  listed socket still carries and removes what is on the way under the id it
  takes. The code reaches an id again only after 2^31 requests. The counter and
  its wrap-around below the reserved bit are those of the code.
* The network is a set of at most `NetCap` messages each way; a full one loses
  older messages. Losing, repeating and reordering are all included.
* The filter of the SUB socket is applied when an update is published.
* The worker binds the PULL socket after the thread has started; commands sent
  before are queued by nanomsg as later ones are.
* The prepared request is `url`; the name of the protocol in it never changes.
* An address of `NcApply` parses or it does not; how is the subject of
  `NcReply`, which in turn has no lists: each of the two leaves to the other what
  cannot change its own course. Whether an address is bound or connected
  does not matter to the search by address, as in the code.
* The names of options, transports and topics in `MCNcReply` are single letters
  (their lengths, where the code compares one, are those of the real names);
  ids and levels of options are the names. Transports are compared regardless of
  case in the code and exactly in the model. The machine is
  little-endian. `SignedChar` is `TRUE` as on x86; where `char` is unsigned, negative
  numbers of one byte (`int8`) would be read as positive ones, which `AsWritten` would
  show.
* A reader that is led astray by a length of 2^31 or more stops there (see above). That
  nothing else leads it astray is part of `Inside`; its `ShortLengths` calls every byte
  that looks like the marker of such a length one, be it inside a string.
* What lies behind a message is unknown: `strchr` may or may not find a colon
  there. `optid` is uninitialized until an option was set; the model calls that
  value `<<>>`, and no property depends on it.
* The counters of two processors differ by at most `Skew`, are not 0 once the
  machine runs and do not restart while the program runs. Real time and counter run at
  the same, constant rate; the clock of the system shows real time between two settings.
* `NcWorker` and `Nccat` use exact time. That leaves two things out. By `Fresh` the
  code's time is late by up to about half a millisecond at 1 GHz, against waits of 100
  and more. And nobody sets the clock of the system while they run: set back, it keeps the
  worker in `poll`, and a socket asleep, for as much longer.
* The topics of an entry are fixed in `NcWorker`, so no reply drops one there. Topics that
  are dropped are the subject of `NcApply`.
* A word of a command line is the set of options it may mean: an exact name is one
  option, a prefix several, a typing error or a plain argument none. A cluster of
  short options is several words; `--`, after which the code just goes on, is not a
  word. The value of an argument is valid or not.
* In `nccat`, `nn_send` succeeds or fails with `EAGAIN`; other errors end the program
  and are left out. Time passes while the program sends, receives or sleeps.
  `PerSecond` stands for the 1000 milliseconds of a second.
* `request_id` and `retry_time` of a new `nc_socket` are whatever `malloc`
  returned: any id, and a time that has passed or is far away.

## 3. Runs

| Run | Checks | Distinct states |
|---|---|---|
| `updates` | `TypeOK`, `Settled`, `NoOversleep`, `Informed` | 1,350,000 |
| `replies` | `IndInv`, `Routed` | 1,090,000 |
| `closing` | `NoAbort`, `TermClosesAll`, `ListedOpen`, `LifeSpec`, `OnlyClosedLeave` | 190,000 |
| `converge` | `Converges` | 156,000 |
| `stopping` | `ClosedEventually`, `TermReturns`, `WorkerEnds` | 75,000 |
| `nccat` | `TypeOK`, `AcceptedCompatible`, `AcceptedSensible`, `SendsData`, `NotTooOften` | 95,000 |
| `reply` | `Inside`, `AsWritten`, `Verdict`, `SkipsAlike`, `Closer`; no deadlock | 22,000 |
| `clock` | `Fresh`, `Monotone` | 740,000 |
| `apply` | `TypeOK`, `Tracked`, `AppliedExactly`, `Reached`, `TopicsExactly`, `Undisturbed` | 3,290,000 |

* `updates`: one socket, a table that changes once, a topic whose subscription is
  refused or not, a network that repeats and delays replies and loses them but no
  update that passes the subscriptions (the runs `converge` and `replies` have losses), signals
  during blocking calls, calls after `nc_term`, `nn_term` after it. The long period (3) is
  longer than the wait for a reply (2) and that longer than the error period
  (1), so all three orders of timer and answer occur. One change of the table
  suffices to tell an outdated configuration from a current one; the other
  socket would add nothing, since versions are compared per socket.
* `replies`: two sockets and three ids, the smallest number with which two
  sockets can wait while a third id belongs to the past; the first id is the last
  before the wrap-around. New structs start with any id. The two
  sockets are interchangeable, hence symmetry. It also checks the whole
  invariant of the proofs.
* `closing`: two sockets, a queue of two commands, seven calls, so that a socket
  is closed, its number given out and configured again while earlier commands
  are still queued, and that removal from the list hits its head and its
  tail. The network is empty: it does not touch lists or commands.
* `converge`: liveness with requests, replies and updates lost, a table that
  changes, and commands coming in between.
* `stopping`: liveness of termination, with a queue that the calls for one
  socket fill (so that callers block) and `nn_term` before, during and after `nc_term`.
* `apply`: two sockets, four replies or closes among nine replies: lists that
  are reordered, grow, shrink, become empty or are malformed at each position, and every call
  of nanomsg may fail each time. The address of an endpoint that could not be shut down
  takes three replies to be opened again, and the fourth can drop it.
* `reply`: 31 replies, each in four widths (the marker itself, 1, 2 and 4 bytes,
  as far as a type has them) and cut off after each byte. Five are replies the
  worker should understand: the example of the documentation, an option with
  several values, numbers at the edges of their widths, unknown options with
  values of every type, topics and elements for the future. The others have unknown transports and
  address options at each position, or do not parse. A claimed length that is
  too long is what cutting off produces; eleven replies claim one of 2^31 or more, for a
  string at each place where one is read and for values that are skipped. `Returned` lets the model stand still after
  a verdict and nowhere else, so that a reply on which the function could neither go
  on nor return would be a deadlock.
* `clock`: two processors one tick apart, half the precision being two ticks and as
  long as a millisecond, ten ticks: several windows of the cache, and a call
  that loses the processor for longer than a window between its readings. The clock of the
  system is set, forward and back, by up to a millisecond between any two readings.
* `nccat`: all lines of up to four of thirteen options (one socket type for each
  loop and each branch of `main`, and each kind of option), since a conflict takes
  two options, a requirement one more, and socket type and topology are always
  needed. Intervals of zero and two, five units of time: two rounds and a wait
  that is too long.

Deadlock is checked in `reply` only: elsewhere the application may stop calling, after
`nc_term` nothing remains to be done, and `nccat` exits.

### Fairness

The worker is a running thread, so it takes a step when it can
(`WF(WorkerNext)`), and time passes (`SF(Tick)`). A descriptor that is
readable again and again is seen (`SF(PollReady)`). The rest are assumptions about
the environment and not about the code: a request that is sent again and again
is at some point sent, answered and delivered while the socket waits (`SendTo`,
`AnswerTo`, `ReplyTo`), and the flow of replies does not keep the worker
in `nc_process_responses` for ever (`ResponsesEnd`). Nothing in the code
guarantees the last one: all three loops of the worker read until nothing is
left. `nc_term` returns when the thread is gone (`WF(NcTermReturn)`). No
fairness is assumed of the application's calls or of updates, so `Converges`
does not depend on an update arriving.

### Runs that show a difference between code and documentation

| Run | Property | What happens |
|---|---|---|
| `tail` | `ConfigureJoins` | the last socket of the list is closed, a new one is configured: it is appended to the removed struct and never configured |
| `on_the_fly` | `OnTheFly` | an address that could not be bound or connected was kept with number -1; the next reply does not name it, and `nn_assert (ep->eid > 0)` fails |
| `interval` | `SendsEvery` | `nn_rw_loop` passes the rest of the interval in milliseconds to `nn_set_recv_timeout`, which takes it for seconds: a request without answer is waited for a thousand times too long |

Differences seen while modelling that the models follow but no run
demonstrates:

* A reply that drops the last endpoint leaves `endpoint_list.tail` in the freed item
  (734); the next reply that adds one appends it there.
* A reply that drops the last subscription of a topic unlinks the topic through
  `nc_topic.prev` (823), which nothing ever sets. In the model both of these end in
  `broken`: `OnTheFly` fails of them too, but the run `on_the_fly` stops at the
  assertion, which takes fewer steps, and the other properties of `NcApply` speak of the
  time before.
* `nc_process_responses` asserts `errno == EAGAIN` (859): `nn_term` while replies
  are read, before `nc_term`, aborts the process. The other two loops provide
  for `ETERM`. With `EarlyNnTerm = TRUE`, `NoAbort` fails.
* `for (j = 2; i < tuplelen; ++j)` (633) skips the options of an address of an unknown
  transport by the index of the address: one of the first two, or
  three if it has options, refuses the whole reply; a later one leaves its
  options unread, and they are taken for the next address.
* An unknown option of an address (673) is skipped with its value, and then the
  next element is set under the option before it (or an uninitialized one). If
  it was the last, that element may be the list of topics, and a trailing
  element of a future version is then taken for the topics.
* `nc_mp_skip_value` reads the lengths of `array32` and `map32` from the wrong half
  (383, 407) and expects the type byte of an extension before the length (288), so an
  unknown option with such a value spoils the reply.
* The text of an error reply is printed if it could not be parsed, from an
  uninitialized pointer (528), and is not when it could.
* In an array of values, an element that is neither number nor string is not
  consumed (428-441) and the next one is read in its place. The same happens to an
  element that was cut off. In an option of the socket the rest of the reply is missing
  then and the reply is refused. In the last option of the last address the
  loops just end: the endpoint is opened without all of its options, and a reply
  of three elements counts as applied. The texts of `ReplyText` therefore have one value per
  option of an address; no option of a transport of nanomsg takes several.
* `strchr (addr, ':')` (610) reads past the end of the address.
* A length of 2^31 or more is negative in the `int` of `nc_mp_parse_string`, so
  `len < strlen` (`src/utils/msgpack.c` 150) lets it pass and the reader goes on in
  front of the message, or at bytes it has read before. `nc_mp_skip_value` (313-320) has the
  same defect, with sums modulo 2^32. `Inside` says that no other length does this.
* A failing `NN_SUB_SUBSCRIBE` (`src/worker.c` 790) or `nn_shutdown` (731) is reported and
  forgotten: updates of that topic do not arrive any more, and that endpoint stays open and
  can no more be shut down.
* A comment in `src/utils/clock.c` (113-114) calls `gettimeofday` a last resort;
  `CMakeLists.txt` makes it the only one, since it defines none of the macros that choose another.
* `nn_recv_loop` looks at `errno` although `nn_recv` succeeded (`tools/nanocat.c` 440).
* Reading a `--file` that cannot be read, a directory for instance, never ends
  (`tools/options.c` 461): the loop looks at `feof` only.
* `doc/ncdev.1.txt` lists options that `ncdev` does not have.
* `examples/ns.py` tests `len (...) >= 3` and then uses element 3.
* A signal may end the blocking `nn_send` of `nc_term`. `errno_assert (rc < 0)`
  (`src/nanoconfig.c` 203) lets it pass, the worker gets no shutdown command and is
  joined for ever: with `Interrupts = TRUE`, `TermReturns` fails.
* A second `nc_configure` of a listed socket with another URL only repeats the
  first request (`src/worker.c` 272-275).
* `if (worker->updates_socket)` (786) takes socket number 0 for "no socket"; the
  other places test `>= 0`. Number 0 is the first number nanomsg gives out, so
  it takes an application that closed its first socket before.
* `nc_close` leaves the subscriptions of the socket with their topics and the
  struct allocated (364); each further reply adds another subscription for each
  topic, since the search at 755 does not stop at a match.
* `nc_term` leaves `initialized` set: later calls are queued for a thread that has
  ended, and an `nc_close` then does not close (179).
* An update published after the service computed an answer, and before the
  worker subscribed to its topics, is missed; the socket keeps the older
  configuration until the slow refresh.
* `nc_process_updates` does not free its messages (889-918).
* `--data` promises that nccat sends "and quit for PUB, PUSH, PAIR, BUS socket"
  (`tools/nanocat.c` 234); for PAIR and BUS without `--interval`, `nn_rw_loop`
  goes on to receive for ever (473).
* An empty `--file` ends in `assert (data)` after `realloc (data, 0)`
  (`tools/options.c` 480).

## 4. Proofs

`NanoconfigProofs` proves, for any sets of sockets, URLs and topics, any queue,
network and bound, and any of the periods that satisfy the assumptions:

| Theorem | Statement |
|---|---|
| `TypeCorrect` | `Spec => []TypeOK` |
| `Inductive` | `Spec => []IndInv` |
| `NeverStale` | `Spec => []Settled` |
| `NeverLate` | `Spec => []NoOversleep` |
| `RightReply` | `Spec => []Routed` |
| `MissesNoUpdate` | `Spec => []Informed` |

`LifeProofs` proves of the same module:

| Theorem | Statement |
|---|---|
| `InCustody` | `Spec => []Custody` |
| `NeverClosedUnder` | `Spec => []ListedOpen` |
| `OnlyNnTermAborts` | `Spec => []AbortsAfterNnTerm` |
| `NeverAborts` | `AsDocumented` implies `Spec => []NoAbort` |
| `ClosedByTheEnd` | `Uninterrupted` implies `Spec => []TermClosesAll` |
| `KeepsPromise` | `Uninterrupted` implies `Spec => LifeSpec`, the refinement of `SocketLife` |
| `NoneLost` | `Spec => OnlyClosedLeave` |

`NcApplyProofs` proves, for any sockets, addresses, topics and replies, any number of
the updates socket, and any failures of `nn_bind`, `nn_connect`, `nn_shutdown` and
`NN_SUB_SUBSCRIBE`:

| Theorem | Statement |
|---|---|
| `ListsTyped` | `Spec => []TypeOK` |
| `UpdatesReach` | `Spec => []Reached` |
| `EndpointsTracked` | `Spec => []Tracked` |
| `RepliesApplied` | `Spec => []AppliedExactly` |
| `TopicsApplied` | `Spec => []TopicsExactly` |
| `NothingDisturbed` | `Spec => Undisturbed` |

`NcReplyProofs` proves of the reader, for any bytes, and `ReplyTextProofs` for replies of
any size and any tables of options and transports:

| Theorem | Statement |
|---|---|
| `StaysInside` | `Spec => []Inside` |
| `ComesToAnEnd` | `Spec => Closer` |
| `SkippedAsRead` | `Spec => []SkipsAlike` |
| `FollowsText` | `Spec => []Follower`, the inductive invariant of the next two |
| `TakesEffect` | `Spec => []AsWritten` |
| `JudgesRightly` | `Spec => []Verdict` |

`OptionsProofs` proves of the parser, for any table of options, and `NccatProofs`
of nccat, for lines of any length, any intervals and any length of the run:

| Theorem | Statement |
|---|---|
| `Accepted` | `OptSpec => []AcceptedCompatible` |
| `NccatTyped` | `Spec => []TypeOK` |
| `NccatCompatible` | `Spec => []AcceptedCompatible` |
| `AlwaysData` | `Spec => []SendsData` |
| `AcceptedMakesSense` | `Spec => []AcceptedSensible` |
| `IntervalKept` | `Spec => NotTooOften` |

`NnClockProofs` proves of the clock, for any processors, skew, precision and
frequency, without a bound on time, and however the clock of the system is set:

| Theorem | Statement |
|---|---|
| `AlwaysFresh` | `Spec => []Fresh` |
| `BackOnlyWhenSet` | `Spec => Monotone` |

Assumptions (named, beside the constants): `ApiAssumption` (some URL, a queue
that holds a command), `ServiceAssumption` (at least one id, the first id among
them), `TimeAssumption` (the error period is positive and shorter than the
refresh period, which is at least as long as the wait for a reply),
`ClockAssumption` (a millisecond has at least one tick), `ApplyAssumption` (what a
reply is; a malformed element is no address and no topic), `ReplyAssumption` (a reply
is any sequence of bytes; a `plain` one is the beginning of a `WellWritten` text), `NccatAssumption` (intervals are not negative, a
second has more than one unit) and `NccatTable` (the parser is given the table of
nccat). They hold of the values 100, 1000 and 300000 of the code; TLC checks them
on every run.

Three theorems of `LifeProofs` have a hypothesis about the constants that say how the
library is used. `AsDocumented`: `nn_term` is called after `nc_term`, as
`doc/nc_term.3.txt` asks, and nothing of the library after it. `Uninterrupted`: no
signal ends a blocking call either, since a signal may take a command away.
Each is necessary, and section 3 lists what happens without it; of calls after `nc_term`, TLC shows
further that a first `nc_configure` after it starts a thread, which may then meet
`nn_term` while it reads replies, and abort. The hypotheses hold in `MCClosing.cfg`,
where the properties are checked. Everything else in
`NanoconfigProofs` and `LifeProofs` holds without them.

### Requests, replies and timers (`NanoconfigProofs`)

`Settled` by itself is not inductive: a reply that is accepted
might be old. `IndInv` adds what rules this out:

* `ListedOnce`: a socket is in the list once, since `nc_process_configure` looks
  for it first;
* `Unshadowed`: no item in front of a waiting one carries its id, so the search of
  `nc_process_responses` comes to the right one;
* `RequestsOwn`, `RepliesOwn`: what is on the way under the id a
  socket waits for was sent by that socket, for its URL, and a reply is no older than
  `fresh` demands. When `fresh` is raised the socket leaves `REQUEST_SENT` in
  the same step, which is why a late reply is not accepted;
* `DemandKnown`: nobody demands a version newer than the table, so an answer
  computed now satisfies every demand made until now;
* `TopicsKnown`: a socket's subscriptions are none or those of its URL; an
  update about its URL therefore concerns it;
* `PassBounded`: in the middle of the pass, `wake` already bounds the items
  that were visited; at its end this becomes `NoOversleep`;
* `Running`: the thread is there exactly when the library is initialized.

`Informed` needs `Told` besides: every topic of a socket is on `topic_list`, so none is
subscribed to later than it was first named, and whatever version came after
is demanded of the socket already (`fresh`) or its update still waits to be read. With
`Settled`, which turns what is demanded into what is applied, this gives `Informed`. That
a topic once subscribed to stays so follows from the shape of the model and is not claimed.

Each conjunct of `IndInv` is preserved by the step lemmas, one per part of
`Next`, and the temporal step is one `PTL` at the end of each theorem.

### The life of a socket (`LifeProofs`)

What a socket's number means depends on commands that are still queued. `Custody` is
what makes `ListedOpen` inductive: commands are about open sockets (`QueuedOpen`),
a socket with a queued close is no longer the application's (`CloseGivenUp`) and
nothing about it is queued behind that command (`CloseLast`). So when the worker
takes the close, which unlinks the item and calls `nn_close` in one step, no
command that is left can put the number back on the list, and the number is handed
out again only afterwards. `CloseLast` is the point: without it, an `nc_configure`
behind the `nc_close` would link a closed socket.

`NoneLost` is about the list itself: only `Close` takes an item off, and what it leaves is
all the others; by `Custody` the application has given that socket up.

`NoAbort` follows because the only assertion that can fail needs `ETERM`, and under
`AsDocumented` `nn_term` finds the thread gone (`Ended`).

For `TermClosesAll` nothing may be lost on the way: every socket that was given up and
is still open has its close in the queue (`CloseQueued`), the shutdown is the last
command (`ShutdownLast`) and the worker leaves the loop with the queue empty
(`Drained`). With `Custody`, these also give the refinement: `stage` goes
`"free"`, `"open"`, `"closing"`, `"free"`, each in the step `SocketLife` has for it, and
all other steps are stutters (`LifeApp`, `LifeWorker`).

### The lists (`NcApplyProofs`)

The invariant `IInv` has four parts, each built on the ones before:

* `Typed`: besides the types, that the number of an endpoint is -1 or positive and
  that there is always another number for a subscription;
* `Chained`: every subscription hangs in the list of its topic (`Linked`), no two have
  the same number (`Distinct`), so unlinking one leaves the others where they
  are, and a topic was subscribed to as often as it is due (`HeardOnce`): once if
  anybody depends on it, and not at all if nobody does, if the attempt failed or if
  the updates socket has number 0;
* `Mirror`: the open endpoints are those of `endpoint_list` and the `orphans`, which have
  nothing in common, and no address is on the list twice. The last is what keeps the first
  when an endpoint is shut down;
* `Reading`: in the middle of a reply, what is marked and what is still to be read are
  together the array of the reply. At its end nothing is left to be read, so what
  is marked is the reply; the sweep then removes exactly the rest.

`Undisturbed` is about a step and follows from `Reading` too: the sweep ends
only what is not marked.

### The reader and any bytes (`NcReplyProofs`)

`Inside` is nearly inductive; the work is in the operators. `Within` says it of any
cursor and any message, and there is one lemma for each function of the reader: the
cursor it yields is inside if the one it was given is (`IntReads`, `ArrayReads`,
`StringReads`, `SkipReads` and the others). Nothing is assumed of the lengths: a function
yields a value and a cursor behind it, or fails, or goes astray, and the lemmas for
strings and for skipping say that the last takes a message with a length of 2^31 or more
in it (`~ShortLengths`). `GoesAstray` carries that over to the steps.
That the code checks a string before it moves and a skipped value after it has moved
makes no difference to the result, and the proof covers both. Because the nesting of
skipped values is a counter of the state machine, no induction over it is needed.

`ComesToAnEnd` sharpens these lemmas: what parses or is skipped takes at least one byte
(a skipped value is in front of the values in it, which the counter visits later). A step that takes none
leaves a loop for the one around it, or counts elements down. The measure is the
triple of the bytes left, the depth of the loop and the counter; the loop over the
options of an unknown transport, whose condition nothing changes, ends by it too. Going
astray ends the behaviour in this measure; what the code does then may not end.
`SkippedAsRead` compares the two halves of the reader marker by marker.

### The reader and what was written (`ReplyTextProofs`)

The first half of the module is about operators. For each form of `ReplyText` there is
a lemma that says what the function of the reader makes of it at that place of a message that
begins the text: the value and the place behind it if the message goes so
far (`IntRead`, `LengthRead`, `StrRead`, `ValueRead` and others), and a failure if the message is cut off
inside. They rest on facts about digits (`Digits`, `NumberOf`: reading the
bytes of a number, the highest first, and taking the complement gives the number
back) and on the markers being distinct (`Apart`): a string is not taken for a
number, which matters because `nc_parse_and_set_option` tries one after the other.

The second half is about steps. `AsWritten` is not inductive, since it does not say where the
reader is. `Follows` does, with one predicate per phase: before which option, element, value,
address or topic the reader is, that its counters are those of the text there, and that the
calls made are those marked at that place. There is one lemma per action. One
case is not a place of the text: the values of an option are read in a loop that goes
on when one was cut off. `AtCut` keeps what is needed then, namely that the cursor is
at a value the message does not contain as a whole; such a thing is no
string and no array, so whatever comes next is refused. Texts are data
of any depth; that their parts carry places and counters of their own is what makes
each step depend on two neighbouring places only, and the proof one over steps and not over data.

### The command line (`OptionsProofs`, `NccatProofs`)

`Accepted` assumes that conflicts in the table are mutual
(`SymmetricConflicts`; TLC checks it for the table of nccat): an option is
compared only with those before it. Its invariant says that the mask is exactly
what was provided (`MaskExact`), so that comparing with the mask is comparing with
every earlier option; `OneMore` is the step.

`NcInv` of nccat uses it: `SetByOptions` says that the fields the loops look at are those
of the options given, which holds of the type because no two options for a
type are accepted. With the requirements of the table this gives `LoopFits`: `main`
enters a loop only with the data it sends.

### The clock (`NnClockProofs`)

The invariant of the clock pairs its two variables (`Paired`): `last_tsc` was
read before `last_time`, so it lies, but for the skew, no later than the moment (`read`)
at which the system gave `last_time`. A call that finds the counter near `last_tsc` has
therefore begun within half the precision of that moment, and gets an answer the system
gave no longer ago than that: this is `Fresh`, and it does not matter what the clock
of the system did meanwhile. `Grown` says that nothing newer than `last_time` was returned
and, unless that clock was set back since, that it shows no less than either. With
`Ordered`, that rounding down preserves order, this gives `Monotone`.

### Only model-checked

* The liveness properties (`Converges`, `ClosedEventually`, `TermReturns`,
  `WorkerEnds`): fairness and `ENABLED` are out of the prover's reach.
* The runs that show a difference to the documentation.

## 5. Plan

Done: all modules above, their runs, and the proofs of every invariant, action
property and refinement the runs check but for those just named. What could follow:

1. `Nanoconfig`: the steps of `Converges` that are safety (a request that is answered
   in time settles the socket), as lemmas about `Next`.
2. `NcReply` and `NcApply` as one module: the log of the one is the reply of the other.

## 6. Not modelled

* `ncdev`: its parser is that of `Options`, and `Accepted` holds for its table; it
  then gives two sockets to `nn_device`, which is not in this repository and returns
  only with an error.
* The race of two first calls of `nc_configure` or `nc_close`: `nc_start` is not
  protected against it (`src/nanoconfig.c` 116), and nothing in the documentation
  allows such calls, so there is no promise to check.
* The text of messages and errors, allocation, and the thread and random number
  functions beyond what the worker relies on: wrappers of the C library without
  state of the program's own.
