------------------------------- MODULE NcApi -------------------------------
(* The application's side of nanoconfig (src/src/nanoconfig.c): the calls    *)
(* nc_configure, nc_close and nc_term, made by any number of threads, and    *)
(* the one-way queue of commands that carries them to the worker thread.     *)
(* A call either finishes in one step or, when the queue is full, blocks:    *)
(* nn_send on the PUSH socket is made without NN_DONTWAIT. A signal ends the *)
(* wait with EINTR, and then the command is not sent: nc_configure reports   *)
(* it, nc_close and nc_term go on as if nothing had happened, since their    *)
(* errno_assert (rc < 0) accepts every error.                                *)
EXTENDS Naturals, Sequences

CONSTANTS Socks,           \* the socket numbers nanomsg hands out
          Urls,            \* the topology URLs the application knows
          CmdCap,          \* how many commands the inproc queue holds
          MaxCalls,        \* bound: API calls in a behaviour, nc_term apart
          Interrupts,      \* do signals interrupt system calls (EINTR)?
          CallsAfterTerm,  \* may the application go on calling after nc_term?
          EarlyNnTerm      \* may it call nn_term without nc_term before?

ASSUME ApiAssumption == /\ Urls # {}
                        /\ CmdCap \in Nat \ {0}
                        /\ MaxCalls \in Nat
                        /\ Interrupts \in BOOLEAN
                        /\ CallsAfterTerm \in BOOLEAN
                        /\ EarlyNnTerm \in BOOLEAN

VARIABLES initialized, \* nc_state.initialized
          term,        \* nc_term: "no", "joining" the worker, or "done"
          own,         \* sockets the application holds and has not nc_closed
          open,        \* sockets nanomsg holds open
          calls,       \* calls made so far (bound only)
          cmds,        \* commands in the inproc queue, oldest first
          zombie,      \* has nn_term been called? Every nn_ call then fails
          pc           \* the worker thread; "off" until nc_start creates it

apiVars == <<initialized, term, own, open, calls, cmds, zombie>>

Command == [tag : {"configure"}, sock : Socks, url : Urls]
             \union [tag : {"close"}, sock : Socks]
             \union [tag : {"shutdown"}]

ApiInit == /\ initialized = FALSE
           /\ term = "no"
           /\ own = {}
           /\ open = {}
           /\ calls = 0
           /\ cmds = <<>>
           /\ zombie = FALSE

Full == Len(cmds) = CmdCap

(* Mutant of Send: a command overtakes those already queued.                 *)
OvertakingSend(c) == \/ zombie /\ cmds' = cmds
                     \/ Full /\ Interrupts /\ cmds' = cmds
                     \/ ~zombie /\ ~Full /\ cmds' = <<c>> \o cmds

(* A blocking nn_send of a command; after nn_term it returns ETERM at once.  *)
Send(c) == \/ zombie /\ cmds' = cmds
           \/ Full /\ Interrupts /\ cmds' = cmds
           \/ ~zombie /\ ~Full /\ cmds' = Append(cmds, c)

(* The first nc_configure of the process creates the sockets and the thread. *)
nc_start == /\ initialized' = TRUE
            /\ pc' = IF initialized THEN pc ELSE "timers"

MayCall == /\ calls < MaxCalls
           /\ term = "no" \/ CallsAfterTerm

(* nn_socket gives out a number that is not in use.                          *)
NnSocket(s) == /\ MayCall /\ ~zombie
               /\ s \notin own \union open
               /\ own' = own \union {s}
               /\ open' = open \union {s}
               /\ calls' = calls + 1
               /\ UNCHANGED <<initialized, term, cmds, zombie, pc>>

NcConfigure(s, u) == /\ MayCall
                     /\ s \in own
                     /\ zombie => initialized
                     /\ nc_start
                     /\ Send([tag |-> "configure", sock |-> s, url |-> u])
                     /\ calls' = calls + 1
                     /\ UNCHANGED <<term, own, open, zombie>>

NcClose(s) == /\ MayCall
              /\ s \in own
              /\ own' = own \ {s}
              /\ IF initialized
                 THEN /\ Send([tag |-> "close", sock |-> s])
                      /\ open' = open
                 ELSE /\ open' = open \ {s}
                      /\ cmds' = cmds
              /\ calls' = calls + 1
              /\ UNCHANGED <<initialized, term, zombie, pc>>

(* nc_term queues the shutdown command and then joins the worker thread.     *)
NcTerm == /\ term = "no"
          /\ IF initialized
             THEN /\ Send([tag |-> "shutdown"])
                  /\ term' = "joining"
             ELSE /\ cmds' = cmds
                  /\ term' = "done"
          /\ UNCHANGED <<initialized, own, open, calls, zombie, pc>>

(* Mutant of NcTermReturn: nc_term does not join the worker thread.          *)
ReturnAtOnce == /\ term = "joining"
                /\ term' = "done"
                /\ UNCHANGED <<initialized, own, open, calls, cmds, zombie, pc>>

NcTermReturn == /\ term = "joining"
                /\ pc = "exited"
                /\ term' = "done"
                /\ UNCHANGED <<initialized, own, open, calls, cmds, zombie, pc>>

(* The application terminates nanomsg: after nc_term, as documented, or,     *)
(* with EarlyNnTerm, at any moment.                                          *)
NnTerm == /\ ~zombie
          /\ term = "done" \/ EarlyNnTerm
          /\ zombie' = TRUE
          /\ UNCHANGED <<initialized, term, own, open, calls, cmds, pc>>

ApiNext == \/ \E s \in Socks : \/ NnSocket(s)
                               \/ \E u \in Urls : NcConfigure(s, u)
                               \/ NcClose(s)
           \/ NcTerm
           \/ NcTermReturn
           \/ NnTerm
=============================================================================
