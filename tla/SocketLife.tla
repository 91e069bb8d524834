----------------------------- MODULE SocketLife -----------------------------
(* What nc_close and nc_term promise about a socket, without queue, list or  *)
(* thread: a socket handed to nc_close is closed later, once, and when       *)
(* nc_term has returned no socket is left half closed                        *)
(* (doc/nc_close.3.txt, doc/nc_term.3.txt).                                  *)
CONSTANT Socks
VARIABLES stage,     \* per socket: "free", "open" or "closing"
          finished   \* has nc_term returned?

vars == <<stage, finished>>

Init == /\ stage = [s \in Socks |-> "free"]
        /\ finished = FALSE

Open(s) == /\ stage[s] = "free"
           /\ stage' = [stage EXCEPT ![s] = "open"]
           /\ UNCHANGED finished

(* Before the library is started nc_close closes the socket itself.          *)
CloseNow(s) == /\ stage[s] = "open"
               /\ stage' = [stage EXCEPT ![s] = "free"]
               /\ UNCHANGED finished

CloseLater(s) == /\ stage[s] = "open"
                 /\ ~finished
                 /\ stage' = [stage EXCEPT ![s] = "closing"]
                 /\ UNCHANGED finished

Closed(s) == /\ stage[s] = "closing"
             /\ ~finished
             /\ stage' = [stage EXCEPT ![s] = "free"]
             /\ UNCHANGED finished

Finish == /\ ~finished
          /\ \A s \in Socks : stage[s] # "closing"
          /\ finished' = TRUE
          /\ UNCHANGED stage

Next == \/ \E s \in Socks : Open(s) \/ CloseNow(s) \/ CloseLater(s) \/ Closed(s)
        \/ Finish

Spec == Init /\ [][Next]_vars
=============================================================================
