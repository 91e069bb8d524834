------------------------------ MODULE MCNccat ------------------------------
(* An instance of Nccat for TLC: one socket type per loop and branch, and    *)
(* every kind of option.                                                     *)
EXTENDS Nccat

Tried == {"push", "sub", "req", "surveyor", "rep", "pair", "topology", "data", "file",
          "interval", "ascii", "subscribe", "help"}
Ambiguous == {"req", "rep", "respondent"}
Unknown == {}
SomeWords == {{o} : o \in Tried} \union {Ambiguous, Unknown}
=============================================================================
