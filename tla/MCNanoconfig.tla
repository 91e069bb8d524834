---------------------------- MODULE MCNanoconfig ----------------------------
(* Instances of Nanoconfig for TLC: values for the constants that a .cfg     *)
(* cannot write, and symmetry.                                               *)
EXTENDS Nanoconfig

CONSTANTS s1, s2, u1, u2

T1 == <<1>>
T12 == <<1, 2>>

OneTopic == {T1}
TwoTopics == {T1, T12}
NoTopicsOf == [u \in Urls |-> {}]
OneTopicOf == [u \in Urls |-> {T1}]
(* u1 is told of everything under topic 1, u2 only of topic 1.2.             *)
PrefixTopicsOf == [u \in Urls |-> IF u = u1 THEN {T1} ELSE {T12}]
NoSocket == -1

SockSymmetry == Permutations(Socks)
=============================================================================
