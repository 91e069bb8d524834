--------------------------- MODULE OptionsProofs ---------------------------
(* What nn_parse_options accepts, proved for every table of options.         *)
EXTENDS Options, TLAPS

(* The invariant is about the options processed so far: they are options,    *)
(* and MaskExact holds of them.                                              *)
OptInv == /\ given \in Seq(Option)
          /\ MaskExact
          /\ parse = "accepted" => Met

USE OptionsAssumption

(* What one more option adds to a line without conflicts: its flags, and no  *)
(* conflict, since it was compared with everything before it and conflicts   *)
(* go both ways.                                                             *)
LEMMA OneMore ==
  ASSUME given \in Seq(Option), mask = Provided,
         \A i, j \in 1 .. Len(given) :
           i # j => Conflicts[given[i]] \intersect Provides[given[j]] = {},
         NEW o \in Option, ~Conflicting(o),
         given' = Append(given, o)
  PROVE  /\ mask \union Provides[o] = Provided'
         /\ \A i, j \in 1 .. Len(given') :
              i # j => Conflicts[given'[i]] \intersect Provides[given'[j]] = {}
<1> DEFINE line == given'
<1>1. /\ line \in Seq(Option)
      /\ Len(line) = Len(given) + 1
      /\ Len(given) \in Nat
      /\ \A i \in 1 .. Len(given) : line[i] = given[i] /\ given[i] \in Option
      /\ line[Len(line)] = o
  OBVIOUS
<1> HIDE DEF line
<1>2. mask \union Provides[o] = UNION {Provides[line[i]] : i \in 1 .. Len(line)}
  <2>1. ASSUME NEW f \in mask
        PROVE  \E i \in 1 .. Len(line) : f \in Provides[line[i]]
    <3>1. PICK i \in 1 .. Len(given) : f \in Provides[given[i]]
      BY <2>1 DEF Provided
    <3>2. i \in 1 .. Len(line) /\ line[i] = given[i]
      BY <1>1, <3>1
    <3> QED BY <3>1, <3>2
  <2>2. ASSUME NEW f \in Provides[o]
        PROVE  \E i \in 1 .. Len(line) : f \in Provides[line[i]]
    <3>1. Len(line) \in 1 .. Len(line)
      BY <1>1
    <3> QED BY <1>1, <2>2, <3>1
  <2>3. ASSUME NEW i \in 1 .. Len(line), NEW f \in Provides[line[i]]
        PROVE  f \in mask \union Provides[o]
    <3>1. CASE i = Len(line)
      BY <1>1, <2>3, <3>1
    <3>2. CASE i # Len(line)
      <4>1. \A m \in Nat : \A k \in 1 .. m + 1 : k # m + 1 => k \in 1 .. m
        OBVIOUS
      <4>2. i \in 1 .. Len(given)
        <5>1. i \in 1 .. Len(given) + 1 /\ i # Len(given) + 1 /\ Len(given) \in Nat
          BY <1>1, <3>2, Zenon
        <5> QED BY <4>1, <5>1, Zenon
      <4>3. i \in 1 .. Len(given) /\ line[i] = given[i]
        BY <1>1, <4>2, Zenon
      <4> QED BY <2>3, <4>3 DEF Provided
    <3> QED BY <3>1, <3>2
  <2>4. \A f : f \in mask \union Provides[o]
              <=> \E i \in 1 .. Len(line) : f \in Provides[line[i]]
    BY <2>1, <2>2, <2>3
  <2>5. mask \union Provides[o] \subseteq UNION {Provides[line[i]] : i \in 1 .. Len(line)}
    BY <2>4
  <2>6. UNION {Provides[line[i]] : i \in 1 .. Len(line)} \subseteq mask \union Provides[o]
    BY <2>4
  <2> QED BY <2>5, <2>6, Zenon
<1>3. ASSUME NEW i \in 1 .. Len(given)
      PROVE  /\ Conflicts[o] \intersect Provides[given[i]] = {}
             /\ Conflicts[given[i]] \intersect Provides[o] = {}
  <2>1. Provides[given[i]] \subseteq mask
    BY DEF Provided
  <2>2. Conflicts[o] \intersect Provides[given[i]] = {}
    BY <2>1 DEF Conflicting
  <2> QED BY <1>1, <2>2, SymmetricConflicts
<1>4. ASSUME NEW i \in 1 .. Len(line), NEW j \in 1 .. Len(line), i # j
      PROVE  Conflicts[line[i]] \intersect Provides[line[j]] = {}
  <2>1. CASE i = Len(line)
    <3>1. j \in 1 .. Len(given) /\ line[j] = given[j] /\ line[i] = o
      BY <1>1, <1>4, <2>1
    <3> QED BY <1>3, <3>1
  <2>2. CASE j = Len(line)
    <3>1. i \in 1 .. Len(given) /\ line[i] = given[i] /\ line[j] = o
      BY <1>1, <1>4, <2>2
    <3> QED BY <1>3, <3>1
  <2>3. CASE i # Len(line) /\ j # Len(line)
    <3>1. /\ i \in 1 .. Len(given) /\ line[i] = given[i]
          /\ j \in 1 .. Len(given) /\ line[j] = given[j]
      BY <1>1, <2>3
    <3> QED BY <1>4, <3>1
  <2> QED BY <2>1, <2>2, <2>3
<1> QED BY <1>2, <1>4 DEF line, Provided

(* One option keeps the invariant, whatever becomes of it.                   *)
LEMMA ProcessStep ==
  ASSUME OptInv, parse \in {"arg0", "args"},
         NEW o \in Option, NEW fits \in BOOLEAN, Process(o, fits)
  PROVE  OptInv'
<1>1. given' = Append(given, o) /\ given' \in Seq(Option)
  BY DEF OptInv, Process
<1>2. parse' # "accepted"
  BY DEF Process
<1>3. CASE Conflicting(o)
  BY <1>1, <1>2, <1>3 DEF OptInv, MaskExact, Process
<1>4. CASE ~Conflicting(o)
  <2>1. mask' = mask \union Provides[o]
    BY <1>4 DEF Process
  <2>2. /\ given \in Seq(Option) /\ mask = Provided
        /\ \A i, j \in 1 .. Len(given) :
             i # j => Conflicts[given[i]] \intersect Provides[given[j]] = {}
    BY DEF OptInv, MaskExact
  <2>3. /\ mask \union Provides[o] = Provided'
        /\ \A i, j \in 1 .. Len(given') :
             i # j => Conflicts[given'[i]] \intersect Provides[given'[j]] = {}
    BY <1>1, <1>4, <2>2, OneMore
  <2>4. MaskExact'
    BY <2>1, <2>3 DEF MaskExact
  <2> QED BY <1>1, <1>2, <2>4 DEF OptInv
<1> QED BY <1>3, <1>4

(* A line that is refused keeps what was processed.                          *)
LEMMA RefuseStep == ASSUME OptInv, Refuse PROVE OptInv'
  BY DEF OptInv, MaskExact, Refuse

LEMMA Initially == OptInit => OptInv
<1> SUFFICES ASSUME OptInit PROVE OptInv
  OBVIOUS
<1>1. given = <<>> /\ mask = {} /\ parse = "arg0"
  BY DEF OptInit
<1>2. given \in Seq(Option) /\ Len(given) = 0
  BY <1>1
<1>3. Provided = {}
  BY <1>2 DEF Provided
<1> QED BY <1>1, <1>2, <1>3 DEF OptInv, MaskExact

LEMMA Step == OptInv /\ [OptNext]_optVars => OptInv'
<1> SUFFICES ASSUME OptInv, [OptNext]_optVars PROVE OptInv'
  OBVIOUS
<1>1. CASE ParseArg0
  <2>1. ASSUME NEW o \in Arg0, Process(o, TRUE) PROVE OptInv'
    BY <1>1, <2>1, ProcessStep DEF ParseArg0
  <2>2. CASE parse' = "args" /\ UNCHANGED <<mask, given>>
    BY <1>1, <2>2 DEF OptInv, MaskExact, Provided, ParseArg0
  <2> QED BY <1>1, <2>1, <2>2 DEF ParseArg0
<1>2. ASSUME NEW o \in Option, NEW attached \in BOOLEAN, NEW more \in BOOLEAN,
             NEW fits \in BOOLEAN, ParseOption(o, attached, more, fits)
      PROVE  OptInv'
  <2>1. CASE Refuse
    BY <2>1, RefuseStep
  <2>2. CASE Process(o, fits)
    BY <1>2, <2>2, ProcessStep DEF ParseOption
  <2> QED BY <1>2, <2>1, <2>2 DEF ParseOption
<1>3. CASE ParseUnclear
  BY <1>3, RefuseStep DEF ParseUnclear
<1>4. CASE CheckRequires
  <2>1. /\ mask' = mask /\ given' = given /\ parse = "args"
        /\ parse' \in {"accepted", "refused"}
        /\ parse' = "accepted" => Met
    BY <1>4 DEF CheckRequires
  <2>2. MaskExact'
    BY <2>1 DEF OptInv, MaskExact, Provided
  <2>3. Met => Met'
    BY <2>1 DEF Met, ToSet
  <2> QED BY <2>1, <2>2, <2>3 DEF OptInv
<1>5. CASE UNCHANGED optVars
  BY <1>5 DEF optVars, OptInv, MaskExact, Provided, Met, ToSet
<1> QED BY <1>1, <1>2, <1>3, <1>4, <1>5 DEF OptNext

(* The invariant says what was promised of an accepted line.                 *)
LEMMA Enough == OptInv => AcceptedCompatible
<1> SUFFICES ASSUME OptInv, parse = "accepted" PROVE Compatible
  BY DEF AcceptedCompatible
<1>1. mask = Provided /\ Met
  BY DEF OptInv, MaskExact
<1>2. ASSUME NEW i \in 1 .. Len(given) PROVE Requires[given[i]] \subseteq Provided
  <2>1. given[i] \in ToSet(given)
    BY DEF OptInv, ToSet
  <2> QED BY <1>1, <2>1 DEF Met
<1> QED BY <1>1, <1>2 DEF OptInv, MaskExact, Compatible, Met

-----------------------------------------------------------------------------
(* Whatever the table of options says, as long as conflicts are mutual, and  *)
(* in whatever order a line gives them: when nn_parse_options returns, no    *)
(* two of the options given exclude each other, and everything that is       *)
(* required has been provided.                                               *)
THEOREM Accepted == OptSpec => []AcceptedCompatible
  BY Initially, Step, Enough, PTL DEF OptSpec
=============================================================================
