---------------------------- MODULE NcApplyProofs ----------------------------
(* Theorems about NcApply, for every set of sockets, addresses and topics,   *)
(* every set of replies and any number of them.                              *)
EXTENDS NcApply, FiniteSetTheorems, TLAPS

-----------------------------------------------------------------------------
(* Sequences.                                                                *)

(* The position before a removal of what is at position k after it.          *)
Skip(i, k) == IF k < i THEN k ELSE k + 1

LEMMA SkipOneToOne ==
  ASSUME NEW n \in Nat, NEW i \in 1 .. n
  PROVE  /\ \A k \in 1 .. n - 1 : Skip(i, k) \in 1 .. n /\ Skip(i, k) # i
         /\ \A k, m \in 1 .. n - 1 : Skip(i, k) = Skip(i, m) => k = m
  BY DEF Skip

LEMMA RemoveShift ==
  ASSUME NEW S, NEW q \in Seq(S), NEW i \in 1 .. Len(q)
  PROVE  /\ RemoveAt(q, i) \in Seq(S)
         /\ Len(q) \in Nat
         /\ Len(RemoveAt(q, i)) = Len(q) - 1
         /\ RemoveAt(q, i) = [k \in 1 .. Len(q) - 1 |-> q[Skip(i, k)]]
         /\ \A k \in 1 .. Len(q) - 1 : Skip(i, k) \in 1 .. Len(q) /\ Skip(i, k) # i
         /\ \A j \in 1 .. Len(q) : j # i => \E k \in 1 .. Len(q) - 1 : Skip(i, k) = j
         /\ \A k, m \in 1 .. Len(q) - 1 : Skip(i, k) = Skip(i, m) => k = m
  <1>1. Len(q) \in Nat /\ i \in Nat
    OBVIOUS
  <1> DEFINE front == SubSeq(q, 1, i - 1)
             back == SubSeq(q, i + 1, Len(q))
  <1>2. front \in Seq(S) /\ Len(front) = i - 1 /\ \A k \in 1 .. i - 1 : front[k] = q[k]
    BY <1>1
  <1>3. /\ back \in Seq(S) /\ Len(back) = Len(q) - i
        /\ \A k \in 1 .. Len(q) - i : back[k] = q[i + k]
    BY <1>1
  <1>4. RemoveAt(q, i) = front \o back
    BY DEF RemoveAt
  <1> HIDE DEF front, back
  <1>5. RemoveAt(q, i) \in Seq(S) /\ Len(RemoveAt(q, i)) = Len(q) - 1
    BY <1>1, <1>2, <1>3, <1>4
  <1>6. ASSUME NEW k \in 1 .. Len(q) - 1
        PROVE  RemoveAt(q, i)[k] = q[Skip(i, k)]
    <2>1. CASE k < i
      <3>1. k \in 1 .. Len(front)
        BY <1>1, <1>2, <2>1
      <3>2. (front \o back)[k] = front[k]
        BY <1>2, <1>3, <3>1
      <3> QED BY <1>1, <1>2, <1>4, <2>1, <3>2 DEF Skip
    <2>2. CASE ~(k < i)
      <3>1. k - Len(front) \in 1 .. Len(back) /\ i + (k - Len(front)) = k + 1
        BY <1>1, <1>2, <1>3, <2>2
      <3>2. (front \o back)[k] = back[k - Len(front)]
        BY <1>1, <1>2, <1>3, <2>2
      <3> QED BY <1>1, <1>2, <1>3, <1>4, <2>2, <3>1, <3>2 DEF Skip
    <2> QED BY <2>1, <2>2
  <1>7. \A j \in 1 .. Len(q) : j # i => \E k \in 1 .. Len(q) - 1 : Skip(i, k) = j
    <2> SUFFICES ASSUME NEW j \in 1 .. Len(q), j # i
                 PROVE  \E k \in 1 .. Len(q) - 1 : Skip(i, k) = j
      OBVIOUS
    <2>1. CASE j < i
      <3>1. j \in 1 .. Len(q) - 1 /\ Skip(i, j) = j
        BY <1>1, <2>1 DEF Skip
      <3> QED BY <3>1
    <2>2. CASE j > i
      <3>1. j - 1 \in 1 .. Len(q) - 1 /\ Skip(i, j - 1) = j
        BY <1>1, <2>2 DEF Skip
      <3> QED BY <3>1
    <2> QED BY <1>1, <2>1, <2>2
  <1>8. RemoveAt(q, i) = [k \in 1 .. Len(q) - 1 |-> q[Skip(i, k)]]
    <2> DEFINE r == RemoveAt(q, i)
    <2> HIDE DEF r
    <2>1. /\ r \in Seq(S) /\ Len(r) = Len(q) - 1
          /\ \A k \in 1 .. Len(q) - 1 : r[k] = q[Skip(i, k)]
      BY <1>5, <1>6 DEF r
    <2>2. r = [k \in 1 .. Len(q) - 1 |-> r[k]]
      BY <2>1
    <2> QED BY <2>1, <2>2 DEF r
  <1>9. \A k \in 1 .. Len(q) - 1 : Skip(i, k) \in 1 .. Len(q) /\ Skip(i, k) # i
    BY <1>1 DEF Skip
  <1>10. \A k, m \in 1 .. Len(q) - 1 : Skip(i, k) = Skip(i, m) => k = m
    BY <1>1 DEF Skip
  <1> QED BY <1>1, <1>5, <1>7, <1>8, <1>9, <1>10

LEMMA RemoveNat ==
  ASSUME NEW q \in Seq(Nat), NEW i \in 1 .. Len(q)
  PROVE  /\ RemoveAt(q, i) \in Seq(Nat)
         /\ Len(RemoveAt(q, i)) = Len(q) - 1
         /\ RemoveAt(q, i) = [k \in 1 .. Len(q) - 1 |-> q[Skip(i, k)]]
         /\ \A k \in 1 .. Len(q) - 1 : Skip(i, k) \in 1 .. Len(q)
  <1>1. RemoveAt(q, i) \in Seq(Nat) /\ Len(RemoveAt(q, i)) = Len(q) - 1
    BY RemoveShift
  <1>2. RemoveAt(q, i) = [k \in 1 .. Len(q) - 1 |-> q[Skip(i, k)]]
    BY RemoveShift
  <1>3. \A k \in 1 .. Len(q) - 1 : Skip(i, k) \in 1 .. Len(q)
    BY RemoveShift
  <1> QED BY <1>1, <1>2, <1>3

LEMMA RemoveSub ==
  ASSUME NEW q \in Seq(Subscription), NEW i \in 1 .. Len(q)
  PROVE  /\ Len(q) \in Nat /\ Len(RemoveAt(q, i)) = Len(q) - 1
         /\ RemoveAt(q, i) = [k \in 1 .. Len(q) - 1 |-> q[Skip(i, k)]]
  <1>1. Len(q) \in Nat /\ Len(RemoveAt(q, i)) = Len(q) - 1
    BY RemoveShift
  <1>2. RemoveAt(q, i) = [k \in 1 .. Len(q) - 1 |-> q[Skip(i, k)]]
    BY RemoveShift
  <1> QED BY <1>1, <1>2

LEMMA AppendShift ==
  ASSUME NEW S, NEW q \in Seq(S), NEW x \in S
  PROVE  /\ Append(q, x) \in Seq(S)
         /\ Len(q) \in Nat
         /\ Len(Append(q, x)) = Len(q) + 1
         /\ Append(q, x)[Len(q) + 1] = x
         /\ \A k \in 1 .. Len(q) : Append(q, x)[k] = q[k]
         /\ \A k \in 1 .. Len(q) + 1 : k \in 1 .. Len(q) \/ k = Len(q) + 1
  OBVIOUS

LEMMA ToSetHead ==
  ASSUME NEW S, NEW q \in Seq(S), q # <<>>
  PROVE  /\ Head(q) \in S /\ Tail(q) \in Seq(S)
         /\ ToSet(q) = {Head(q)} \union ToSet(Tail(q))
  <1>1. /\ Len(q) \in Nat /\ Len(q) >= 1 /\ Head(q) = q[1]
        /\ Tail(q) \in Seq(S) /\ Len(Tail(q)) = Len(q) - 1
    OBVIOUS
  <1>2. \A k \in 1 .. Len(q) - 1 : Tail(q)[k] = q[k + 1] /\ k + 1 \in 1 .. Len(q)
    BY <1>1
  <1>3. DOMAIN q = 1 .. Len(q) /\ DOMAIN Tail(q) = 1 .. Len(q) - 1
    BY <1>1
  <1>4. \A j \in 1 .. Len(q) : j = 1 \/ \E k \in 1 .. Len(q) - 1 : j = k + 1
    <2>1. \A j \in 1 .. Len(q) : j # 1 => j - 1 \in 1 .. Len(q) - 1 /\ j = (j - 1) + 1
      BY <1>1
    <2> QED BY <2>1
  <1>5. 1 \in 1 .. Len(q) /\ Head(q) \in S
    BY <1>1
  <1>6. \A x : x \in ToSet(q) <=> \E j \in 1 .. Len(q) : x = q[j]
    BY <1>3 DEF ToSet
  <1>7. \A x : x \in ToSet(Tail(q)) <=> \E k \in 1 .. Len(q) - 1 : x = q[k + 1]
    BY <1>2, <1>3 DEF ToSet
  <1>8. \A x : x \in ToSet(q) <=> x = Head(q) \/ x \in ToSet(Tail(q))
    BY ZenonT(60), <1>1, <1>2, <1>4, <1>5, <1>6, <1>7
  <1> QED BY <1>1, <1>5, <1>8

-----------------------------------------------------------------------------
(* Numbers.                                                                  *)

(* By way of the intervals 1 .. x, which inclusion orders like the x.        *)
LEMMA Smallest ==
  ASSUME NEW T, T \subseteq Nat, T # {}
  PROVE  \E x \in T : \A y \in T : x <= y
  <1> DEFINE F == {1 .. x : x \in T}
  <1>1. F \subseteq FiniteSubsetsOf(Nat)
    <2> SUFFICES ASSUME NEW x \in T PROVE 1 .. x \in FiniteSubsetsOf(Nat)
      OBVIOUS
    <2>1. x \in Int /\ 1 \in Int
      OBVIOUS
    <2>2. IsFiniteSet(1 .. x)
      BY <2>1, FS_Interval
    <2>3. 1 .. x \subseteq Nat
      OBVIOUS
    <2> QED BY <2>2, <2>3 DEF FiniteSubsetsOf
  <1>2. F # {}
    OBVIOUS
  <1> HIDE DEF F
  <1>3. PICK X \in F : \A Y \in F : ~(<<Y, X>> \in StrictSubsetOrdering(Nat))
    BY <1>1, <1>2, FS_StrictSubsetOrderingWellFounded, WFMin
  <1>4. PICK x \in T : X = 1 .. x
    BY DEF F
  <1>5. ASSUME NEW y \in T, y < x PROVE FALSE
    <2>1. 1 .. y \subseteq 1 .. x
      BY <1>5
    <2>2. x \in 1 .. x /\ x \notin 1 .. y
      BY <1>5
    <2>3. /\ 1 .. y \in SUBSET Nat /\ 1 .. x \in SUBSET Nat
          /\ 1 .. y # 1 .. x
      BY <2>2
    <2>4. <<1 .. y, 1 .. x>> \in StrictSubsetOrdering(Nat)
      BY <2>1, <2>3 DEF StrictSubsetOrdering
    <2>5. 1 .. y \in F
      BY DEF F
    <2> QED BY <1>3, <1>4, <2>4, <2>5
  <1>6. \A y \in T : x <= y
    BY <1>5
  <1> QED BY <1>6

LEMMA Largest ==
  ASSUME NEW T, T \subseteq Nat, T # {}, NEW n \in Nat, \A y \in T : y <= n
  PROVE  Max(T) \in T /\ \A y \in T : y <= Max(T)
  <1> DEFINE U == {n - y : y \in T}
  <1>1. U \subseteq Nat /\ U # {}
    <2>1. \A y \in T : n - y \in Nat
      OBVIOUS
    <2> QED BY <2>1
  <1> HIDE DEF U
  <1>2. PICK u \in U : \A v \in U : u <= v
    BY <1>1, Smallest
  <1>3. PICK x \in T : u = n - x
    BY DEF U
  <1>4. \A y \in T : x >= y
    <2> SUFFICES ASSUME NEW y \in T PROVE x >= y
      OBVIOUS
    <2>1. n - x <= n - y
      BY <1>2, <1>3 DEF U
    <2> QED BY <2>1
  <1>5. \E z \in T : \A y \in T : z >= y
    BY <1>4
  <1>6. Max(T) \in T /\ \A y \in T : Max(T) >= y
    BY <1>5 DEF Max
  <1> QED BY <1>6

(* The first element that is not marked.                                     *)
LEMMA FirstIsStale ==
  ASSUME NEW q, Len(q) \in Nat, Stale(q) # {}
  PROVE  FirstStale(q) \in 1 .. Len(q) /\ ~q[FirstStale(q)].visited
  <1>1. Stale(q) \subseteq Nat
    BY DEF Stale
  <1>2. \E i \in Stale(q) : \A k \in Stale(q) : i <= k
    BY <1>1, Smallest
  <1>3. FirstStale(q) \in Stale(q)
    BY <1>2 DEF FirstStale
  <1> QED BY <1>3 DEF Stale

(* A number that is not in use exists among one more than there are in use.  *)
LEMMA EidFree ==
  ASSUME NEW s, IsFiniteSet(real[s])
  PROVE  FreeEid(s) \in Nat \ {0} /\ \A e \in real[s] : e.eid # FreeEid(s)
  <1> DEFINE c == Cardinality(real[s])
             N == 1 .. c + 1
  <1>1. c \in Nat
    BY FS_CardinalityType
  <1>2. IsFiniteSet(N) /\ Cardinality(N) = c + 1
    BY SMTT(30), <1>1, FS_Interval
  <1>3. \E n \in N : \A e \in real[s] : e.eid # n
    <2> SUFFICES ASSUME \A n \in N : \E e \in real[s] : e.eid = n PROVE FALSE
      OBVIOUS
    <2> DEFINE f == [n \in N |-> CHOOSE e \in real[s] : e.eid = n]
    <2> HIDE DEF N, c
    <2>1. \A n \in N : f[n] \in real[s] /\ f[n].eid = n
      OBVIOUS
    <2>2. f \in [N -> real[s]]
      BY <2>1
    <2>3. Cardinality(real[s]) < Cardinality(N)
      BY <1>1, <1>2 DEF c
    <2> HIDE DEF f
    <2>4. \E x, y \in N : x # y /\ f[x] = f[y]
      BY <1>2, <2>2, <2>3, FS_PigeonHole
    <2> QED BY <2>1, <2>4
  <1>4. FreeEid(s) \in N /\ \A e \in real[s] : e.eid # FreeEid(s)
    BY <1>3 DEF FreeEid
  <1> QED BY <1>1, <1>4
-----------------------------------------------------------------------------
(* What marking does to the lists: nothing but the marks change.             *)

LEMMA UnvisitedEps ==
  ASSUME NEW q \in Seq(Endpoint)
  PROVE  /\ Unvisited(q) \in Seq(Endpoint) /\ Len(q) \in Nat
         /\ Len(Unvisited(q)) = Len(q)
         /\ \A i \in 1 .. Len(q) : /\ Unvisited(q)[i].addr = q[i].addr
                                   /\ Unvisited(q)[i].eid = q[i].eid
                                   /\ ~Unvisited(q)[i].visited
  <1>1. Len(q) \in Nat /\ \A i \in 1 .. Len(q) : q[i] \in Endpoint
    OBVIOUS
  <1>2. \A i \in 1 .. Len(q) : [q[i] EXCEPT !.visited = FALSE] \in Endpoint
    BY <1>1 DEF Endpoint
  <1>3. Unvisited(q) \in Seq(Endpoint) /\ Len(Unvisited(q)) = Len(q)
    BY <1>1, <1>2 DEF Unvisited
  <1>4. \A i \in 1 .. Len(q) : Unvisited(q)[i] = [q[i] EXCEPT !.visited = FALSE]
    BY DEF Unvisited
  <1> QED BY <1>1, <1>3, <1>4 DEF Endpoint

LEMMA MarkedEps ==
  ASSUME NEW q \in Seq(Endpoint), NEW a
  PROVE  /\ Marked(q, a) \in Seq(Endpoint) /\ Len(q) \in Nat
         /\ Len(Marked(q, a)) = Len(q)
         /\ \A i \in 1 .. Len(q) :
              /\ Marked(q, a)[i].addr = q[i].addr
              /\ Marked(q, a)[i].eid = q[i].eid
              /\ Marked(q, a)[i].visited <=> q[i].visited \/ q[i].addr = a
  <1>1. Len(q) \in Nat /\ \A i \in 1 .. Len(q) : q[i] \in Endpoint
    OBVIOUS
  <1>2. \A i \in 1 .. Len(q) : [q[i] EXCEPT !.visited = TRUE] \in Endpoint
    BY <1>1 DEF Endpoint
  <1>3. Marked(q, a) \in Seq(Endpoint) /\ Len(Marked(q, a)) = Len(q)
    BY <1>1, <1>2 DEF Marked
  <1>4. \A i \in 1 .. Len(q) :
          Marked(q, a)[i] = IF q[i].addr = a THEN [q[i] EXCEPT !.visited = TRUE] ELSE q[i]
    BY DEF Marked
  <1> QED BY <1>1, <1>3, <1>4 DEF Endpoint

LEMMA UnvisitedSubs ==
  ASSUME NEW q \in Seq(Subscription)
  PROVE  /\ Unvisited(q) \in Seq(Subscription) /\ Len(q) \in Nat
         /\ Len(Unvisited(q)) = Len(q)
         /\ \A i \in 1 .. Len(q) : /\ Unvisited(q)[i].id = q[i].id
                                   /\ Unvisited(q)[i].topic = q[i].topic
                                   /\ ~Unvisited(q)[i].visited
  <1>1. Len(q) \in Nat /\ \A i \in 1 .. Len(q) : q[i] \in Subscription
    OBVIOUS
  <1>2. \A i \in 1 .. Len(q) : [q[i] EXCEPT !.visited = FALSE] \in Subscription
    BY <1>1 DEF Subscription
  <1>3. Unvisited(q) \in Seq(Subscription) /\ Len(Unvisited(q)) = Len(q)
    BY <1>1, <1>2 DEF Unvisited
  <1>4. \A i \in 1 .. Len(q) : Unvisited(q)[i] = [q[i] EXCEPT !.visited = FALSE]
    BY DEF Unvisited
  <1> QED BY <1>1, <1>3, <1>4 DEF Subscription

LEMMA MarkedOfTopic ==
  ASSUME NEW q \in Seq(Subscription), NEW t
  PROVE  /\ MarkedSubs(q, t) \in Seq(Subscription) /\ Len(q) \in Nat
         /\ Len(MarkedSubs(q, t)) = Len(q)
         /\ \A i \in 1 .. Len(q) :
              /\ MarkedSubs(q, t)[i].id = q[i].id
              /\ MarkedSubs(q, t)[i].topic = q[i].topic
              /\ MarkedSubs(q, t)[i].visited <=> q[i].visited \/ q[i].topic = t
  <1>1. Len(q) \in Nat /\ \A i \in 1 .. Len(q) : q[i] \in Subscription
    OBVIOUS
  <1>2. \A i \in 1 .. Len(q) : [q[i] EXCEPT !.visited = TRUE] \in Subscription
    BY <1>1 DEF Subscription
  <1>3. MarkedSubs(q, t) \in Seq(Subscription) /\ Len(MarkedSubs(q, t)) = Len(q)
    BY <1>1, <1>2 DEF MarkedSubs
  <1>4. \A i \in 1 .. Len(q) :
          MarkedSubs(q, t)[i] = IF q[i].topic = t THEN [q[i] EXCEPT !.visited = TRUE] ELSE q[i]
    BY DEF MarkedSubs
  <1> QED BY <1>1, <1>3, <1>4 DEF Subscription
-----------------------------------------------------------------------------
(* Type correctness. The array that is being read decides the type of what   *)
(* is left of it; nn_bind and nn_connect return a number or -1, never 0; the *)
(* numbers of the subscriptions have a bound, so that there is a new one;    *)
(* and a subscription is linked from its topic, so that there is something   *)
(* to unlink.                                                                *)

Eids == (Nat \ {0}) \union {-1}

TodoFits == /\ phase = "addresses" => todo \in Seq(Addrs \union {Bad})
            /\ phase = "topics" => todo \in Seq(Topics \union {Bad})
EidsSigned == \A s \in Socks : \A i \in 1 .. Len(eps[s]) : eps[s][i].eid \in Eids
RealFinite == \A s \in Socks : IsFiniteSet(real[s])
IdsBounded == \E n \in Nat : \A t \in Topics : \A k \in 1 .. Len(topics[t]) : topics[t][k] <= n

Linked == \A s \in Socks : \A i \in 1 .. Len(subs[s]) :
            \E k \in 1 .. Len(topics[subs[s][i].topic]) :
              topics[subs[s][i].topic][k] = subs[s][i].id

Typed == TypeOK /\ TodoFits /\ EidsSigned /\ RealFinite /\ IdsBounded

LEMMA NewIdFresh ==
  ASSUME Typed
  PROVE  /\ NewId \in Nat
         /\ \A t \in Topics : \A k \in 1 .. Len(topics[t]) : topics[t][k] < NewId
  <1> DEFINE T == {0} \union UNION {ToSet(topics[t]) : t \in Topics}
  <1>1. \A t \in Topics : topics[t] \in Seq(Nat)
    BY DEF Typed, TypeOK
  <1>2. \A t \in Topics : \A x : x \in ToSet(topics[t]) <=>
                                   \E k \in 1 .. Len(topics[t]) : x = topics[t][k]
    BY <1>1 DEF ToSet
  <1>3. \A y : y \in T <=> y = 0 \/ \E t \in Topics : y \in ToSet(topics[t])
    OBVIOUS
  <1>4. NewId = 1 + Max(T)
    BY DEF NewId
  <1> HIDE DEF T
  <1>5. T \subseteq Nat /\ T # {}
    <2>1. \A t \in Topics : \A k \in 1 .. Len(topics[t]) : topics[t][k] \in Nat
      BY <1>1
    <2>2. 0 \in T
      BY <1>3
    <2>3. ASSUME NEW y \in T PROVE y \in Nat
      BY <1>2, <1>3, <2>1
    <2> QED BY <2>2, <2>3
  <1>6. PICK n \in Nat : \A t \in Topics : \A k \in 1 .. Len(topics[t]) : topics[t][k] <= n
    BY DEF Typed, IdsBounded
  <1>7. \A y \in T : y <= n
    BY SMTT(30), <1>2, <1>3, <1>6
  <1>8. \A t \in Topics : \A k \in 1 .. Len(topics[t]) : topics[t][k] \in T
    BY <1>2, <1>3
  <1>9. Max(T) \in Nat /\ \A y \in T : y <= Max(T) /\ y \in Nat
    BY <1>5, <1>7, Largest
  <1> QED BY <1>4, <1>8, <1>9

LEMMA TypedInit == Init => Typed
  <1> SUFFICES ASSUME Init PROVE Typed
    OBVIOUS
  <1> USE DEF Init
  <1>1. TypeOK
    <2>1. reply \in ReplyType
      BY DEF ReplyType
    <2>2. count \in 0 .. MaxReplies
      BY ApplyAssumption DEF ApplyAssumption
    <2>3. /\ eps \in [Socks -> Seq(Endpoint)] /\ subs \in [Socks -> Seq(Subscription)]
          /\ topics \in [Topics -> Seq(Nat)] /\ heard \in [Topics -> Nat]
          /\ real \in [Socks -> SUBSET [addr : Addrs, eid : Nat \ {0}]]
          /\ orphans \in [Socks -> SUBSET [addr : Addrs, eid : Nat \ {0}]]
          /\ refused \subseteq Topics
      OBVIOUS
    <2>4. todo \in Seq(Addrs \union {Bad}) \union Seq(Topics \union {Bad})
      OBVIOUS
    <2> QED BY <2>1, <2>2, <2>3, <2>4 DEF TypeOK
  <1>2. TodoFits /\ EidsSigned /\ RealFinite
    BY FS_EmptySet DEF TodoFits, EidsSigned, RealFinite
  <1>3. IdsBounded
    <2>1. \A t \in Topics : \A k \in 1 .. Len(topics[t]) : topics[t][k] <= 0
      OBVIOUS
    <2> QED BY <2>1 DEF IdsBounded
  <1> QED BY <1>1, <1>2, <1>3 DEF Typed

(* A step that changes the endpoints of one socket.                          *)
LEMMA TypedEndpoints ==
  ASSUME Typed, NEW s \in Socks, NEW q \in Seq(Endpoint),
         eps' = [eps EXCEPT ![s] = q],
         \A i \in 1 .. Len(q) : q[i].eid \in Eids,
         NEW R \in SUBSET [addr : Addrs, eid : Nat \ {0}],
         real' = [real EXCEPT ![s] = R], IsFiniteSet(R)
  PROVE  /\ eps' \in [Socks -> Seq(Endpoint)]
         /\ real' \in [Socks -> SUBSET [addr : Addrs, eid : Nat \ {0}]]
         /\ EidsSigned' /\ RealFinite'
  <1>1. eps \in [Socks -> Seq(Endpoint)]
        /\ real \in [Socks -> SUBSET [addr : Addrs, eid : Nat \ {0}]]
    BY DEF Typed, TypeOK
  <1>2. /\ eps'[s] = q /\ real'[s] = R
        /\ \A r \in Socks \ {s} : eps'[r] = eps[r] /\ real'[r] = real[r]
    BY <1>1
  <1>3. EidsSigned'
    BY <1>2 DEF Typed, EidsSigned
  <1>4. RealFinite'
    BY <1>2 DEF Typed, RealFinite
  <1> QED BY <1>1, <1>3, <1>4

LEMMA SameReal == ASSUME Typed, NEW s \in Socks
                  PROVE  /\ real = [real EXCEPT ![s] = real[s]]
                         /\ real[s] \in SUBSET [addr : Addrs, eid : Nat \ {0}]
                         /\ IsFiniteSet(real[s])
                         /\ eps[s] \in Seq(Endpoint)
                         /\ \A i \in 1 .. Len(eps[s]) : eps[s][i].eid \in Eids
  BY DEF Typed, TypeOK, RealFinite, EidsSigned

LEMMA TypedOpen ==
  ASSUME Typed, NEW eid \in Eids, OpenEndpoint(eid) PROVE Typed'
  <1> DEFINE a == Head(todo)
             x == [addr |-> a, eid |-> eid, visited |-> TRUE]
             q == Append(eps[cur], x)
             R == Opened(a, eid)
  <1>1. cur \in Socks
    BY DEF Typed, TypeOK
  <1>2. /\ todo \in Seq(Addrs \union {Bad}) /\ todo # <<>> /\ phase = "addresses"
        /\ a # Bad /\ todo' = Tail(todo)
        /\ eps' = [eps EXCEPT ![cur] = q] /\ real' = [real EXCEPT ![cur] = R]
        /\ UNCHANGED <<phase, cur, reply, ok, count, orphans, subs, topics, heard, refused>>
    BY DEF OpenEndpoint, At, Typed, TodoFits
  <1>3. a \in Addrs /\ Tail(todo) \in Seq(Addrs \union {Bad})
    BY <1>2, ToSetHead
  <1>4. x \in Endpoint /\ x.eid = eid
    BY <1>3 DEF Endpoint, Eids
  <1>5. eps[cur] \in Seq(Endpoint) /\ \A i \in 1 .. Len(eps[cur]) : eps[cur][i].eid \in Eids
    BY <1>1, SameReal
  <1>6. q \in Seq(Endpoint) /\ \A i \in 1 .. Len(q) : q[i].eid \in Eids
    <2> HIDE DEF x
    <2> QED BY <1>4, <1>5, AppendShift
  <1>7. R \in SUBSET [addr : Addrs, eid : Nat \ {0}] /\ IsFiniteSet(R)
    <2>1. real[cur] \in SUBSET [addr : Addrs, eid : Nat \ {0}] /\ IsFiniteSet(real[cur])
      BY <1>1, SameReal
    <2>2. CASE eid > 0
      <3>1. [addr |-> a, eid |-> eid] \in [addr : Addrs, eid : Nat \ {0}]
        BY <1>3, <2>2 DEF Eids
      <3>2. R = real[cur] \union {[addr |-> a, eid |-> eid]}
        BY <2>2 DEF Opened
      <3>3. IsFiniteSet(real[cur] \union {[addr |-> a, eid |-> eid]})
        BY <2>1, FS_AddElement, Zenon
      <3> QED BY <2>1, <3>1, <3>2, <3>3
    <2>3. CASE ~(eid > 0)
      BY <2>1, <2>3 DEF Opened
    <2> QED BY <2>2, <2>3
  <1> HIDE DEF a, q, R
  <1>8. /\ eps' \in [Socks -> Seq(Endpoint)]
        /\ real' \in [Socks -> SUBSET [addr : Addrs, eid : Nat \ {0}]]
        /\ EidsSigned' /\ RealFinite'
    BY <1>1, <1>2, <1>6, <1>7, TypedEndpoints
  <1>9. TodoFits'
    BY <1>2, <1>3 DEF TodoFits
  <1>10. IdsBounded'
    BY <1>2 DEF Typed, IdsBounded
  <1>11. todo' \in Seq(Addrs \union {Bad}) \union Seq(Topics \union {Bad})
    BY <1>2, <1>3
  <1>12. TypeOK'
    BY <1>2, <1>8, <1>11 DEF Typed, TypeOK
  <1> QED BY <1>8, <1>9, <1>10, <1>12 DEF Typed
(* A step that leaves the endpoints and the topic list alone.                *)
LEMMA TypedFrame ==
  ASSUME Typed, TypeOK', TodoFits', UNCHANGED <<eps, real, topics>> PROVE Typed'
  <1>1. EidsSigned' /\ RealFinite'
    BY DEF Typed, EidsSigned, RealFinite
  <1>2. IdsBounded'
    BY DEF Typed, IdsBounded
  <1> QED BY <1>1, <1>2 DEF Typed

(* A step that does not touch the topic list.                                *)
LEMMA TypedBounded == ASSUME Typed, topics' = topics PROVE IdsBounded'
  BY DEF Typed, IdsBounded

LEMMA TypedKeep == ASSUME Typed, KeepEndpoint PROVE Typed'
  <1> DEFINE q == Marked(eps[cur], Head(todo))
  <1>1. cur \in Socks
    BY DEF Typed, TypeOK
  <1>2. /\ todo \in Seq(Addrs \union {Bad}) /\ todo # <<>> /\ phase = "addresses"
        /\ todo' = Tail(todo) /\ eps' = [eps EXCEPT ![cur] = q]
        /\ UNCHANGED <<phase, cur, reply, ok, count, real, orphans, subs, topics, heard, refused>>
    BY DEF KeepEndpoint, At, Typed, TodoFits
  <1>3. /\ real = [real EXCEPT ![cur] = real[cur]]
        /\ real[cur] \in SUBSET [addr : Addrs, eid : Nat \ {0}] /\ IsFiniteSet(real[cur])
        /\ eps[cur] \in Seq(Endpoint)
        /\ \A i \in 1 .. Len(eps[cur]) : eps[cur][i].eid \in Eids
    BY <1>1, SameReal
  <1>4. q \in Seq(Endpoint) /\ \A i \in 1 .. Len(q) : q[i].eid \in Eids
    BY <1>3, MarkedEps
  <1> HIDE DEF q
  <1>5. /\ eps' \in [Socks -> Seq(Endpoint)]
        /\ real' \in [Socks -> SUBSET [addr : Addrs, eid : Nat \ {0}]]
        /\ EidsSigned' /\ RealFinite'
    BY <1>1, <1>2, <1>3, <1>4, TypedEndpoints
  <1>6. todo' \in Seq(Addrs \union {Bad})
    BY <1>2, ToSetHead
  <1>7. TypeOK' /\ TodoFits'
    BY <1>2, <1>5, <1>6 DEF Typed, TypeOK, TodoFits
  <1> QED BY <1>2, <1>5, <1>7, TypedBounded DEF Typed

LEMMA TypedBegin == ASSUME Typed, NEW s \in Socks, NEW r \in Replies, Begin(s, r) PROVE Typed'
  <1> DEFINE q == Unvisited(eps[s])
  <1>1. /\ eps' = [eps EXCEPT ![s] = q] /\ cur' = s /\ reply' = r /\ todo' = r.addrs
        /\ ok' = FALSE /\ phase' = "addresses" /\ count < MaxReplies /\ count' = count + 1
        /\ UNCHANGED <<real, orphans, subs, topics, heard, refused>>
    BY DEF Begin
  <1>2. /\ real = [real EXCEPT ![s] = real[s]]
        /\ real[s] \in SUBSET [addr : Addrs, eid : Nat \ {0}] /\ IsFiniteSet(real[s])
        /\ eps[s] \in Seq(Endpoint)
        /\ \A i \in 1 .. Len(eps[s]) : eps[s][i].eid \in Eids
    BY SameReal
  <1>3. q \in Seq(Endpoint) /\ \A i \in 1 .. Len(q) : q[i].eid \in Eids
    BY <1>2, UnvisitedEps
  <1> HIDE DEF q
  <1>4. /\ eps' \in [Socks -> Seq(Endpoint)]
        /\ real' \in [Socks -> SUBSET [addr : Addrs, eid : Nat \ {0}]]
        /\ EidsSigned' /\ RealFinite'
    BY <1>1, <1>2, <1>3, TypedEndpoints
  <1>5. r \in ReplyType /\ r.addrs \in Seq(Addrs \union {Bad})
    BY ApplyAssumption DEF ApplyAssumption, ReplyType
  <1>6. count' \in 0 .. MaxReplies
    BY <1>1, ApplyAssumption DEF ApplyAssumption, Typed, TypeOK
  <1>7. TypeOK' /\ TodoFits'
    BY <1>1, <1>4, <1>5, <1>6 DEF Typed, TypeOK, TodoFits
  <1> QED BY <1>1, <1>4, <1>7, TypedBounded DEF Typed

LEMMA TypedReopen == ASSUME Typed, NEW s \in Socks, Reopen(s) PROVE Typed'
  <1>1. /\ eps' = [eps EXCEPT ![s] = <<>>] /\ real' = [real EXCEPT ![s] = {}]
        /\ subs' = [subs EXCEPT ![s] = <<>>]
        /\ ok' = FALSE /\ phase = "idle" /\ count < MaxReplies /\ count' = count + 1
        /\ orphans' = [orphans EXCEPT ![s] = {}]
        /\ UNCHANGED <<phase, cur, reply, todo, topics, heard, refused>>
    BY DEF Reopen
  <1>2. <<>> \in Seq(Endpoint) /\ \A i \in 1 .. Len(<<>>) : <<>>[i].eid \in Eids
    OBVIOUS
  <1>3. {} \in SUBSET [addr : Addrs, eid : Nat \ {0}] /\ IsFiniteSet({})
    BY FS_EmptySet
  <1>4. /\ eps' \in [Socks -> Seq(Endpoint)]
        /\ real' \in [Socks -> SUBSET [addr : Addrs, eid : Nat \ {0}]]
        /\ EidsSigned' /\ RealFinite'
    BY <1>1, <1>2, <1>3, TypedEndpoints
  <1>5. count' \in 0 .. MaxReplies
    BY <1>1, ApplyAssumption DEF ApplyAssumption, Typed, TypeOK
  <1>6. subs' \in [Socks -> Seq(Subscription)]
    BY <1>1 DEF Typed, TypeOK
  <1>7. orphans' \in [Socks -> SUBSET [addr : Addrs, eid : Nat \ {0}]]
    BY <1>1 DEF Typed, TypeOK
  <1>8. TypeOK' /\ TodoFits'
    BY <1>1, <1>4, <1>5, <1>6, <1>7 DEF Typed, TypeOK, TodoFits
  <1> QED BY <1>1, <1>4, <1>8, TypedBounded DEF Typed

LEMMA SignedAfterRemoval ==
  ASSUME NEW q \in Seq(Endpoint), NEW i \in 1 .. Len(q),
         \A k \in 1 .. Len(q) : q[k].eid \in Eids
  PROVE  /\ RemoveAt(q, i) \in Seq(Endpoint)
         /\ \A k \in 1 .. Len(RemoveAt(q, i)) : RemoveAt(q, i)[k].eid \in Eids
  <1>1. /\ RemoveAt(q, i) \in Seq(Endpoint)
        /\ Len(RemoveAt(q, i)) = Len(q) - 1
        /\ RemoveAt(q, i) = [k \in 1 .. Len(q) - 1 |-> q[Skip(i, k)]]
        /\ \A k \in 1 .. Len(q) - 1 : Skip(i, k) \in 1 .. Len(q)
    BY RemoveShift
  <1> QED BY <1>1

LEMMA TypedShut == ASSUME Typed, NEW done \in BOOLEAN, ShutEndpoint(done) PROVE Typed'
  <1> DEFINE i == FirstStale(eps[cur])
             x == [addr |-> eps[cur][i].addr, eid |-> eps[cur][i].eid]
             q == RemoveAt(eps[cur], i)
             R == IF done THEN real[cur] \ {x} ELSE real[cur]
  <1>1. cur \in Socks
    BY DEF Typed, TypeOK
  <1>2. /\ phase = "sweep" /\ Stale(eps[cur]) # {} /\ eps[cur][i].eid > 0
        /\ UNCHANGED <<phase, cur, reply, todo, ok, count, subs, topics, heard, refused>>
        /\ eps' = [eps EXCEPT ![cur] = q]
        /\ ShutDown(x, done)
    BY DEF ShutEndpoint
  <1>3. /\ real[cur] \in SUBSET [addr : Addrs, eid : Nat \ {0}] /\ IsFiniteSet(real[cur])
        /\ eps[cur] \in Seq(Endpoint) /\ Len(eps[cur]) \in Nat
        /\ \A k \in 1 .. Len(eps[cur]) : eps[cur][k].eid \in Eids
    <2> HIDE DEF i, x, q, R
    <2>1. /\ real[cur] \in SUBSET [addr : Addrs, eid : Nat \ {0}] /\ IsFiniteSet(real[cur])
          /\ eps[cur] \in Seq(Endpoint)
          /\ \A k \in 1 .. Len(eps[cur]) : eps[cur][k].eid \in Eids
      BY <1>1, SameReal
    <2> QED BY <2>1
  <1>4. i \in 1 .. Len(eps[cur])
    BY <1>2, <1>3, FirstIsStale, Zenon
  <1>5. x \in [addr : Addrs, eid : Nat \ {0}]
    <2> HIDE DEF i
    <2>1. eps[cur][i] \in Endpoint /\ eps[cur][i].eid \in Eids
      BY <1>3, <1>4
    <2>2. eps[cur][i].addr \in Addrs /\ eps[cur][i].eid \in Nat \ {0}
      BY <1>2, <2>1 DEF Endpoint, Eids
    <2> QED BY <2>2
  <1> HIDE DEF i, x
  <1>6. R \in SUBSET [addr : Addrs, eid : Nat \ {0}] /\ IsFiniteSet(R)
    BY <1>3, FS_RemoveElement
  <1>7. q \in Seq(Endpoint) /\ \A k \in 1 .. Len(q) : q[k].eid \in Eids
    BY <1>3, <1>4, SignedAfterRemoval
  <1>8. real' = [real EXCEPT ![cur] = R]
    BY <1>1, <1>2, SameReal DEF ShutDown
  <1>9. orphans' \in [Socks -> SUBSET [addr : Addrs, eid : Nat \ {0}]]
    <2>1. /\ orphans \in [Socks -> SUBSET [addr : Addrs, eid : Nat \ {0}]]
          /\ orphans[cur] \union {x} \in SUBSET [addr : Addrs, eid : Nat \ {0}]
      BY <1>1, <1>5 DEF Typed, TypeOK
    <2>2. \/ orphans' = orphans
          \/ orphans' = [orphans EXCEPT ![cur] = orphans[cur] \union {x}]
      BY <1>2 DEF ShutDown
    <2> QED BY <2>1, <2>2
  <1> HIDE DEF q, R
  <1>10. /\ eps' \in [Socks -> Seq(Endpoint)]
         /\ real' \in [Socks -> SUBSET [addr : Addrs, eid : Nat \ {0}]]
         /\ EidsSigned' /\ RealFinite'
    BY <1>1, <1>2, <1>6, <1>7, <1>8, TypedEndpoints
  <1>11. TypeOK' /\ TodoFits'
    BY <1>2, <1>9, <1>10 DEF Typed, TypeOK, TodoFits
  <1> QED BY <1>2, <1>10, <1>11, TypedBounded DEF Typed

(* What TakeTopic does, with its parts named.                                *)
LEMMA TakeParts ==
  ASSUME Typed, TakeTopic
  PROVE  \E t \in Topics, q \in Seq(Subscription), x \in Subscription :
           /\ cur \in Socks /\ phase = "topics" /\ todo # <<>> /\ t = Head(todo)
           /\ todo' = Tail(todo) /\ todo \in Seq(Topics \union {Bad})
           /\ q = MarkedSubs(subs[cur], t)
           /\ x = [id |-> NewId, topic |-> t, visited |-> TRUE]
           /\ subs' = [subs EXCEPT ![cur] = Append(q, x)]
           /\ topics' = [topics EXCEPT ![t] = Append(topics[t], NewId)]
           /\ Listen(t)
           /\ UNCHANGED <<phase, cur, reply, ok, count, eps, real, orphans, lost>>
  <1> DEFINE t == Head(todo)
             q == MarkedSubs(subs[cur], t)
             x == [id |-> NewId, topic |-> t, visited |-> TRUE]
  <1>1. cur \in Socks /\ subs[cur] \in Seq(Subscription)
    BY DEF Typed, TypeOK
  <1>2. /\ todo \in Seq(Topics \union {Bad}) /\ todo # <<>> /\ phase = "topics"
        /\ t # Bad /\ todo' = Tail(todo)
        /\ UNCHANGED <<phase, cur, reply, ok, count, eps, real, orphans, lost>>
    BY DEF TakeTopic, At, Typed, TodoFits
  <1>3. t \in Topics
    BY <1>2, ToSetHead
  <1>4. x \in Subscription
    BY <1>3, NewIdFresh DEF Subscription
  <1>5. q \in Seq(Subscription)
    BY <1>1, MarkedOfTopic
  <1>6. /\ subs' = [subs EXCEPT ![cur] = Append(q, x)]
        /\ topics' = [topics EXCEPT ![t] = Append(topics[t], NewId)]
        /\ Listen(t)
    BY DEF TakeTopic
  <1> HIDE DEF t
  <1> QED BY <1>1, <1>2, <1>3, <1>4, <1>5, <1>6 DEF t

LEMMA TypedTake == ASSUME Typed, TakeTopic PROVE Typed'
  <1>1. PICK t \in Topics, q \in Seq(Subscription), x \in Subscription :
           /\ cur \in Socks /\ phase = "topics" /\ todo # <<>> /\ t = Head(todo)
           /\ todo' = Tail(todo) /\ todo \in Seq(Topics \union {Bad})
           /\ q = MarkedSubs(subs[cur], t)
           /\ x = [id |-> NewId, topic |-> t, visited |-> TRUE]
           /\ subs' = [subs EXCEPT ![cur] = Append(q, x)]
           /\ topics' = [topics EXCEPT ![t] = Append(topics[t], NewId)]
           /\ Listen(t)
           /\ UNCHANGED <<phase, cur, reply, ok, count, eps, real, orphans, lost>>
    BY TakeParts
  <1>2. NewId \in Nat /\ \A r \in Topics : \A k \in 1 .. Len(topics[r]) : topics[r][k] < NewId
    BY NewIdFresh
  <1> DEFINE p == Append(topics[t], NewId)
  <1>3. /\ topics[t] \in Seq(Nat) /\ Len(topics[t]) \in Nat
        /\ topics \in [Topics -> Seq(Nat)] /\ subs \in [Socks -> Seq(Subscription)]
    BY DEF Typed, TypeOK
  <1>4. /\ p \in Seq(Nat) /\ Len(p) = Len(topics[t]) + 1 /\ p[Len(p)] = NewId
        /\ \A k \in 1 .. Len(p) : k = Len(p) \/ (k \in 1 .. Len(topics[t]) /\ p[k] = topics[t][k])
    BY <1>2, <1>3
  <1> HIDE DEF p
  <1>5. topics' = [topics EXCEPT ![t] = p]
    BY <1>1 DEF p
  <1>6. topics' \in [Topics -> Seq(Nat)]
    BY <1>3, <1>4, <1>5
  <1>7. Append(q, x) \in Seq(Subscription)
    OBVIOUS
  <1>8. subs' \in [Socks -> Seq(Subscription)]
    BY <1>1, <1>3, <1>7
  <1>9. heard' \in [Topics -> Nat] /\ refused' \subseteq Topics
    <2>1. heard \in [Topics -> Nat] /\ refused \subseteq Topics
      BY DEF Typed, TypeOK
    <2>2. heard' \in {heard, [heard EXCEPT ![t] = heard[t] + 1]}
      BY <1>1 DEF Listen
    <2>3. refused' \in {refused, refused \ {t}, refused \union {t}}
      BY <1>1 DEF Listen
    <2>4. heard[t] + 1 \in Nat
      BY <2>1
    <2> QED BY <2>1, <2>2, <2>3, <2>4
  <1>10. todo' \in Seq(Topics \union {Bad})
    BY <1>1, ToSetHead
  <1>11. TypeOK' /\ TodoFits'
    BY <1>1, <1>6, <1>8, <1>9, <1>10 DEF Typed, TypeOK, TodoFits
  <1>12. IdsBounded'
    <2>1. \A r \in Topics : \A k \in 1 .. Len(topics'[r]) : topics'[r][k] <= NewId
      <3> SUFFICES ASSUME NEW r \in Topics, NEW k \in 1 .. Len(topics'[r])
                   PROVE  topics'[r][k] <= NewId
        OBVIOUS
      <3>1. CASE r = t
        <4>1. topics'[r] = p
          BY <1>3, <1>5, <3>1
        <4>2. k = Len(p) \/ (k \in 1 .. Len(topics[t]) /\ p[k] = topics[t][k])
          BY <1>4, <4>1
        <4>3. \A m \in 1 .. Len(topics[t]) : topics[t][m] < NewId /\ topics[t][m] \in Nat
          BY <1>2, <1>3
        <4> QED BY SMTT(30), <1>2, <1>4, <4>1, <4>2, <4>3
      <3>2. CASE r # t
        <4>1. topics'[r] = topics[r]
          BY <1>3, <1>5, <3>2
        <4>2. topics[r][k] < NewId /\ topics[r][k] \in Nat
          BY <1>2, <1>3, <4>1
        <4> QED BY <1>2, <4>1, <4>2
      <3> QED BY <3>1, <3>2
    <2> QED BY <1>2, <2>1 DEF IdsBounded
  <1>13. EidsSigned' /\ RealFinite'
    BY <1>1 DEF Typed, EidsSigned, RealFinite
  <1> QED BY <1>11, <1>12, <1>13 DEF Typed

(* What DropSubscription does, with its parts named.                         *)
LEMMA DropParts ==
  ASSUME Typed, Linked, DropSubscription
  PROVE  \E t \in Topics, i \in 1 .. Len(subs[cur]) : \E k \in 1 .. Len(topics[t]) :
           /\ cur \in Socks /\ phase = "drop" /\ broken = Whole
           /\ ~subs[cur][i].visited
           /\ subs[cur][i].topic = t /\ topics[t][k] = subs[cur][i].id
           /\ subs' = [subs EXCEPT ![cur] = RemoveAt(subs[cur], i)]
           /\ topics' = [topics EXCEPT ![t] = RemoveAt(topics[t], k)]
           /\ broken' = (IF Len(topics[t]) = 1 THEN TopicPrev(t) ELSE broken)
           /\ heard' = (IF Len(topics[t]) = 1 THEN [heard EXCEPT ![t] = 0] ELSE heard)
           /\ UNCHANGED <<phase, cur, reply, todo, ok, count, eps, real, orphans, refused>>
  <1> DEFINE i == FirstStale(subs[cur])
             t == subs[cur][i].topic
             k == CHOOSE k \in 1 .. Len(topics[t]) : topics[t][k] = subs[cur][i].id
  <1>1. /\ phase = "drop" /\ broken = Whole /\ Stale(subs[cur]) # {}
        /\ subs' = [subs EXCEPT ![cur] = RemoveAt(subs[cur], i)]
        /\ topics' = [topics EXCEPT ![t] = RemoveAt(topics[t], k)]
        /\ broken' = (IF Len(topics[t]) = 1 THEN TopicPrev(t) ELSE broken)
        /\ heard' = (IF Len(topics[t]) = 1 THEN [heard EXCEPT ![t] = 0] ELSE heard)
        /\ UNCHANGED <<phase, cur, reply, todo, ok, count, eps, real, orphans, refused>>
    BY DEF DropSubscription, Alive
  <1> HIDE DEF i
  <1>2. cur \in Socks /\ subs[cur] \in Seq(Subscription) /\ Len(subs[cur]) \in Nat
    BY DEF Typed, TypeOK
  <1>3. i \in 1 .. Len(subs[cur]) /\ ~subs[cur][i].visited
    BY <1>1, <1>2, FirstIsStale DEF i
  <1>4. subs[cur][i] \in Subscription
    BY <1>2, <1>3
  <1>5. t \in Topics
    BY <1>4 DEF Subscription
  <1>6. \E m \in 1 .. Len(topics[t]) : topics[t][m] = subs[cur][i].id
    BY <1>2, <1>3 DEF Linked
  <1>7. k \in 1 .. Len(topics[t]) /\ topics[t][k] = subs[cur][i].id
    BY <1>6
  <1> HIDE DEF k
  <1> QED BY <1>1, <1>2, <1>3, <1>5, <1>7

LEMMA TypedDrop == ASSUME Typed, Linked, DropSubscription PROVE Typed'
  <1>1. PICK t \in Topics, i \in 1 .. Len(subs[cur]) : \E k \in 1 .. Len(topics[t]) :
           /\ cur \in Socks /\ phase = "drop" /\ broken = Whole
           /\ ~subs[cur][i].visited
           /\ subs[cur][i].topic = t /\ topics[t][k] = subs[cur][i].id
           /\ subs' = [subs EXCEPT ![cur] = RemoveAt(subs[cur], i)]
           /\ topics' = [topics EXCEPT ![t] = RemoveAt(topics[t], k)]
           /\ broken' = (IF Len(topics[t]) = 1 THEN TopicPrev(t) ELSE broken)
           /\ heard' = (IF Len(topics[t]) = 1 THEN [heard EXCEPT ![t] = 0] ELSE heard)
           /\ UNCHANGED <<phase, cur, reply, todo, ok, count, eps, real, orphans, refused>>
    BY DropParts
  <1>2. PICK k \in 1 .. Len(topics[t]) :
           /\ cur \in Socks /\ phase = "drop"
           /\ subs' = [subs EXCEPT ![cur] = RemoveAt(subs[cur], i)]
           /\ topics' = [topics EXCEPT ![t] = RemoveAt(topics[t], k)]
           /\ heard' \in {heard, [heard EXCEPT ![t] = 0]}
           /\ UNCHANGED <<phase, cur, reply, todo, ok, count, eps, real, orphans, refused>>
    BY <1>1
  <1> DEFINE p == RemoveAt(topics[t], k)
             q == RemoveAt(subs[cur], i)
  <1>3. /\ topics[t] \in Seq(Nat)
        /\ topics \in [Topics -> Seq(Nat)] /\ subs \in [Socks -> Seq(Subscription)]
    BY DEF Typed, TypeOK
  <1>4. subs[cur] \in Seq(Subscription)
    BY <1>2, <1>3
  <1>5. q \in Seq(Subscription)
    BY <1>4, RemoveShift
  <1>6. /\ p \in Seq(Nat) /\ Len(p) = Len(topics[t]) - 1
        /\ p = [m \in 1 .. Len(topics[t]) - 1 |-> topics[t][Skip(k, m)]]
        /\ \A m \in 1 .. Len(topics[t]) - 1 : Skip(k, m) \in 1 .. Len(topics[t])
    BY <1>3, RemoveNat
  <1> HIDE DEF p, q
  <1>7. topics' = [topics EXCEPT ![t] = p] /\ subs' = [subs EXCEPT ![cur] = q]
    BY <1>2 DEF p, q
  <1>8. topics' \in [Topics -> Seq(Nat)] /\ subs' \in [Socks -> Seq(Subscription)]
    BY <1>2, <1>3, <1>5, <1>6, <1>7
  <1>9. TypeOK' /\ TodoFits'
    <2>1. heard \in [Topics -> Nat]
      BY DEF Typed, TypeOK
    <2>2. [heard EXCEPT ![t] = 0] \in [Topics -> Nat]
      BY <2>1
    <2>3. heard' \in [Topics -> Nat]
      BY <1>2, <2>1, <2>2
    <2> QED BY <1>2, <1>8, <2>3 DEF Typed, TypeOK, TodoFits
  <1>10. IdsBounded'
    <2>1. PICK n \in Nat : \A r \in Topics : \A m \in 1 .. Len(topics[r]) : topics[r][m] <= n
      BY DEF Typed, IdsBounded
    <2>2. \A m \in 1 .. Len(p) : p[m] <= n
      BY <1>6, <2>1
    <2>3. \A r \in Topics : \A m \in 1 .. Len(topics'[r]) : topics'[r][m] <= n
      BY <1>3, <1>7, <2>1, <2>2
    <2> QED BY <2>3 DEF IdsBounded
  <1>11. EidsSigned' /\ RealFinite'
    BY <1>2 DEF Typed, EidsSigned, RealFinite
  <1> QED BY <1>9, <1>10, <1>11 DEF Typed

LEMMA TypedMoves ==
  ASSUME Typed, \/ Refuse \/ AddressesEnd \/ ShutUnopened \/ SweepEnd \/ TopicsEnd \/ Done
                \/ UNCHANGED vars
  PROVE  Typed'
  <1>1. CASE Refuse
    <2>1. phase' = "idle" /\ todo' = <<>>
      BY <1>1 DEF Refuse
    <2>2. TypeOK' /\ TodoFits'
      BY <1>1, <2>1 DEF Refuse, Typed, TypeOK, TodoFits
    <2> QED BY <1>1, <2>2, TypedFrame DEF Refuse
  <1>2. CASE AddressesEnd \/ ShutUnopened \/ TopicsEnd \/ Done
    <2>1. TypeOK' /\ TodoFits'
      BY <1>2 DEF AddressesEnd, ShutUnopened, TopicsEnd, Done, Typed, TypeOK, TodoFits
    <2> QED BY <1>2, <2>1, TypedFrame DEF AddressesEnd, ShutUnopened, TopicsEnd, Done
  <1>3. CASE SweepEnd
    <2>1. cur \in Socks /\ subs[cur] \in Seq(Subscription)
      BY DEF Typed, TypeOK
    <2>2. Unvisited(subs[cur]) \in Seq(Subscription)
      BY <2>1, UnvisitedSubs
    <2>3. subs' \in [Socks -> Seq(Subscription)]
      BY <1>3, <2>1, <2>2 DEF SweepEnd, Typed, TypeOK
    <2>4. reply.topics \in Seq(Topics \union {Bad})
      BY DEF Typed, TypeOK, ReplyType
    <2>5. TypeOK' /\ TodoFits'
      BY <1>3, <2>3, <2>4 DEF SweepEnd, Typed, TypeOK, TodoFits
    <2> QED BY <1>3, <2>5, TypedFrame DEF SweepEnd
  <1>4. CASE UNCHANGED vars
    <2>1. TypeOK' /\ TodoFits'
      BY <1>4 DEF vars, Typed, TypeOK, TodoFits
    <2> QED BY <1>4, <2>1, TypedFrame DEF vars
  <1> QED BY <1>1, <1>2, <1>3, <1>4

LEMMA TypedStep == ASSUME Typed, Linked, [Next]_vars PROVE Typed'
  <1>1. ASSUME OpenEndpoint(FreeEid(cur)) PROVE Typed'
    <2>1. IsFiniteSet(real[cur])
      BY DEF Typed, TypeOK, RealFinite
    <2>2. FreeEid(cur) \in Eids
      BY <2>1, EidFree DEF Eids
    <2> QED BY <1>1, <2>2, TypedOpen
  <1>2. ASSUME OpenEndpoint(-1) PROVE Typed'
    <2>1. -1 \in Eids
      BY DEF Eids
    <2> QED BY <1>2, <2>1, TypedOpen
  <1>3. TRUE \in BOOLEAN /\ FALSE \in BOOLEAN
    OBVIOUS
  <1> QED BY <1>1, <1>2, <1>3, TypedKeep, TypedBegin, TypedReopen, TypedShut, TypedTake, TypedDrop,
             TypedMoves DEF Next

-----------------------------------------------------------------------------
(* The subscriptions. No two have the same number, whatever sockets they     *)
(* belong to, and none is twice in the list of its topic, so unlinking one   *)
(* from its topic removes it and never another; and while no list is broken  *)
(* the updates socket is subscribed once to every topic that has             *)
(* subscriptions, but for those it could not be subscribed to.               *)

Distinct == \A s, r \in Socks : \A i \in 1 .. Len(subs[s]), j \in 1 .. Len(subs[r]) :
              subs[s][i].id = subs[r][j].id => s = r /\ i = j
Once(p) == \A k, j \in 1 .. Len(p) : p[k] = p[j] => k = j
LinkedOnce == \A t \in Topics : Once(topics[t])
Due(t) == IF topics[t] = <<>> \/ UpdatesSocket = 0 \/ t \in refused THEN 0 ELSE 1
HeardOnce == broken = Whole => \A t \in Topics : heard[t] = Due(t)

Chained == Linked /\ Distinct /\ LinkedOnce /\ HeardOnce

LEMMA ChainedInit == Init => Chained
  BY DEF Init, Chained, Linked, Distinct, LinkedOnce, Once, HeardOnce, Due

LEMMA HeardFrame ==
  ASSUME Chained, UNCHANGED <<topics, heard, refused>>, broken = Whole \/ broken' = broken
  PROVE  HeardOnce' /\ LinkedOnce'
  BY DEF Chained, HeardOnce, LinkedOnce, Due

(* Marking, and emptying the list of a socket: what is left of its           *)
(* subscriptions is where it was.                                            *)
LEMMA ChainedMarks ==
  ASSUME Typed, Chained, NEW s \in Socks, NEW q \in Seq(Subscription),
         subs' = [subs EXCEPT ![s] = q], UNCHANGED <<topics, heard, refused>>,
         broken = Whole \/ broken' = broken,
         \A i \in 1 .. Len(q) : /\ i \in 1 .. Len(subs[s])
                                /\ q[i].id = subs[s][i].id /\ q[i].topic = subs[s][i].topic
  PROVE  Chained'
  <1>1. subs \in [Socks -> Seq(Subscription)]
    BY DEF Typed, TypeOK
  <1>2. \A r \in Socks : \A i \in 1 .. Len(subs'[r]) :
          /\ i \in 1 .. Len(subs[r])
          /\ subs'[r][i].id = subs[r][i].id /\ subs'[r][i].topic = subs[r][i].topic
    BY <1>1
  <1>3. Linked'
    <2> SUFFICES ASSUME NEW r \in Socks, NEW i \in 1 .. Len(subs'[r])
                 PROVE  \E k \in 1 .. Len(topics[subs'[r][i].topic]) :
                          topics[subs'[r][i].topic][k] = subs'[r][i].id
      BY ZenonT(30) DEF Linked
    <2>1. /\ i \in 1 .. Len(subs[r])
          /\ subs'[r][i].id = subs[r][i].id /\ subs'[r][i].topic = subs[r][i].topic
      BY <1>2
    <2>2. \E k \in 1 .. Len(topics[subs[r][i].topic]) :
            topics[subs[r][i].topic][k] = subs[r][i].id
      BY <2>1 DEF Chained, Linked
    <2> QED BY <2>1, <2>2
  <1>4. Distinct'
    BY <1>2 DEF Chained, Distinct
  <1> QED BY <1>3, <1>4, HeardFrame DEF Chained

(* A new subscription, with a number no other has.                           *)
LEMMA ChainedTake == ASSUME Typed, Chained, TakeTopic PROVE Chained'
  <1>1. PICK t \in Topics, q \in Seq(Subscription), x \in Subscription :
           /\ cur \in Socks /\ phase = "topics" /\ todo # <<>> /\ t = Head(todo)
           /\ todo' = Tail(todo) /\ todo \in Seq(Topics \union {Bad})
           /\ q = MarkedSubs(subs[cur], t)
           /\ x = [id |-> NewId, topic |-> t, visited |-> TRUE]
           /\ subs' = [subs EXCEPT ![cur] = Append(q, x)]
           /\ topics' = [topics EXCEPT ![t] = Append(topics[t], NewId)]
           /\ Listen(t)
           /\ UNCHANGED <<phase, cur, reply, ok, count, eps, real, orphans, lost>>
    BY TakeParts
  <1>2. NewId \in Nat /\ \A r \in Topics : \A k \in 1 .. Len(topics[r]) : topics[r][k] < NewId
    BY NewIdFresh
  <1>3. /\ topics \in [Topics -> Seq(Nat)] /\ subs \in [Socks -> Seq(Subscription)]
        /\ heard \in [Topics -> Nat]
    BY DEF Typed, TypeOK
  <1>4. subs[cur] \in Seq(Subscription) /\ topics[t] \in Seq(Nat)
    BY <1>1, <1>3
  <1> DEFINE n == Len(subs[cur])
             p == Append(topics[t], NewId)
             w == Append(q, x)
  <1>5. /\ n \in Nat /\ Len(q) = n
        /\ \A i \in 1 .. n : q[i].id = subs[cur][i].id /\ q[i].topic = subs[cur][i].topic
    <2>1. /\ Len(subs[cur]) \in Nat /\ Len(MarkedSubs(subs[cur], t)) = Len(subs[cur])
          /\ \A i \in 1 .. Len(subs[cur]) : /\ MarkedSubs(subs[cur], t)[i].id = subs[cur][i].id
                                           /\ MarkedSubs(subs[cur], t)[i].topic = subs[cur][i].topic
      BY <1>4, MarkedOfTopic
    <2>2. q = MarkedSubs(subs[cur], t)
      BY <1>1
    <2> QED BY <2>1, <2>2
  <1>6. /\ Len(w) = n + 1 /\ w[n + 1] = x /\ \A i \in 1 .. n : w[i] = q[i]
        /\ \A i \in 1 .. n + 1 : i \in 1 .. n \/ i = n + 1
    BY <1>5, AppendShift
  <1>7. /\ Len(topics[t]) \in Nat /\ Len(p) = Len(topics[t]) + 1
        /\ p[Len(topics[t]) + 1] = NewId
        /\ \A k \in 1 .. Len(topics[t]) : p[k] = topics[t][k] /\ k \in 1 .. Len(p)
        /\ Len(topics[t]) + 1 \in 1 .. Len(p) /\ p # <<>>
    <2>1. /\ Len(topics[t]) \in Nat /\ Len(p) = Len(topics[t]) + 1
          /\ p[Len(topics[t]) + 1] = NewId
          /\ \A k \in 1 .. Len(topics[t]) : p[k] = topics[t][k]
      BY <1>2, <1>4, AppendShift
    <2> HIDE DEF p
    <2>2. \A k \in 1 .. Len(topics[t]) : k \in 1 .. Len(p)
      BY <2>1
    <2>3. Len(topics[t]) + 1 \in 1 .. Len(p) /\ p # <<>>
      BY <2>1
    <2> QED BY <2>1, <2>2, <2>3
  <1>8. x.id = NewId /\ x.topic = t
    BY <1>1
  <1> HIDE DEF n, p, w
  <1>9. /\ subs'[cur] = w /\ \A s \in Socks : s # cur => subs'[s] = subs[s]
        /\ topics'[t] = p /\ \A r \in Topics : r # t => topics'[r] = topics[r]
    BY <1>1, <1>3 DEF p, w
  (* The links that there were are still there.                              *)
  <1>10. \A r \in Topics : \A k \in 1 .. Len(topics[r]) :
           k \in 1 .. Len(topics'[r]) /\ topics'[r][k] = topics[r][k]
    BY <1>7, <1>9
  <1>11. \A s \in Socks : \A i \in 1 .. Len(subs[s]) :
           /\ subs[s][i] \in Subscription /\ subs[s][i].topic \in Topics
           /\ subs[s][i].id < NewId /\ subs[s][i].id \in Nat
    <2> SUFFICES ASSUME NEW s \in Socks, NEW i \in 1 .. Len(subs[s])
                 PROVE  /\ subs[s][i] \in Subscription /\ subs[s][i].topic \in Topics
                        /\ subs[s][i].id < NewId /\ subs[s][i].id \in Nat
      OBVIOUS
    <2>1. subs[s] \in Seq(Subscription)
      BY <1>3
    <2>2. subs[s][i] \in Subscription
      BY <2>1
    <2>3. subs[s][i].topic \in Topics /\ subs[s][i].id \in Nat
      BY <2>2 DEF Subscription
    <2>4. PICK k \in 1 .. Len(topics[subs[s][i].topic]) :
            topics[subs[s][i].topic][k] = subs[s][i].id
      BY DEF Chained, Linked
    <2>5. topics[subs[s][i].topic][k] < NewId
      BY <1>2, <2>3
    <2> QED BY <2>2, <2>3, <2>4, <2>5
  (* A subscription after the step is an old one or the new one.             *)
  <1>12. \A s \in Socks : \A i \in 1 .. Len(subs'[s]) :
           \/ /\ i \in 1 .. Len(subs[s])
              /\ subs'[s][i].id = subs[s][i].id /\ subs'[s][i].topic = subs[s][i].topic
           \/ s = cur /\ i = n + 1 /\ subs'[s][i] = x
    <2> SUFFICES ASSUME NEW s \in Socks, NEW i \in 1 .. Len(subs'[s])
                 PROVE \/ /\ i \in 1 .. Len(subs[s])
                          /\ subs'[s][i].id = subs[s][i].id /\ subs'[s][i].topic = subs[s][i].topic
                       \/ s = cur /\ i = n + 1 /\ subs'[s][i] = x
      OBVIOUS
    <2>1. CASE s # cur
      BY <1>9, <2>1
    <2>2. CASE s = cur
      <3>1. i \in 1 .. n + 1 /\ subs'[s] = w
        BY <1>6, <1>9, <2>2
      <3>2. CASE i \in 1 .. n
        BY <1>5, <1>6, <2>2, <3>1, <3>2 DEF n
      <3>3. CASE i = n + 1
        BY <1>6, <2>2, <3>1, <3>3
      <3> QED BY <1>6, <3>1, <3>2, <3>3
    <2> QED BY <2>1, <2>2
  <1>13. Linked'
    <2> SUFFICES ASSUME NEW s \in Socks, NEW i \in 1 .. Len(subs'[s])
                 PROVE  \E k \in 1 .. Len(topics'[subs'[s][i].topic]) :
                          topics'[subs'[s][i].topic][k] = subs'[s][i].id
      BY DEF Linked
    <2>1. CASE i \in 1 .. Len(subs[s]) /\ subs'[s][i].id = subs[s][i].id
               /\ subs'[s][i].topic = subs[s][i].topic
      <3>1. PICK k \in 1 .. Len(topics[subs[s][i].topic]) :
              topics[subs[s][i].topic][k] = subs[s][i].id
        BY <2>1 DEF Chained, Linked
      <3>2. subs[s][i].topic \in Topics
        BY <1>11, <2>1
      <3> QED BY <1>10, <2>1, <3>1, <3>2
    <2>2. CASE subs'[s][i] = x
      BY SMTT(30), <1>7, <1>8, <1>9, <2>2
    <2> QED BY <1>12, <2>1, <2>2
  <1>14. Distinct'
    <2> SUFFICES ASSUME NEW s \in Socks, NEW r \in Socks,
                        NEW i \in 1 .. Len(subs'[s]), NEW j \in 1 .. Len(subs'[r]),
                        subs'[s][i].id = subs'[r][j].id
                 PROVE  s = r /\ i = j
      BY DEF Distinct
    <2>1. \/ i \in 1 .. Len(subs[s]) /\ subs'[s][i].id = subs[s][i].id
          \/ s = cur /\ i = n + 1 /\ subs'[s][i].id = NewId
      BY <1>8, <1>12
    <2>2. \/ j \in 1 .. Len(subs[r]) /\ subs'[r][j].id = subs[r][j].id
          \/ r = cur /\ j = n + 1 /\ subs'[r][j].id = NewId
      BY <1>8, <1>12
    <2>3. \A z \in Socks : \A m \in 1 .. Len(subs[z]) : subs[z][m].id # NewId
      BY <1>2, <1>11
    <2> QED BY SMTT(30), <2>1, <2>2, <2>3 DEF Chained, Distinct
  <1>15. HeardOnce'
    <2> SUFFICES ASSUME NEW r \in Topics PROVE heard'[r] = Due(r)'
      BY DEF HeardOnce
    <2>1. broken = Whole
      BY DEF TakeTopic, At, Alive
    <2>2. heard[r] = Due(r)
      BY <2>1 DEF Chained, HeardOnce
    <2>3. CASE r = t
      <3>1. topics'[t] # <<>>
        BY <1>7, <1>9
      <3>2. CASE topics[t] # <<>> \/ UpdatesSocket = 0
        <4>1. UNCHANGED <<heard, refused>>
          BY <1>1, <3>2, ApplyAssumption DEF Listen, ApplyAssumption
        <4> QED BY <2>2, <2>3, <3>1, <3>2, <4>1 DEF Due
      <3>3. CASE topics[t] = <<>> /\ UpdatesSocket # 0
        <4>1. heard[t] = 0
          BY <2>2, <2>3, <3>3 DEF Due
        <4>2. \/ heard' = [heard EXCEPT ![t] = heard[t] + 1] /\ refused' = refused \ {t}
              \/ heard' = heard /\ refused' = refused \union {t}
          BY <1>1, <3>3 DEF Listen
        <4>3. \/ heard'[t] = 1 /\ t \notin refused'
              \/ heard'[t] = 0 /\ t \in refused'
          BY <1>3, <4>1, <4>2
        <4> QED BY <2>3, <3>1, <3>3, <4>3 DEF Due
      <3> QED BY <3>2, <3>3
    <2>4. CASE r # t
      <3>1. heard'[r] = heard[r] /\ (r \in refused' <=> r \in refused)
        BY <1>1, <1>3, <2>4 DEF Listen
      <3> QED BY <1>9, <2>2, <2>4, <3>1 DEF Due
    <2> QED BY <2>3, <2>4
  <1>16. LinkedOnce'
    <2>1. \A r \in Topics : Once(topics[r])
      BY DEF Chained, LinkedOnce
    <2>2. Once(p)
      <3> SUFFICES ASSUME NEW k \in 1 .. Len(p), NEW j \in 1 .. Len(p), p[k] = p[j]
                   PROVE  k = j
        BY DEF Once
      <3> DEFINE c == Len(topics[t])
      <3>1. /\ c \in Nat /\ Len(p) = c + 1 /\ p[c + 1] = NewId
            /\ \A m \in 1 .. c : p[m] = topics[t][m] /\ topics[t][m] < NewId /\ topics[t][m] \in Nat
        BY <1>2, <1>4, <1>7
      <3>2. \A m, l \in 1 .. c : topics[t][m] = topics[t][l] => m = l
        BY <2>1 DEF Once
      <3> HIDE DEF c
      <3>3. (k \in 1 .. c \/ k = c + 1) /\ (j \in 1 .. c \/ j = c + 1)
        BY <3>1
      <3>4. \A m \in 1 .. c : p[m] # NewId
        BY <1>2, <3>1
      <3> QED BY <3>1, <3>2, <3>3, <3>4
    <2>3. \A r \in Topics : Once(topics'[r])
      BY <1>9, <2>1, <2>2
    <2> QED BY <2>3 DEF LinkedOnce, Once
  <1> QED BY <1>13, <1>14, <1>15, <1>16 DEF Chained

(* What is left of a subscription list and of its topic's list when one      *)
(* element of each goes: the two elements belong together.                   *)
LEMMA ChainedDrop == ASSUME Typed, Chained, DropSubscription PROVE Chained'
  <1>1. PICK t \in Topics, i \in 1 .. Len(subs[cur]) : \E k \in 1 .. Len(topics[t]) :
           /\ cur \in Socks /\ phase = "drop" /\ broken = Whole
           /\ ~subs[cur][i].visited
           /\ subs[cur][i].topic = t /\ topics[t][k] = subs[cur][i].id
           /\ subs' = [subs EXCEPT ![cur] = RemoveAt(subs[cur], i)]
           /\ topics' = [topics EXCEPT ![t] = RemoveAt(topics[t], k)]
           /\ broken' = (IF Len(topics[t]) = 1 THEN TopicPrev(t) ELSE broken)
           /\ heard' = (IF Len(topics[t]) = 1 THEN [heard EXCEPT ![t] = 0] ELSE heard)
           /\ UNCHANGED <<phase, cur, reply, todo, ok, count, eps, real, orphans, refused>>
    BY DropParts DEF Chained
  <1>2. PICK k \in 1 .. Len(topics[t]) :
           /\ cur \in Socks /\ broken = Whole
           /\ subs[cur][i].topic = t /\ topics[t][k] = subs[cur][i].id
           /\ subs' = [subs EXCEPT ![cur] = RemoveAt(subs[cur], i)]
           /\ topics' = [topics EXCEPT ![t] = RemoveAt(topics[t], k)]
           /\ broken' = (IF Len(topics[t]) = 1 THEN TopicPrev(t) ELSE broken)
           /\ heard' = (IF Len(topics[t]) = 1 THEN [heard EXCEPT ![t] = 0] ELSE heard)
           /\ refused' = refused
    BY <1>1
  <1>3. /\ topics \in [Topics -> Seq(Nat)] /\ subs \in [Socks -> Seq(Subscription)]
        /\ topics[t] \in Seq(Nat) /\ subs[cur] \in Seq(Subscription)
    BY <1>2 DEF Typed, TypeOK
  <1> DEFINE p == RemoveAt(topics[t], k)
             q == RemoveAt(subs[cur], i)
             n == Len(subs[cur])
             c == Len(topics[t])
  <1>4. /\ n \in Nat /\ Len(q) = n - 1
        /\ q = [m \in 1 .. n - 1 |-> subs[cur][Skip(i, m)]]
    BY <1>3, RemoveSub
  <1>5. /\ \A m \in 1 .. n - 1 : Skip(i, m) \in 1 .. n /\ Skip(i, m) # i
        /\ \A m, l \in 1 .. n - 1 : Skip(i, m) = Skip(i, l) => m = l
    BY <1>4, SkipOneToOne
  <1>6. /\ c \in Nat /\ p = [m \in 1 .. c - 1 |-> topics[t][Skip(k, m)]] /\ Len(p) = c - 1
    BY <1>3, RemoveNat
  <1>7. \A j \in 1 .. c : j # k => \E m \in 1 .. c - 1 : Skip(k, m) = j
    BY <1>3, RemoveShift
  <1>8. /\ subs'[cur] = q /\ \A s \in Socks : s # cur => subs'[s] = subs[s]
        /\ topics'[t] = p /\ \A r \in Topics : r # t => topics'[r] = topics[r]
    <2> HIDE DEF p, q
    <2>1. topics' = [topics EXCEPT ![t] = p] /\ subs' = [subs EXCEPT ![cur] = q]
      BY <1>2 DEF p, q
    <2> QED BY <1>2, <1>3, <2>1
  <1> DEFINE Old(s, m) == IF s = cur THEN Skip(i, m) ELSE m
  <1> HIDE DEF p, q, n, c
  (* A subscription after the step is another than the one that went.        *)
  <1>9. \A s \in Socks : \A m \in 1 .. Len(subs'[s]) :
          /\ Old(s, m) \in 1 .. Len(subs[s]) /\ subs'[s][m] = subs[s][Old(s, m)]
          /\ s = cur => Old(s, m) # i /\ m \in 1 .. n - 1
    <2> SUFFICES ASSUME NEW s \in Socks, NEW m \in 1 .. Len(subs'[s])
                 PROVE  /\ Old(s, m) \in 1 .. Len(subs[s]) /\ subs'[s][m] = subs[s][Old(s, m)]
                        /\ s = cur => Old(s, m) # i /\ m \in 1 .. n - 1
      OBVIOUS
    <2>1. CASE s = cur
      <3>1. m \in 1 .. n - 1
        BY <1>4, <1>8, <2>1
      <3>2. q[m] = subs[cur][Skip(i, m)]
        BY <1>4, <3>1
      <3> QED BY <1>5, <1>8, <2>1, <3>1, <3>2 DEF n
    <2>2. CASE s # cur
      BY <1>8, <2>2
    <2> QED BY <2>1, <2>2
  <1>10. Distinct'
    <2> SUFFICES ASSUME NEW s \in Socks, NEW r \in Socks,
                        NEW l \in 1 .. Len(subs'[s]), NEW m \in 1 .. Len(subs'[r]),
                        subs'[s][l].id = subs'[r][m].id
                 PROVE  s = r /\ l = m
      BY DEF Distinct
    <2>1. s = r /\ Old(s, l) = Old(r, m)
      <3>1. /\ Old(s, l) \in 1 .. Len(subs[s]) /\ Old(r, m) \in 1 .. Len(subs[r])
            /\ subs[s][Old(s, l)].id = subs[r][Old(r, m)].id
        BY <1>9
      <3> HIDE DEF Old
      <3> QED BY SMTT(30), <3>1 DEF Chained, Distinct
    <2>2. CASE s = cur
      BY <1>5, <1>9, <2>1, <2>2
    <2>3. CASE s # cur
      BY <2>1, <2>3
    <2> QED BY <2>1, <2>2, <2>3
  <1>11. Linked'
    <2> SUFFICES ASSUME NEW s \in Socks, NEW m \in 1 .. Len(subs'[s])
                 PROVE  \E l \in 1 .. Len(topics'[subs'[s][m].topic]) :
                          topics'[subs'[s][m].topic][l] = subs'[s][m].id
      BY DEF Linked
    <2> DEFINE o == Old(s, m)
    <2>1. /\ o \in 1 .. Len(subs[s]) /\ subs'[s][m] = subs[s][o]
          /\ s = cur => o # i
      BY <1>9
    <2> HIDE DEF o, Old
    <2>2. subs[s][o] \in Subscription
      BY <1>3, <2>1
    <2>3. subs[s][o].topic \in Topics
      BY <2>2 DEF Subscription
    <2>4. PICK l \in 1 .. Len(topics[subs[s][o].topic]) :
            topics[subs[s][o].topic][l] = subs[s][o].id
      BY <2>1 DEF Chained, Linked
    <2>5. subs[s][o].id # subs[cur][i].id
      BY SMTT(30), <1>2, <2>1 DEF Chained, Distinct
    <2>6. CASE subs[s][o].topic = t
      <3>1. l # k /\ l \in 1 .. c
        BY <1>2, <2>4, <2>5, <2>6 DEF c
      <3>2. PICK j \in 1 .. c - 1 : Skip(k, j) = l
        BY <1>7, <3>1
      <3>3. p[j] = subs[s][o].id
        BY <1>6, <2>4, <2>6, <3>2
      <3>4. j \in 1 .. Len(p)
        BY <1>6
      <3> QED BY <1>8, <2>1, <2>6, <3>3, <3>4
    <2>7. CASE subs[s][o].topic # t
      BY <1>8, <2>1, <2>3, <2>4, <2>7
    <2> QED BY <2>6, <2>7
  <1>12. HeardOnce'
    <2> SUFFICES ASSUME broken' = Whole, NEW r \in Topics PROVE heard'[r] = Due(r)'
      BY DEF HeardOnce
    <2>1. TopicPrev(t) # Whole
      BY DEF TopicPrev, Whole
    <2>2. c # 1
      BY <1>2, <2>1 DEF c
    <2>3. heard' = heard /\ refused' = refused
      BY <1>2, <2>2 DEF c
    <2>4. heard[r] = Due(r)
      BY <1>2 DEF Chained, HeardOnce
    <2>5. topics'[r] = <<>> <=> topics[r] = <<>>
      <3>1. CASE r = t
        <4>1. Len(p) # 0 /\ c # 0
          BY <1>6, <2>2 DEF c
        <4>2. p # <<>> /\ topics[t] # <<>>
          BY <4>1 DEF c
        <4> QED BY <1>8, <3>1, <4>2
      <3>2. CASE r # t
        BY <1>8, <3>2
      <3> QED BY <3>1, <3>2
    <2> QED BY <2>3, <2>4, <2>5 DEF Due
  <1>13. LinkedOnce'
    <2>1. \A r \in Topics : Once(topics[r])
      BY DEF Chained, LinkedOnce
    <2>2. Once(p)
      <3> SUFFICES ASSUME NEW m \in 1 .. Len(p), NEW l \in 1 .. Len(p), p[m] = p[l]
                   PROVE  m = l
        BY DEF Once
      <3>1. /\ \A j \in 1 .. c - 1 : Skip(k, j) \in 1 .. c /\ Skip(k, j) # k
            /\ \A j, o \in 1 .. c - 1 : Skip(k, j) = Skip(k, o) => j = o
        BY <1>6, SkipOneToOne DEF c
      <3>2. m \in 1 .. c - 1 /\ l \in 1 .. c - 1
        BY <1>6
      <3>3. topics[t][Skip(k, m)] = topics[t][Skip(k, l)]
        BY <1>6, <3>2
      <3>4. Skip(k, m) = Skip(k, l)
        BY <2>1, <3>1, <3>2, <3>3 DEF Once, c
      <3> QED BY <3>1, <3>2, <3>4
    <2>3. \A r \in Topics : Once(topics'[r])
      BY <1>8, <2>1, <2>2
    <2> QED BY <2>3 DEF LinkedOnce, Once
  <1> QED BY <1>10, <1>11, <1>12, <1>13 DEF Chained

LEMMA ChainedStep == ASSUME Typed, Chained, [Next]_vars PROVE Chained'
  <1>1. ASSUME NEW s \in Socks, Reopen(s) PROVE Chained'
    <2>1. <<>> \in Seq(Subscription) /\ \A i \in 1 .. Len(<<>>) : FALSE
      OBVIOUS
    <2>2. /\ subs' = [subs EXCEPT ![s] = <<>>] /\ UNCHANGED <<topics, heard, refused>>
          /\ broken' = broken
      BY <1>1 DEF Reopen
    <2> QED BY <2>1, <2>2, ChainedMarks
  <1>2. ASSUME SweepEnd PROVE Chained'
    <2>1. cur \in Socks /\ subs[cur] \in Seq(Subscription)
      BY DEF Typed, TypeOK
    <2>2. /\ subs' = [subs EXCEPT ![cur] = Unvisited(subs[cur])]
          /\ UNCHANGED <<topics, heard, refused>> /\ broken' = broken
      BY <1>2 DEF SweepEnd
    <2>3. /\ Unvisited(subs[cur]) \in Seq(Subscription)
          /\ \A i \in 1 .. Len(Unvisited(subs[cur])) :
               /\ i \in 1 .. Len(subs[cur])
               /\ Unvisited(subs[cur])[i].id = subs[cur][i].id
               /\ Unvisited(subs[cur])[i].topic = subs[cur][i].topic
      BY <2>1, UnvisitedSubs
    <2> QED BY <2>1, <2>2, <2>3, ChainedMarks
  <1>3. ASSUME UNCHANGED <<subs, topics, heard, refused>>, broken = Whole \/ broken' = broken
        PROVE  Chained'
    <2>1. subs' = subs /\ topics' = topics
      BY <1>3
    <2>2. Linked'
      BY <2>1 DEF Chained, Linked
    <2>3. Distinct'
      BY <2>1 DEF Chained, Distinct
    <2> QED BY <1>3, <2>2, <2>3, HeardFrame DEF Chained
  <1>4. CASE \/ \E s \in Socks : \E r \in Replies : Begin(s, r)
             \/ Refuse \/ KeepEndpoint \/ AddressesEnd \/ ShutUnopened \/ TopicsEnd \/ Done
             \/ \E done \in BOOLEAN : ShutEndpoint(done)
             \/ UNCHANGED vars
    BY <1>3, <1>4 DEF Begin, Refuse, KeepEndpoint, AddressesEnd, ShutEndpoint, ShutUnopened,
                      TopicsEnd, Done, vars
  <1>5. ASSUME NEW eid, OpenEndpoint(eid) PROVE Chained'
    BY <1>3, <1>5 DEF OpenEndpoint, At, Alive
  <1> QED BY <1>1, <1>2, <1>4, <1>5, ChainedTake, ChainedDrop DEF Next

LEMMA TypedAndChained == Spec => [](Typed /\ Chained)
  <1>1. Init => Typed /\ Chained
    BY TypedInit, ChainedInit
  <1>2. Typed /\ Chained /\ [Next]_vars => Typed' /\ Chained'
    BY TypedStep, ChainedStep DEF Chained
  <1> QED BY <1>1, <1>2, PTL DEF Spec

(* Every list keeps its type whatever replies come; in particular nanomsg is *)
(* never left with an endpoint whose number is not positive.                 *)
THEOREM ListsTyped == Spec => []TypeOK
  <1>1. Typed => TypeOK
    BY DEF Typed
  <1> QED BY <1>1, TypedAndChained, PTL

(* nc_process_updates finds every subscription of every socket through the   *)
(* topic it is for, and once; and the updates socket is subscribed to that   *)
(* topic once, unless its number is 0 or the subscription was refused when   *)
(* the topic came.                                                           *)
THEOREM UpdatesReach == Spec => []Reached
  <1>1. ASSUME Typed, Chained PROVE Reached
    <2> SUFFICES ASSUME broken = Whole, NEW s \in Socks, NEW i \in 1 .. Len(subs[s])
                 PROVE  LET t == subs[s][i].topic IN
                          /\ \E k \in 1 .. Len(topics[t]) : \A j \in 1 .. Len(topics[t]) :
                                topics[t][j] = subs[s][i].id <=> j = k
                          /\ heard[t] = IF UpdatesSocket = 0 \/ t \in refused THEN 0 ELSE 1
      BY DEF Reached
    <2>1. subs[s] \in Seq(Subscription)
      BY <1>1 DEF Typed, TypeOK
    <2>2. subs[s][i] \in Subscription
      BY <2>1
    <2> DEFINE t == subs[s][i].topic
    <2>3. t \in Topics
      BY <2>2 DEF Subscription
    <2>4. PICK k \in 1 .. Len(topics[t]) : topics[t][k] = subs[s][i].id
      BY <1>1 DEF Chained, Linked
    <2>5. \A j \in 1 .. Len(topics[t]) : topics[t][j] = subs[s][i].id <=> j = k
      BY <1>1, <2>3, <2>4 DEF Chained, LinkedOnce, Once
    <2>6. topics[t] # <<>>
      BY <2>4
    <2>7. heard[t] = IF UpdatesSocket = 0 \/ t \in refused THEN 0 ELSE 1
      BY <1>1, <2>3, <2>6 DEF Chained, HeardOnce, Due
    <2> QED BY <2>5, <2>7
  <1> QED BY <1>1, TypedAndChained, PTL

-----------------------------------------------------------------------------
(* endpoint_list as a set: the endpoints that were opened, the addresses,    *)
(* the addresses that this reply has named so far.                           *)

Known(q) == {[addr |-> q[i].addr, eid |-> q[i].eid] : i \in {i \in 1 .. Len(q) : q[i].eid > 0}}
Unique(q) == \A i, j \in 1 .. Len(q) : q[i].addr = q[j].addr => i = j
AddrsOf(q) == {q[i].addr : i \in 1 .. Len(q)}
SeenOf(q) == {q[i].addr : i \in {i \in 1 .. Len(q) : q[i].visited}}

LEMMA MembersOf ==
  ASSUME NEW q
  PROVE  /\ \A e : e \in Known(q) <=>
                     \E i \in 1 .. Len(q) : q[i].eid > 0 /\ e = [addr |-> q[i].addr, eid |-> q[i].eid]
         /\ \A a : a \in AddrsOf(q) <=> \E i \in 1 .. Len(q) : a = q[i].addr
         /\ \A a : a \in SeenOf(q) <=> \E i \in 1 .. Len(q) : q[i].visited /\ a = q[i].addr
  BY DEF Known, AddrsOf, SeenOf

(* Only the marks differ.                                                    *)
LEMMA KnownMarks ==
  ASSUME NEW q, NEW r, Len(q) = Len(r),
         \A i \in 1 .. Len(q) : r[i].addr = q[i].addr /\ r[i].eid = q[i].eid
  PROVE  /\ Known(r) = Known(q) /\ AddrsOf(r) = AddrsOf(q)
         /\ Unique(q) => Unique(r)
  <1>1. \A e : e \in Known(r) <=> e \in Known(q)
    BY MembersOf
  <1>2. \A a : a \in AddrsOf(r) <=> a \in AddrsOf(q)
    BY MembersOf
  <1>3. Unique(q) => Unique(r)
    BY DEF Unique
  <1> QED BY <1>1, <1>2, <1>3

LEMMA SeenUnvisited ==
  ASSUME NEW q \in Seq(Endpoint)
  PROVE  SeenOf(Unvisited(q)) = {}
  <1>1. \A a : a \notin SeenOf(Unvisited(q))
    BY UnvisitedEps, MembersOf
  <1> QED BY <1>1

LEMMA SeenMarked ==
  ASSUME NEW q \in Seq(Endpoint), NEW a \in AddrsOf(q)
  PROVE  SeenOf(Marked(q, a)) = SeenOf(q) \union {a}
  <1> DEFINE r == Marked(q, a)
  <1>1. /\ Len(r) = Len(q)
        /\ \A i \in 1 .. Len(q) : /\ r[i].addr = q[i].addr
                                  /\ r[i].visited <=> q[i].visited \/ q[i].addr = a
    BY MarkedEps
  <1> HIDE DEF r
  <1>2. PICK k \in 1 .. Len(q) : q[k].addr = a
    BY MembersOf
  <1>3. \A b : b \in SeenOf(q) <=> \E i \in 1 .. Len(q) : q[i].visited /\ b = q[i].addr
    BY MembersOf
  <1>4. \A b : b \in SeenOf(r) <=> \E i \in 1 .. Len(q) : r[i].visited /\ b = r[i].addr
    BY <1>1, MembersOf
  <1>5. \A b : b \in SeenOf(r) <=>
               \E i \in 1 .. Len(q) : (q[i].visited \/ q[i].addr = a) /\ b = q[i].addr
    BY <1>1, <1>4
  <1>6. \A b : b \in SeenOf(r) <=> b \in SeenOf(q) \/ b = a
    BY <1>2, <1>3, <1>5
  <1> QED BY <1>6 DEF r

LEMMA AppendedEndpoint ==
  ASSUME NEW q \in Seq(Endpoint), NEW x \in Endpoint
  PROVE  /\ Known(Append(q, x)) =
              IF x.eid > 0 THEN Known(q) \union {[addr |-> x.addr, eid |-> x.eid]} ELSE Known(q)
         /\ AddrsOf(Append(q, x)) = AddrsOf(q) \union {x.addr}
         /\ x.visited => SeenOf(Append(q, x)) = SeenOf(q) \union {x.addr}
         /\ Unique(q) /\ x.addr \notin AddrsOf(q) => Unique(Append(q, x))
  <1> DEFINE r == Append(q, x)
             n == Len(q)
  <1>1. /\ n \in Nat /\ Len(r) = n + 1 /\ r[n + 1] = x
        /\ \A k \in 1 .. n : r[k] = q[k]
        /\ \A k \in 1 .. n + 1 : k \in 1 .. n \/ k = n + 1
    BY AppendShift
  <1> HIDE DEF r
  <1>2. \A k \in 1 .. n : k \in 1 .. n + 1
    BY <1>1
  <1>3. n + 1 \in 1 .. n + 1
    BY <1>1
  <1>4. \A e : e \in Known(r) <=>
               e \in Known(q) \/ (x.eid > 0 /\ e = [addr |-> x.addr, eid |-> x.eid])
    BY <1>1, <1>2, <1>3, MembersOf
  <1>5. \A a : a \in AddrsOf(r) <=> a \in AddrsOf(q) \/ a = x.addr
    BY SMTT(30), <1>1, <1>2, <1>3, MembersOf
  <1>6. \A a : a \in SeenOf(r) <=> a \in SeenOf(q) \/ (x.visited /\ a = x.addr)
    BY <1>1, <1>2, <1>3, MembersOf
  <1>7. ASSUME Unique(q), x.addr \notin AddrsOf(q) PROVE Unique(r)
    BY <1>1, <1>7, MembersOf DEF Unique
  <1> QED BY <1>4, <1>5, <1>6, <1>7 DEF r

LEMMA RemovedEndpoint ==
  ASSUME NEW q \in Seq(Endpoint), NEW i \in 1 .. Len(q), Unique(q)
  PROVE  /\ Known(RemoveAt(q, i)) = Known(q) \ {[addr |-> q[i].addr, eid |-> q[i].eid]}
         /\ Unique(RemoveAt(q, i))
         /\ ~q[i].visited => SeenOf(RemoveAt(q, i)) = SeenOf(q)
  <1> DEFINE r == RemoveAt(q, i)
             n == Len(q)
  <1>1. n \in Nat /\ Len(r) = n - 1
    BY RemoveShift
  <1>2. r = [k \in 1 .. n - 1 |-> q[Skip(i, k)]]
    BY RemoveShift
  <1>3. \A j \in 1 .. n : j # i => \E k \in 1 .. n - 1 : Skip(i, k) = j
    BY RemoveShift
  <1> HIDE DEF r
  <1>4. /\ \A k \in 1 .. n - 1 : Skip(i, k) \in 1 .. n /\ Skip(i, k) # i
        /\ \A k, m \in 1 .. n - 1 : Skip(i, k) = Skip(i, m) => k = m
    BY <1>1, SkipOneToOne
  <1>5. \A k \in 1 .. n - 1 : r[k] = q[Skip(i, k)]
    BY <1>2
  <1> HIDE DEF n
  <1>6. ASSUME NEW k \in 1 .. n - 1
        PROVE  Skip(i, k) \in 1 .. n /\ Skip(i, k) # i /\ q[Skip(i, k)].addr # q[i].addr
    BY <1>4 DEF Unique, n
  <1>7. \A e : e \in Known(r) <=> e \in Known(q) /\ e # [addr |-> q[i].addr, eid |-> q[i].eid]
    <2> SUFFICES ASSUME NEW e
                 PROVE  e \in Known(r) <=>
                          e \in Known(q) /\ e # [addr |-> q[i].addr, eid |-> q[i].eid]
      OBVIOUS
    <2>1. ASSUME e \in Known(r)
          PROVE  e \in Known(q) /\ e # [addr |-> q[i].addr, eid |-> q[i].eid]
      <3>1. PICK k \in 1 .. n - 1 : r[k].eid > 0 /\ e = [addr |-> r[k].addr, eid |-> r[k].eid]
        BY <1>1, <2>1, MembersOf
      <3>2. /\ Skip(i, k) \in 1 .. n
            /\ q[Skip(i, k)].addr # q[i].addr /\ r[k] = q[Skip(i, k)]
        BY <1>5, <1>6
      <3>3. e.addr # q[i].addr
        BY <3>1, <3>2
      <3> QED BY <3>1, <3>2, <3>3, MembersOf DEF n
    <2>2. ASSUME e \in Known(q), e # [addr |-> q[i].addr, eid |-> q[i].eid]
          PROVE  e \in Known(r)
      <3>1. PICK j \in 1 .. n : q[j].eid > 0 /\ e = [addr |-> q[j].addr, eid |-> q[j].eid]
        BY <2>2, MembersOf DEF n
      <3>2. PICK k \in 1 .. n - 1 : Skip(i, k) = j
        BY <1>3, <2>2, <3>1
      <3> QED BY SMTT(30), <1>1, <1>5, <3>1, <3>2, MembersOf
    <2> QED BY <2>1, <2>2
  <1>8. Unique(r)
    <2> SUFFICES ASSUME NEW k \in 1 .. n - 1, NEW m \in 1 .. n - 1, r[k].addr = r[m].addr
                 PROVE  k = m
      BY <1>1 DEF Unique
    <2>1. Skip(i, k) \in 1 .. n /\ Skip(i, m) \in 1 .. n
      BY <1>4
    <2>2. q[Skip(i, k)].addr = q[Skip(i, m)].addr
      BY <1>5
    <2>3. Skip(i, k) = Skip(i, m)
      BY <2>1, <2>2 DEF Unique, n
    <2> QED BY <1>4, <2>3
  <1>9. ASSUME ~q[i].visited PROVE \A a : a \in SeenOf(r) <=> a \in SeenOf(q)
    <2> SUFFICES ASSUME NEW a PROVE a \in SeenOf(r) <=> a \in SeenOf(q)
      OBVIOUS
    <2>1. ASSUME a \in SeenOf(r) PROVE a \in SeenOf(q)
      <3>1. PICK k \in 1 .. n - 1 : r[k].visited /\ a = r[k].addr
        BY <1>1, <2>1, MembersOf
      <3> QED BY <1>4, <1>5, <3>1, MembersOf DEF n
    <2>2. ASSUME a \in SeenOf(q) PROVE a \in SeenOf(r)
      <3>1. PICK j \in 1 .. n : q[j].visited /\ a = q[j].addr
        BY <2>2, MembersOf DEF n
      <3>2. PICK k \in 1 .. n - 1 : Skip(i, k) = j
        BY <1>3, <1>9, <3>1
      <3> QED BY <1>1, <1>5, <3>1, <3>2, MembersOf
    <2> QED BY <2>1, <2>2
  <1> QED BY <1>7, <1>8, <1>9 DEF r

-----------------------------------------------------------------------------
(* The worker's list and nanomsg's. No address is in endpoint_list twice:    *)
(* without that, shutting one endpoint down would leave another of the same  *)
(* number behind. An endpoint that could not be shut down is still open, so  *)
(* nanomsg gives its number to no other.                                     *)

Mirrors(q, R, O) == R = Known(q) \union O /\ Known(q) \intersect O = {} /\ Unique(q)
Mirror == \A s \in Socks : Mirrors(eps[s], real[s], orphans[s])

LEMMA EmptyLists == Known(<<>>) = {} /\ Unique(<<>>)
  <1>1. \A e : e \notin Known(<<>>)
    BY MembersOf
  <1> QED BY <1>1 DEF Unique

LEMMA MirrorInit == Init => Mirror
  BY EmptyLists DEF Init, Mirror, Mirrors

LEMMA MirrorOne ==
  ASSUME Typed, Mirror, NEW s \in Socks, NEW q, NEW R, NEW O,
         eps' = [eps EXCEPT ![s] = q], real' = [real EXCEPT ![s] = R],
         orphans' = [orphans EXCEPT ![s] = O], Mirrors(q, R, O)
  PROVE  Mirror'
  <1>1. /\ eps \in [Socks -> Seq(Endpoint)]
        /\ real \in [Socks -> SUBSET [addr : Addrs, eid : Nat \ {0}]]
        /\ orphans \in [Socks -> SUBSET [addr : Addrs, eid : Nat \ {0}]]
    BY DEF Typed, TypeOK
  <1>2. /\ eps'[s] = q /\ real'[s] = R /\ orphans'[s] = O
        /\ \A r \in Socks : r # s =>
             eps'[r] = eps[r] /\ real'[r] = real[r] /\ orphans'[r] = orphans[r]
    BY <1>1
  <1> QED BY <1>2 DEF Mirror, Mirrors

LEMMA SameOrphans == ASSUME Typed, NEW s \in Socks
                     PROVE  orphans = [orphans EXCEPT ![s] = orphans[s]]
  BY DEF Typed, TypeOK

(* What an action does to the endpoints of the current socket.               *)
LEMMA OpenParts ==
  ASSUME Typed, NEW eid \in Eids, OpenEndpoint(eid)
  PROVE  \E x \in Endpoint :
           /\ x.addr = Head(todo) /\ x.eid = eid /\ x.visited
           /\ x.addr \notin AddrsOf(eps[cur])
           /\ phase = "addresses" /\ todo \in Seq(Addrs \union {Bad}) /\ todo # <<>>
           /\ todo' = Tail(todo)
           /\ eps' = [eps EXCEPT ![cur] = Append(eps[cur], x)]
           /\ real' = [real EXCEPT ![cur] =
                         IF x.eid > 0 THEN real[cur] \union {[addr |-> x.addr, eid |-> x.eid]}
                         ELSE real[cur]]
           /\ UNCHANGED <<phase, cur, reply, ok, count, orphans, subs, topics, heard>>
  <1> DEFINE a == Head(todo)
             x == [addr |-> a, eid |-> eid, visited |-> TRUE]
  <1>1. /\ todo \in Seq(Addrs \union {Bad}) /\ todo # <<>> /\ phase = "addresses"
        /\ a # Bad /\ todo' = Tail(todo) /\ a \notin Held(cur)
        /\ eps' = [eps EXCEPT ![cur] = Append(eps[cur], x)]
        /\ real' = [real EXCEPT ![cur] = Opened(a, eid)]
        /\ UNCHANGED <<phase, cur, reply, ok, count, orphans, subs, topics, heard>>
    BY DEF OpenEndpoint, At, Typed, TodoFits
  <1>2. a \in Addrs
    BY <1>1, ToSetHead
  <1>3. x \in Endpoint /\ x.addr = a /\ x.eid = eid /\ x.visited
    BY <1>2 DEF Endpoint, Eids
  <1>4. Opened(a, eid) = IF x.eid > 0 THEN real[cur] \union {[addr |-> x.addr, eid |-> x.eid]}
                         ELSE real[cur]
    BY <1>3 DEF Opened
  <1>5. a \notin AddrsOf(eps[cur])
    BY <1>1 DEF Held, AddrsOf
  <1> HIDE DEF a, x
  <1>6. a = Head(todo)
    BY DEF a
  <1> QED BY <1>1, <1>3, <1>4, <1>5, <1>6

LEMMA ShutParts ==
  ASSUME Typed, NEW done \in BOOLEAN, ShutEndpoint(done)
  PROVE  \E i \in 1 .. Len(eps[cur]) :
           /\ phase = "sweep" /\ ~eps[cur][i].visited /\ eps[cur][i].eid > 0
           /\ UNCHANGED <<phase, cur, reply, todo, ok, count, subs, topics, heard>>
           /\ eps' = [eps EXCEPT ![cur] = RemoveAt(eps[cur], i)]
           /\ ShutDown([addr |-> eps[cur][i].addr, eid |-> eps[cur][i].eid], done)
  <1> DEFINE i == FirstStale(eps[cur])
  <1>1. cur \in Socks
    BY DEF Typed, TypeOK
  <1>2. eps[cur] \in Seq(Endpoint)
    BY <1>1, SameReal
  <1>3. Len(eps[cur]) \in Nat
    BY <1>2
  <1>4. /\ phase = "sweep" /\ Stale(eps[cur]) # {} /\ eps[cur][i].eid > 0
        /\ UNCHANGED <<phase, cur, reply, todo, ok, count, subs, topics, heard>>
        /\ eps' = [eps EXCEPT ![cur] = RemoveAt(eps[cur], i)]
        /\ ShutDown([addr |-> eps[cur][i].addr, eid |-> eps[cur][i].eid], done)
    BY DEF ShutEndpoint
  <1>5. i \in 1 .. Len(eps[cur]) /\ ~eps[cur][i].visited
    BY <1>3, <1>4, FirstIsStale
  <1> HIDE DEF i
  <1> QED BY <1>4, <1>5

(* The number of a new endpoint is not that of one that is open.             *)
LEMMA MirrorOpen ==
  ASSUME Typed, Mirror, NEW eid \in Eids, OpenEndpoint(eid),
         eid > 0 => \A e \in real[cur] : e.eid # eid
  PROVE  Mirror'
  <1>1. PICK x \in Endpoint :
           /\ x.addr \notin AddrsOf(eps[cur]) /\ x.eid = eid
           /\ eps' = [eps EXCEPT ![cur] = Append(eps[cur], x)]
           /\ real' = [real EXCEPT ![cur] =
                         IF x.eid > 0 THEN real[cur] \union {[addr |-> x.addr, eid |-> x.eid]}
                         ELSE real[cur]]
           /\ orphans' = orphans
    BY OpenParts
  <1>2. cur \in Socks
    BY DEF Typed, TypeOK
  <1>3. eps[cur] \in Seq(Endpoint)
    BY <1>2, SameReal
  <1> DEFINE q == Append(eps[cur], x)
             e == [addr |-> x.addr, eid |-> x.eid]
             R == IF x.eid > 0 THEN real[cur] \union {e} ELSE real[cur]
  <1>4. Mirrors(eps[cur], real[cur], orphans[cur])
    BY <1>2 DEF Mirror
  <1>5. Known(q) = (IF x.eid > 0 THEN Known(eps[cur]) \union {e} ELSE Known(eps[cur])) /\ Unique(q)
    BY <1>1, <1>3, <1>4, AppendedEndpoint DEF Mirrors
  <1>6. x.eid > 0 => e \notin orphans[cur]
    <2>1. e.eid = x.eid
      OBVIOUS
    <2> QED BY <1>1, <1>4, <2>1 DEF Mirrors
  <1>7. eps' = [eps EXCEPT ![cur] = q] /\ real' = [real EXCEPT ![cur] = R]
    BY <1>1
  <1> HIDE DEF q, e
  <1>8. Mirrors(q, R, orphans[cur])
    BY <1>4, <1>5, <1>6 DEF Mirrors
  <1> HIDE DEF R
  <1> QED BY <1>1, <1>2, <1>7, <1>8, MirrorOne, SameOrphans

(* An endpoint that leaves the list is closed or still open: it leaves what  *)
(* nanomsg has open, or it stays there as one the worker has forgotten.      *)
LEMMA MirrorShut == ASSUME Typed, Mirror, NEW done \in BOOLEAN, ShutEndpoint(done) PROVE Mirror'
  <1>1. PICK i \in 1 .. Len(eps[cur]) :
           /\ eps[cur][i].eid > 0
           /\ eps' = [eps EXCEPT ![cur] = RemoveAt(eps[cur], i)]
           /\ ShutDown([addr |-> eps[cur][i].addr, eid |-> eps[cur][i].eid], done)
    BY ShutParts
  <1>2. cur \in Socks
    BY DEF Typed, TypeOK
  <1>3. eps[cur] \in Seq(Endpoint)
    BY <1>2, SameReal
  <1> DEFINE q == RemoveAt(eps[cur], i)
             e == [addr |-> eps[cur][i].addr, eid |-> eps[cur][i].eid]
             R == IF done THEN real[cur] \ {e} ELSE real[cur]
             O == IF done THEN orphans[cur] ELSE orphans[cur] \union {e}
  <1>4. Mirrors(eps[cur], real[cur], orphans[cur])
    BY <1>2 DEF Mirror
  <1>5. Known(q) = Known(eps[cur]) \ {e} /\ Unique(q)
    BY <1>3, <1>4, RemovedEndpoint DEF Mirrors
  <1>6. e \in Known(eps[cur])
    BY <1>1, MembersOf
  <1>7. eps' = [eps EXCEPT ![cur] = q] /\ ShutDown(e, done)
    BY <1>1
  <1> HIDE DEF q, e
  <1>8. real' = [real EXCEPT ![cur] = R] /\ orphans' = [orphans EXCEPT ![cur] = O]
    BY <1>2, <1>7, SameReal, SameOrphans DEF ShutDown
  <1>9. Mirrors(q, R, O)
    BY <1>4, <1>5, <1>6 DEF Mirrors
  <1> HIDE DEF R, O
  <1> QED BY <1>2, <1>7, <1>8, <1>9, MirrorOne

LEMMA MirrorStep == ASSUME Typed, Mirror, [Next]_vars PROVE Mirror'
  <1>1. ASSUME NEW s \in Socks, Reopen(s) PROVE Mirror'
    <2>1. /\ eps' = [eps EXCEPT ![s] = <<>>] /\ real' = [real EXCEPT ![s] = {}]
          /\ orphans' = [orphans EXCEPT ![s] = {}]
      BY <1>1 DEF Reopen
    <2>2. Mirrors(<<>>, {}, {})
      BY EmptyLists DEF Mirrors
    <2> QED BY <2>1, <2>2, MirrorOne
  <1>2. ASSUME NEW s \in Socks, NEW q, eps' = [eps EXCEPT ![s] = q],
               real' = real, orphans' = orphans,
               Len(eps[s]) = Len(q),
               \A i \in 1 .. Len(eps[s]) : q[i].addr = eps[s][i].addr /\ q[i].eid = eps[s][i].eid
        PROVE  Mirror'
    <2>1. Mirrors(eps[s], real[s], orphans[s])
      BY DEF Mirror
    <2>2. Known(q) = Known(eps[s]) /\ Unique(q)
      BY <1>2, <2>1, KnownMarks DEF Mirrors
    <2>3. Mirrors(q, real[s], orphans[s])
      BY <2>1, <2>2 DEF Mirrors
    <2>4. real' = [real EXCEPT ![s] = real[s]] /\ orphans' = [orphans EXCEPT ![s] = orphans[s]]
      BY <1>2, SameReal, SameOrphans
    <2> QED BY <1>2, <2>3, <2>4, MirrorOne
  <1>3. ASSUME NEW s \in Socks, NEW r \in Replies, Begin(s, r) PROVE Mirror'
    <2>1. eps' = [eps EXCEPT ![s] = Unvisited(eps[s])] /\ real' = real /\ orphans' = orphans
      BY <1>3 DEF Begin
    <2>2. eps[s] \in Seq(Endpoint)
      BY SameReal
    <2>3. /\ Len(Unvisited(eps[s])) = Len(eps[s])
          /\ \A i \in 1 .. Len(eps[s]) : /\ Unvisited(eps[s])[i].addr = eps[s][i].addr
                                         /\ Unvisited(eps[s])[i].eid = eps[s][i].eid
      BY <2>2, UnvisitedEps
    <2> QED BY <1>2, <2>1, <2>3
  <1>4. ASSUME KeepEndpoint PROVE Mirror'
    <2> DEFINE q == Marked(eps[cur], Head(todo))
    <2>1. eps' = [eps EXCEPT ![cur] = q] /\ real' = real /\ orphans' = orphans
      BY <1>4 DEF KeepEndpoint
    <2>2. cur \in Socks
      BY DEF Typed, TypeOK
    <2>3. eps[cur] \in Seq(Endpoint)
      BY <2>2, SameReal
    <2>4. /\ Len(q) = Len(eps[cur])
          /\ \A i \in 1 .. Len(eps[cur]) : q[i].addr = eps[cur][i].addr /\ q[i].eid = eps[cur][i].eid
      BY <2>3, MarkedEps
    <2> HIDE DEF q
    <2> QED BY <1>2, <2>1, <2>2, <2>4
  <1>5. ASSUME OpenEndpoint(FreeEid(cur)) PROVE Mirror'
    <2>1. IsFiniteSet(real[cur])
      BY DEF Typed, TypeOK, RealFinite
    <2>2. FreeEid(cur) \in Eids /\ \A e \in real[cur] : e.eid # FreeEid(cur)
      BY <2>1, EidFree DEF Eids
    <2> QED BY <1>5, <2>2, MirrorOpen
  <1>6. ASSUME OpenEndpoint(-1) PROVE Mirror'
    <2>1. -1 \in Eids /\ ~(-1 > 0)
      BY DEF Eids
    <2> QED BY <1>6, <2>1, MirrorOpen
  <1>7. CASE \/ Refuse \/ AddressesEnd \/ ShutUnopened \/ SweepEnd \/ TakeTopic \/ TopicsEnd
             \/ DropSubscription \/ Done \/ UNCHANGED vars
    <2>1. eps' = eps /\ real' = real /\ orphans' = orphans
      BY Zenon, <1>7 DEF Refuse, AddressesEnd, ShutUnopened, SweepEnd, TakeTopic, TopicsEnd,
                         DropSubscription, Done, vars
    <2> QED BY SMTT(30), <2>1 DEF Mirror, Mirrors
  <1>8. TRUE \in BOOLEAN /\ FALSE \in BOOLEAN
    OBVIOUS
  <1> QED BY <1>1, <1>3, <1>4, <1>5, <1>6, <1>7, <1>8, MirrorShut DEF Next

LEMMA EndpointsMirrored == Spec => [](Typed /\ Mirror)
  <1>1. Typed /\ Chained /\ Mirror /\ [Next]_vars => Mirror'
    BY MirrorStep
  <1>2. Typed /\ Chained => Typed
    OBVIOUS
  <1> QED BY <1>1, <1>2, MirrorInit, TypedAndChained, PTL DEF Spec

(* Whatever replies were refused half-way, endpoint_list and nanomsg agree   *)
(* about the open endpoints of a socket, each of which is in the list once,  *)
(* but for those that nn_shutdown failed to close, none of which is listed.  *)
THEOREM EndpointsTracked == Spec => []Tracked
  <1>1. ASSUME NEW s \in Socks PROVE KnownTo(s) = Known(eps[s])
    BY DEF KnownTo, Known
  <1>2. Mirror => Tracked
    BY <1>1 DEF Mirror, Mirrors, Tracked, Unique
  <1> QED BY <1>2, EndpointsMirrored, PTL

-----------------------------------------------------------------------------
(* How far the reply has been read. What is marked and what is still to be   *)
(* read are together the array that is being read, so that when the list is  *)
(* swept exactly the marked elements are those of the reply.                 *)

TopicsOf(q) == {q[i].topic : i \in 1 .. Len(q)}
SeenTopics(q) == {q[i].topic : i \in {i \in 1 .. Len(q) : q[i].visited}}

ReadAddrs == /\ phase = "addresses" => SeenOf(eps[cur]) \union ToSet(todo) = Wanted
             /\ phase = "sweep" => SeenOf(eps[cur]) = Wanted
             /\ phase \in {"topics", "drop"} \/ ok => AddrsOf(eps[cur]) = Wanted
ReadTopics ==
  /\ phase = "topics" => SeenTopics(subs[cur]) \union ToSet(todo) = ToSet(reply.topics)
  /\ phase = "drop" => SeenTopics(subs[cur]) = ToSet(reply.topics)
  /\ ok => TopicsOf(subs[cur]) = ToSet(reply.topics)

Reading == ReadAddrs /\ ReadTopics /\ (ok => phase = "idle")

LEMMA TopicsMembers ==
  ASSUME NEW q
  PROVE  /\ \A t : t \in TopicsOf(q) <=> \E i \in 1 .. Len(q) : t = q[i].topic
         /\ \A t : t \in SeenTopics(q) <=> \E i \in 1 .. Len(q) : q[i].visited /\ t = q[i].topic
  BY DEF TopicsOf, SeenTopics

(* When nothing is left to sweep, everything is marked.                      *)
LEMMA AllSeen ==
  ASSUME NEW q, Stale(q) = {}
  PROVE  SeenOf(q) = AddrsOf(q) /\ SeenTopics(q) = TopicsOf(q)
  <1>1. \A i \in 1 .. Len(q) : q[i].visited
    BY DEF Stale
  <1>2. \A a : a \in SeenOf(q) <=> a \in AddrsOf(q)
    BY <1>1, MembersOf
  <1>3. \A t : t \in SeenTopics(q) <=> t \in TopicsOf(q)
    BY <1>1, TopicsMembers
  <1> QED BY <1>2, <1>3

LEMMA ToSetEmpty == ToSet(<<>>) = {}
  BY DEF ToSet

LEMMA TopicsUnvisited ==
  ASSUME NEW q \in Seq(Subscription)
  PROVE  SeenTopics(Unvisited(q)) = {}
  <1>1. \A t : t \notin SeenTopics(Unvisited(q))
    BY UnvisitedSubs, TopicsMembers
  <1> QED BY <1>1

LEMMA TopicsTaken ==
  ASSUME NEW q \in Seq(Subscription), NEW t, NEW x \in Subscription, x.topic = t, x.visited
  PROVE  SeenTopics(Append(MarkedSubs(q, t), x)) = SeenTopics(q) \union {t}
  <1> DEFINE m == MarkedSubs(q, t)
             r == Append(m, x)
             n == Len(q)
  <1>1. /\ m \in Seq(Subscription) /\ n \in Nat /\ Len(m) = n
        /\ \A i \in 1 .. n : /\ m[i].topic = q[i].topic
                             /\ m[i].visited <=> q[i].visited \/ q[i].topic = t
    BY MarkedOfTopic
  <1> HIDE DEF m
  <1>2. /\ Len(r) = n + 1 /\ r[n + 1] = x /\ \A k \in 1 .. n : r[k] = m[k]
        /\ \A k \in 1 .. n + 1 : k \in 1 .. n \/ k = n + 1
    BY <1>1, AppendShift
  <1> HIDE DEF r
  <1>3. (\A k \in 1 .. n : k \in 1 .. n + 1) /\ n + 1 \in 1 .. n + 1
    BY <1>1
  <1> HIDE DEF n
  <1>4. \A u : u \in SeenTopics(q) <=> \E i \in 1 .. n : q[i].visited /\ u = q[i].topic
    BY TopicsMembers DEF n
  <1>5. \A u : u \in SeenTopics(r) <=> \E i \in 1 .. n + 1 : r[i].visited /\ u = r[i].topic
    BY <1>2, TopicsMembers
  <1>6. \A u : u \in SeenTopics(r) <=>
               u = t \/ \E i \in 1 .. n : m[i].visited /\ u = m[i].topic
    BY <1>2, <1>3, <1>5
  <1>7. \A u : u \in SeenTopics(r) <=>
               u = t \/ \E i \in 1 .. n : (q[i].visited \/ q[i].topic = t) /\ u = q[i].topic
    BY <1>1, <1>6
  <1>8. \A u : u \in SeenTopics(r) <=> u = t \/ u \in SeenTopics(q)
    BY <1>4, <1>7
  <1> QED BY <1>8 DEF r, m

LEMMA TopicsDropped ==
  ASSUME NEW q \in Seq(Subscription), NEW i \in 1 .. Len(q), ~q[i].visited
  PROVE  SeenTopics(RemoveAt(q, i)) = SeenTopics(q)
  <1> DEFINE r == RemoveAt(q, i)
             n == Len(q)
  <1>1. n \in Nat /\ Len(r) = n - 1 /\ r = [k \in 1 .. n - 1 |-> q[Skip(i, k)]]
    BY RemoveSub
  <1>2. \A j \in 1 .. n : j # i => \E k \in 1 .. n - 1 : Skip(i, k) = j
    BY RemoveShift
  <1> HIDE DEF r
  <1>3. \A k \in 1 .. n - 1 : Skip(i, k) \in 1 .. n /\ r[k] = q[Skip(i, k)]
    BY <1>1, SkipOneToOne
  <1> HIDE DEF n
  <1>4. \A t : t \in SeenTopics(r) => t \in SeenTopics(q)
    BY SMTT(30), <1>1, <1>3, TopicsMembers DEF n
  <1>5. ASSUME NEW t \in SeenTopics(q) PROVE t \in SeenTopics(r)
    <2>1. PICK j \in 1 .. n : q[j].visited /\ t = q[j].topic
      BY TopicsMembers DEF n
    <2>2. PICK k \in 1 .. n - 1 : Skip(i, k) = j
      BY <1>2, <2>1
    <2> QED BY <1>1, <1>3, <2>1, <2>2, TopicsMembers
  <1> QED BY <1>4, <1>5 DEF r

LEMMA ReadingInit == Init => Reading
  BY DEF Init, Reading, ReadAddrs, ReadTopics

LEMMA ReadingBegin ==
  ASSUME Typed, NEW s \in Socks, NEW r \in Replies, Begin(s, r) PROVE Reading'
  <1>1. /\ cur' = s /\ reply' = r /\ todo' = r.addrs /\ ok' = FALSE /\ phase' = "addresses"
        /\ eps' = [eps EXCEPT ![s] = Unvisited(eps[s])]
    BY DEF Begin
  <1>2. eps[s] \in Seq(Endpoint) /\ eps \in [Socks -> Seq(Endpoint)]
    BY DEF Typed, TypeOK
  <1>3. eps'[cur'] = Unvisited(eps[s])
    BY <1>1, <1>2
  <1>4. SeenOf(eps'[cur']) = {}
    BY <1>2, <1>3, SeenUnvisited
  <1>5. ReadAddrs'
    BY <1>1, <1>4 DEF ReadAddrs, Wanted
  <1>6. ReadTopics'
    BY <1>1 DEF ReadTopics
  <1> QED BY <1>1, <1>5, <1>6 DEF Reading

LEMMA ReadingKeep == ASSUME Typed, Reading, KeepEndpoint PROVE Reading'
  <1> DEFINE a == Head(todo)
             q == Marked(eps[cur], a)
  <1>1. /\ todo \in Seq(Addrs \union {Bad}) /\ todo # <<>> /\ phase = "addresses"
        /\ todo' = Tail(todo) /\ eps' = [eps EXCEPT ![cur] = q] /\ a \in Held(cur)
        /\ UNCHANGED <<phase, cur, reply, ok, count, real, orphans, subs, topics, heard, refused>>
    BY DEF KeepEndpoint, At, Typed, TodoFits
  <1>2. cur \in Socks /\ eps \in [Socks -> Seq(Endpoint)] /\ eps[cur] \in Seq(Endpoint)
    BY DEF Typed, TypeOK
  <1>3. a \in AddrsOf(eps[cur])
    BY <1>1 DEF Held, AddrsOf
  <1>4. SeenOf(q) = SeenOf(eps[cur]) \union {a}
    BY <1>2, <1>3, SeenMarked
  <1>5. ToSet(todo) = {a} \union ToSet(todo')
    BY <1>1, ToSetHead
  <1> HIDE DEF a, q
  <1>6. eps'[cur'] = q
    BY <1>1, <1>2
  <1>7. ~ok
    BY <1>1 DEF Reading
  <1>8. SeenOf(eps'[cur']) \union ToSet(todo') = Wanted'
    BY <1>1, <1>4, <1>5, <1>6 DEF Reading, ReadAddrs, Wanted
  <1>9. ReadAddrs'
    BY <1>1, <1>7, <1>8 DEF ReadAddrs
  <1>10. ReadTopics'
    BY <1>1, <1>7 DEF ReadTopics
  <1> QED BY <1>1, <1>7, <1>9, <1>10 DEF Reading

LEMMA ReadingOpen == ASSUME Typed, Reading, NEW eid \in Eids, OpenEndpoint(eid) PROVE Reading'
  <1>1. PICK x \in Endpoint :
           /\ x.addr = Head(todo) /\ x.visited
           /\ phase = "addresses" /\ todo \in Seq(Addrs \union {Bad}) /\ todo # <<>>
           /\ todo' = Tail(todo)
           /\ eps' = [eps EXCEPT ![cur] = Append(eps[cur], x)]
           /\ UNCHANGED <<phase, cur, reply, ok, count, orphans, subs, topics, heard>>
    BY OpenParts
  <1>2. cur \in Socks /\ eps \in [Socks -> Seq(Endpoint)] /\ eps[cur] \in Seq(Endpoint)
    BY DEF Typed, TypeOK
  <1> DEFINE q == Append(eps[cur], x)
  <1>3. SeenOf(q) = SeenOf(eps[cur]) \union {x.addr}
    BY <1>1, <1>2, AppendedEndpoint
  <1>4. ToSet(todo) = {x.addr} \union ToSet(todo')
    BY <1>1, ToSetHead
  <1> HIDE DEF q
  <1>5. eps'[cur'] = q
    BY <1>1, <1>2 DEF q
  <1>6. ~ok
    BY <1>1 DEF Reading
  <1>7. SeenOf(eps'[cur']) \union ToSet(todo') = Wanted'
    BY <1>1, <1>3, <1>4, <1>5 DEF Reading, ReadAddrs, Wanted
  <1>8. ReadAddrs'
    BY <1>1, <1>6, <1>7 DEF ReadAddrs
  <1>9. ReadTopics'
    BY <1>1, <1>6 DEF ReadTopics
  <1> QED BY <1>1, <1>6, <1>8, <1>9 DEF Reading

LEMMA ReadingShut ==
  ASSUME Typed, Mirror, Reading, NEW done \in BOOLEAN, ShutEndpoint(done) PROVE Reading'
  <1>1. PICK i \in 1 .. Len(eps[cur]) :
           /\ phase = "sweep" /\ ~eps[cur][i].visited
           /\ UNCHANGED <<phase, cur, reply, todo, ok, count, subs, topics, heard>>
           /\ eps' = [eps EXCEPT ![cur] = RemoveAt(eps[cur], i)]
    BY ShutParts
  <1>2. cur \in Socks /\ eps \in [Socks -> Seq(Endpoint)] /\ eps[cur] \in Seq(Endpoint)
    BY DEF Typed, TypeOK
  <1>3. ~ok
    BY <1>1 DEF Reading
  <1>4. Unique(eps[cur])
    BY <1>2 DEF Mirror, Mirrors
  <1> DEFINE q == RemoveAt(eps[cur], i)
  <1>5. SeenOf(q) = SeenOf(eps[cur])
    BY <1>1, <1>2, <1>4, RemovedEndpoint
  <1> HIDE DEF q
  <1>6. eps'[cur'] = q
    BY <1>1, <1>2 DEF q
  <1>7. ReadAddrs'
    BY <1>1, <1>3, <1>5, <1>6 DEF Reading, ReadAddrs, Wanted
  <1>8. ReadTopics'
    BY <1>1, <1>3 DEF ReadTopics
  <1> QED BY <1>1, <1>3, <1>7, <1>8 DEF Reading

LEMMA ReadingTake == ASSUME Typed, Reading, TakeTopic PROVE Reading'
  <1>1. PICK t \in Topics, q \in Seq(Subscription), x \in Subscription :
           /\ cur \in Socks /\ phase = "topics" /\ todo # <<>> /\ t = Head(todo)
           /\ todo' = Tail(todo) /\ todo \in Seq(Topics \union {Bad})
           /\ q = MarkedSubs(subs[cur], t)
           /\ x = [id |-> NewId, topic |-> t, visited |-> TRUE]
           /\ subs' = [subs EXCEPT ![cur] = Append(q, x)]
           /\ topics' = [topics EXCEPT ![t] = Append(topics[t], NewId)]
           /\ Listen(t)
           /\ UNCHANGED <<phase, cur, reply, ok, count, eps, real, orphans, lost>>
    BY TakeParts
  <1>2. subs \in [Socks -> Seq(Subscription)] /\ subs[cur] \in Seq(Subscription)
    BY <1>1 DEF Typed, TypeOK
  <1>3. x.topic = t /\ x.visited
    BY <1>1
  <1>4. SeenTopics(Append(q, x)) = SeenTopics(subs[cur]) \union {t}
    <2>1. SeenTopics(Append(MarkedSubs(subs[cur], t), x)) = SeenTopics(subs[cur]) \union {t}
      BY Zenon, <1>2, <1>3, TopicsTaken
    <2>2. q = MarkedSubs(subs[cur], t)
      BY <1>1
    <2> QED BY <2>1, <2>2
  <1>5. subs'[cur'] = Append(q, x)
    BY <1>1, <1>2
  <1>6. ToSet(todo) = {t} \union ToSet(todo')
    BY <1>1, ToSetHead
  <1>7. ~ok
    BY <1>1 DEF Reading
  <1>8. SeenTopics(subs[cur]) \union ToSet(todo) = ToSet(reply.topics)
    BY <1>1 DEF Reading, ReadTopics
  <1>9. SeenTopics(subs'[cur']) \union ToSet(todo') = ToSet(reply.topics)
    BY <1>4, <1>5, <1>6, <1>8
  <1>10. ReadTopics'
    BY <1>1, <1>7, <1>9 DEF ReadTopics
  <1>11. ReadAddrs'
    BY <1>1, <1>7 DEF Reading, ReadAddrs, Wanted
  <1> QED BY <1>1, <1>7, <1>10, <1>11 DEF Reading

LEMMA ReadingDrop == ASSUME Typed, Linked, Reading, DropSubscription PROVE Reading'
  <1>1. PICK t \in Topics, i \in 1 .. Len(subs[cur]) : \E k \in 1 .. Len(topics[t]) :
           /\ cur \in Socks /\ phase = "drop" /\ broken = Whole
           /\ ~subs[cur][i].visited
           /\ subs[cur][i].topic = t /\ topics[t][k] = subs[cur][i].id
           /\ subs' = [subs EXCEPT ![cur] = RemoveAt(subs[cur], i)]
           /\ topics' = [topics EXCEPT ![t] = RemoveAt(topics[t], k)]
           /\ broken' = (IF Len(topics[t]) = 1 THEN TopicPrev(t) ELSE broken)
           /\ heard' = (IF Len(topics[t]) = 1 THEN [heard EXCEPT ![t] = 0] ELSE heard)
           /\ UNCHANGED <<phase, cur, reply, todo, ok, count, eps, real, orphans, refused>>
    BY DropParts
  <1>2. /\ cur \in Socks /\ phase = "drop" /\ ~subs[cur][i].visited
        /\ subs' = [subs EXCEPT ![cur] = RemoveAt(subs[cur], i)]
        /\ UNCHANGED <<phase, cur, reply, todo, ok, count, eps, real, orphans, refused>>
    BY <1>1
  <1>3. subs \in [Socks -> Seq(Subscription)] /\ subs[cur] \in Seq(Subscription)
    BY <1>2 DEF Typed, TypeOK
  <1> DEFINE q == RemoveAt(subs[cur], i)
  <1>4. SeenTopics(q) = SeenTopics(subs[cur])
    BY <1>2, <1>3, TopicsDropped
  <1> HIDE DEF q
  <1>5. subs'[cur'] = q
    BY <1>2, <1>3 DEF q
  <1>6. ~ok
    BY <1>2 DEF Reading
  <1>7. ReadTopics'
    BY <1>2, <1>4, <1>5, <1>6 DEF Reading, ReadTopics
  <1>8. ReadAddrs'
    BY <1>2, <1>6 DEF Reading, ReadAddrs, Wanted
  <1> QED BY <1>2, <1>6, <1>7, <1>8 DEF Reading

(* From one array, or one sweep, to the next.                                *)
LEMMA ReadingMoves ==
  ASSUME Typed, Reading,
         \/ \E s \in Socks : Reopen(s)
         \/ Refuse \/ AddressesEnd \/ ShutUnopened \/ SweepEnd \/ TopicsEnd \/ Done
         \/ UNCHANGED vars
  PROVE  Reading'
  <1>1. CASE \E s \in Socks : Reopen(s)
    <2>1. phase' = "idle" /\ ok' = FALSE
      BY <1>1 DEF Reopen
    <2> QED BY <2>1 DEF Reading, ReadAddrs, ReadTopics
  <1>2. CASE Refuse
    <2>1. phase' = "idle" /\ ok' = FALSE
      BY <1>2 DEF Refuse, Reading, Typed, TypeOK
    <2> QED BY <2>1 DEF Reading, ReadAddrs, ReadTopics
  <1>3. CASE AddressesEnd
    <2>1. /\ phase = "addresses" /\ todo = <<>> /\ phase' = "sweep" /\ ~ok
          /\ UNCHANGED <<cur, reply, ok, eps, subs>>
      BY <1>3 DEF AddressesEnd, Reading
    <2>2. SeenOf(eps[cur]) \union ToSet(todo) = Wanted
      BY <2>1 DEF Reading, ReadAddrs
    <2>3. SeenOf(eps[cur]) = Wanted
      BY <2>1, <2>2, ToSetEmpty
    <2> QED BY <2>1, <2>3 DEF Reading, ReadAddrs, ReadTopics, Wanted
  <1>4. CASE SweepEnd
    <2>1. /\ phase = "sweep" /\ Stale(eps[cur]) = {} /\ phase' = "topics" /\ ~ok
          /\ todo' = reply.topics
          /\ subs' = [subs EXCEPT ![cur] = Unvisited(subs[cur])]
          /\ UNCHANGED <<cur, reply, ok, eps>>
      BY <1>4 DEF SweepEnd, Reading
    <2>2. AddrsOf(eps[cur]) = Wanted
      BY <2>1, AllSeen DEF Reading, ReadAddrs
    <2>3. cur \in Socks /\ subs[cur] \in Seq(Subscription) /\ subs \in [Socks -> Seq(Subscription)]
      BY DEF Typed, TypeOK
    <2>4. subs'[cur'] = Unvisited(subs[cur])
      BY <2>1, <2>3
    <2>5. SeenTopics(subs'[cur']) = {}
      BY <2>3, <2>4, TopicsUnvisited
    <2> QED BY <2>1, <2>2, <2>5 DEF Reading, ReadAddrs, ReadTopics, Wanted
  <1>5. CASE TopicsEnd
    <2>1. /\ phase = "topics" /\ todo = <<>> /\ phase' = "drop" /\ ~ok
          /\ UNCHANGED <<cur, reply, ok, eps, subs>>
      BY <1>5 DEF TopicsEnd, Reading
    <2>2. SeenTopics(subs[cur]) \union ToSet(todo) = ToSet(reply.topics)
      BY <2>1 DEF Reading, ReadTopics
    <2>3. SeenTopics(subs[cur]) = ToSet(reply.topics)
      BY <2>1, <2>2, ToSetEmpty
    <2> QED BY <2>1, <2>3 DEF Reading, ReadAddrs, ReadTopics, Wanted
  <1>6. CASE Done
    <2>1. /\ phase = "drop" /\ Stale(subs[cur]) = {} /\ phase' = "idle" /\ ok'
          /\ UNCHANGED <<cur, reply, eps, subs>>
      BY <1>6 DEF Done
    <2>2. TopicsOf(subs[cur]) = ToSet(reply.topics)
      BY <2>1, AllSeen DEF Reading, ReadTopics
    <2> QED BY <2>1, <2>2 DEF Reading, ReadAddrs, ReadTopics, Wanted
  <1>7. CASE UNCHANGED vars
    BY <1>7 DEF vars, Reading, ReadAddrs, ReadTopics, Wanted
  <1>8. CASE ShutUnopened
    <2>1. phase = "sweep" /\ phase' = "aborted" /\ ok' = ok
      BY <1>8 DEF ShutUnopened
    <2>2. ~ok /\ ok \in BOOLEAN
      BY <2>1 DEF Reading, Typed, TypeOK
    <2>3. ok' = FALSE
      BY <2>1, <2>2
    <2> QED BY <2>1, <2>3 DEF Reading, ReadAddrs, ReadTopics
  <1> QED BY <1>1, <1>2, <1>3, <1>4, <1>5, <1>6, <1>7, <1>8

LEMMA ReadingStep == ASSUME Typed, Chained, Mirror, Reading, [Next]_vars PROVE Reading'
  <1>1. ASSUME OpenEndpoint(FreeEid(cur)) PROVE Reading'
    <2>1. IsFiniteSet(real[cur])
      BY DEF Typed, TypeOK, RealFinite
    <2>2. FreeEid(cur) \in Eids
      BY <2>1, EidFree DEF Eids
    <2> QED BY <1>1, <2>2, ReadingOpen
  <1>2. ASSUME OpenEndpoint(-1) PROVE Reading'
    <2>1. -1 \in Eids
      BY DEF Eids
    <2> QED BY <1>2, <2>1, ReadingOpen
  <1>3. Linked /\ TRUE \in BOOLEAN /\ FALSE \in BOOLEAN
    BY DEF Chained
  <1> QED BY <1>1, <1>2, <1>3, ReadingBegin, ReadingKeep, ReadingShut, ReadingTake, ReadingDrop,
             ReadingMoves DEF Next

IInv == Typed /\ Chained /\ Mirror /\ Reading

LEMMA IInvInit == Init => IInv
  BY TypedInit, ChainedInit, MirrorInit, ReadingInit DEF IInv

LEMMA IInvStep == IInv /\ [Next]_vars => IInv'
  <1> SUFFICES ASSUME IInv, [Next]_vars PROVE IInv'
    OBVIOUS
  <1>1. Typed'
    BY TypedStep DEF IInv, Chained
  <1> QED BY <1>1, ChainedStep, MirrorStep, ReadingStep DEF IInv

LEMMA AlwaysIInv == Spec => []IInv
  BY IInvInit, IInvStep, PTL DEF Spec

(* When nc_parse_and_apply returns 1 the socket's open endpoints are those   *)
(* of the reply, but for the ones nanomsg refused to open and for those it   *)
(* failed to shut down.                                                      *)
THEOREM RepliesApplied == Spec => []AppliedExactly
  <1>1. ASSUME IInv PROVE AppliedExactly
    <2> SUFFICES ASSUME ok
                 PROVE  {e.addr : e \in real[cur] \ orphans[cur]} =
                          Wanted \ {eps[cur][i].addr :
                                      i \in {i \in 1 .. Len(eps[cur]) : eps[cur][i].eid < 0}}
      BY DEF AppliedExactly
    <2> DEFINE q == eps[cur]
               failed == {q[i].addr : i \in {i \in 1 .. Len(q) : q[i].eid < 0}}
    <2>1. cur \in Socks
      BY <1>1 DEF IInv, Typed, TypeOK
    <2>2. real[cur] \ orphans[cur] = Known(q) /\ Unique(q) /\ AddrsOf(q) = Wanted
      BY <1>1, <2>1 DEF IInv, Mirror, Mirrors, Reading, ReadAddrs
    <2>3. \A i \in 1 .. Len(q) : q[i].eid \in Int /\ q[i].eid # 0
      BY <1>1, <2>1 DEF IInv, Typed, EidsSigned, Eids
    <2> HIDE DEF q
    <2>4. \A a : a \in failed <=> \E i \in 1 .. Len(q) : q[i].eid < 0 /\ a = q[i].addr
      OBVIOUS
    <2> HIDE DEF failed
    <2>5. \A a : a \in {e.addr : e \in Known(q)} <=> \E i \in 1 .. Len(q) : q[i].eid > 0 /\ a = q[i].addr
      <3>1. \A a : a \in {e.addr : e \in Known(q)} <=> \E e \in Known(q) : a = e.addr
        OBVIOUS
      <3>2. ASSUME NEW i \in 1 .. Len(q), q[i].eid > 0
            PROVE  \E e \in Known(q) : q[i].addr = e.addr
        <4>1. [addr |-> q[i].addr, eid |-> q[i].eid] \in Known(q)
          BY <3>2, MembersOf
        <4>2. q[i].addr = [addr |-> q[i].addr, eid |-> q[i].eid].addr
          OBVIOUS
        <4> QED BY <4>1, <4>2
      <3>3. ASSUME NEW e \in Known(q) PROVE \E i \in 1 .. Len(q) : q[i].eid > 0 /\ e.addr = q[i].addr
        <4>1. PICK i \in 1 .. Len(q) : q[i].eid > 0 /\ e = [addr |-> q[i].addr, eid |-> q[i].eid]
          BY MembersOf
        <4> QED BY <4>1
      <3> QED BY <3>1, <3>2, <3>3
    <2>6. \A a : a \in AddrsOf(q) /\ a \notin failed <=>
                 \E i \in 1 .. Len(q) : q[i].eid > 0 /\ a = q[i].addr
      <3> SUFFICES ASSUME NEW a
                   PROVE  a \in AddrsOf(q) /\ a \notin failed <=>
                            \E i \in 1 .. Len(q) : q[i].eid > 0 /\ a = q[i].addr
        OBVIOUS
      <3>1. ASSUME a \in AddrsOf(q), a \notin failed
            PROVE  \E i \in 1 .. Len(q) : q[i].eid > 0 /\ a = q[i].addr
        <4>1. PICK i \in 1 .. Len(q) : a = q[i].addr
          BY <3>1, MembersOf
        <4> QED BY <2>3, <2>4, <3>1, <4>1
      <3>2. ASSUME NEW i \in 1 .. Len(q), q[i].eid > 0, a = q[i].addr
            PROVE  a \in AddrsOf(q) /\ a \notin failed
        <4>1. ASSUME a \in failed PROVE FALSE
          <5>1. PICK j \in 1 .. Len(q) : q[j].eid < 0 /\ a = q[j].addr
            BY <2>4, <4>1
          <5>2. j = i
            BY <2>2, <3>2, <5>1 DEF Unique
          <5> QED BY <2>3, <3>2, <5>1, <5>2
        <4> QED BY <3>2, <4>1, MembersOf
      <3> QED BY <3>1, <3>2
    <2>7. {e.addr : e \in Known(q)} = Wanted \ failed
      BY <2>2, <2>5, <2>6
    <2> QED BY <2>2, <2>7 DEF q, failed
  <1> QED BY <1>1, AlwaysIInv, PTL

(* When nc_parse_and_apply returns 1 the socket depends on the topics of the *)
(* reply and on no other.                                                    *)
THEOREM TopicsApplied == Spec => []TopicsExactly
  <1>1. IInv => TopicsExactly
    BY DEF IInv, Reading, ReadTopics, TopicsExactly, TopicsOf
  <1> QED BY <1>1, AlwaysIInv, PTL

(* A step that ends an endpoint is nc_close, or the sweep after the whole    *)
(* list of addresses was read, of an address that is not in that list.       *)
THEOREM NothingDisturbed == Spec => Undisturbed
  <1> DEFINE Fine == \A s \in Socks : \A e \in real[s] \ real'[s] :
                       \/ \E x \in Socks : Reopen(x)
                       \/ e.addr \notin Wanted /\ Bad \notin Wanted /\ s = cur
  <1>1. ASSUME IInv, [Next]_vars PROVE Fine \/ UNCHANGED vars
    <2> SUFFICES ASSUME NEW s \in Socks, NEW e \in real[s] \ real'[s],
                        ~(\E x \in Socks : Reopen(x))
                 PROVE  e.addr \notin Wanted /\ Bad \notin Wanted /\ s = cur
      OBVIOUS
    <2>1. PICK done \in BOOLEAN : ShutEndpoint(done)
      <3>1. /\ real \in [Socks -> SUBSET [addr : Addrs, eid : Nat \ {0}]] /\ cur \in Socks
        BY <1>1 DEF IInv, Typed, TypeOK
      <3>2. ASSUME real' = real PROVE FALSE
        BY <3>2
      <3>3. ASSUME NEW eid, OpenEndpoint(eid) PROVE FALSE
        <4>1. real' = [real EXCEPT ![cur] = Opened(Head(todo), eid)]
          BY <3>3 DEF OpenEndpoint
        <4>2. real[cur] \subseteq Opened(Head(todo), eid)
          BY DEF Opened
        <4> QED BY <3>1, <4>1, <4>2
      <3>4. CASE \/ \E x \in Socks : \E r \in Replies : Begin(x, r)
                 \/ Refuse \/ KeepEndpoint \/ AddressesEnd \/ ShutUnopened \/ SweepEnd
                 \/ TakeTopic \/ TopicsEnd \/ DropSubscription \/ Done \/ UNCHANGED vars
        <4>1. real' = real
          BY Zenon, <3>4 DEF Begin, Refuse, KeepEndpoint, AddressesEnd, ShutUnopened, SweepEnd,
                             TakeTopic, TopicsEnd, DropSubscription, Done, vars
        <4> QED BY SMTT(30), <3>2, <4>1
      <3> QED BY <1>1, <3>3, <3>4 DEF Next
    <2>2. PICK i \in 1 .. Len(eps[cur]) :
            /\ phase = "sweep" /\ ~eps[cur][i].visited
            /\ \/ real' = [real EXCEPT ![cur] =
                    real[cur] \ {[addr |-> eps[cur][i].addr, eid |-> eps[cur][i].eid]}]
               \/ real' = real
      BY <1>1, <2>1, ShutParts DEF IInv, ShutDown
    <2> DEFINE q == eps[cur]
               x == [addr |-> q[i].addr, eid |-> q[i].eid]
    <2>3. /\ cur \in Socks /\ q \in Seq(Endpoint)
          /\ real \in [Socks -> SUBSET [addr : Addrs, eid : Nat \ {0}]]
      BY <1>1 DEF IInv, Typed, TypeOK
    <2>4. Unique(q) /\ SeenOf(q) = Wanted
      BY <1>1, <2>2, <2>3 DEF IInv, Mirror, Mirrors, Reading, ReadAddrs
    <2>5. s = cur /\ e = x
      <3> HIDE DEF x
      <3>1. real' = [real EXCEPT ![cur] = real[cur] \ {x}] \/ real' = real
        BY <2>2 DEF x
      <3> QED BY <2>3, <3>1
    <2>6. e.addr = q[i].addr
      BY <2>5
    <2>7. q[i].addr \notin SeenOf(q)
      <3>1. ASSUME NEW j \in 1 .. Len(q), q[j].visited, q[i].addr = q[j].addr PROVE FALSE
        BY <2>2, <2>4, <3>1 DEF Unique
      <3> QED BY <3>1, MembersOf
    <2>8. SeenOf(q) \subseteq Addrs
      <3>1. \A j \in 1 .. Len(q) : q[j] \in Endpoint
        BY <2>3
      <3>2. \A j \in 1 .. Len(q) : q[j].addr \in Addrs
        BY <3>1 DEF Endpoint
      <3> QED BY <3>2, MembersOf
    <2>9. Bad \notin Addrs
      BY ApplyAssumption DEF ApplyAssumption
    <2> QED BY <2>4, <2>5, <2>6, <2>7, <2>8, <2>9
  <1> QED BY <1>1, AlwaysIInv, PTL DEF Spec, Undisturbed
=============================================================================
