--------------------------- MODULE EventQueueProofs ---------------------------
(***************************************************************************)
(* What add_event_type and pop_event do to the events of a certain set     *)
(* that are in a queue; and induction up to a number.                      *)
(***************************************************************************)
EXTENDS EventQueue, FiniteSetTheorems, FunctionTheorems, TLAPS

(* add_event_type keeps a queue a queue of events, within its capacity. *)
LEMMA PutType ==
  ASSUME NEW S, NEW q \in Seq(S), NEW e \in S, NEW n \in Nat \ {0}
  PROVE  Put(q, e, n) \in Seq(S)
<1>1. CASE Len(q) < n
  BY <1>1 DEF Put
<1>2. CASE ~(Len(q) < n)
  <2>1. q # <<>>
    BY <1>2
  <2>2. Tail(q) \in Seq(S)
    BY <2>1
  <2> QED
    BY <1>2, <2>2 DEF Put
<1> QED
  BY <1>1, <1>2

(* What is in the queue after add_event_type was in it before, one place   *)
(* further back if the oldest event was discarded, or is the new event.    *)
LEMMA PutPlaces ==
  ASSUME NEW S, NEW q \in Seq(S), NEW e \in S, NEW n \in Nat \ {0}
  PROVE  LET p == Put(q, e, n) IN
         \E d \in {0, 1} :
           /\ Len(p) \in Nat /\ Len(p) = Len(q) + 1 - d
           /\ p[Len(p)] = e
           /\ \A i \in 1..(Len(p) - 1) : i + d \in 1..Len(q) /\ p[i] = q[i + d]
<1>1. CASE Len(q) < n
  <2>1. Put(q, e, n) = Append(q, e)
    BY <1>1 DEF Put
  <2> QED
    BY <2>1
<1>2. CASE ~(Len(q) < n)
  <2>1. q # <<>> /\ Len(q) \in Nat \ {0}
    BY <1>2
  <2>2. Put(q, e, n) = Append(Tail(q), e)
    BY <1>2 DEF Put
  <2>3. /\ Tail(q) \in Seq(S) /\ Len(Tail(q)) = Len(q) - 1
        /\ \A i \in 1..(Len(q) - 1) : Tail(q)[i] = q[i + 1]
    BY <2>1
  <2> DEFINE p == Put(q, e, n)
  <2>4. /\ Len(p) = Len(q) /\ p[Len(p)] = e
        /\ \A i \in 1..(Len(p) - 1) : p[i] = Tail(q)[i]
    BY <2>1, <2>2, <2>3
  <2>5. /\ Len(p) \in Nat /\ Len(p) = Len(q) + 1 - 1 /\ p[Len(p)] = e
        /\ \A i \in 1..(Len(p) - 1) : i + 1 \in 1..Len(q) /\ p[i] = q[i + 1]
    <3> HIDE DEF p
    <3> QED
      BY <2>1, <2>3, <2>4
  <2> QED
    BY <2>5
<1> QED
  BY <1>1, <1>2

(* Of a set of events no event was waiting: after add_event_type of        *)
(* another, none is; after add_event_type of one of them, that one.        *)
LEMMA PutFirst ==
  ASSUME NEW S, NEW q \in Seq(S), NEW e \in S, NEW n \in Nat \ {0}, NEW T,
         PlacesOf(q, T) = {}
  PROVE  /\ AtMostOne(Put(q, e, n), T)
         /\ e \notin T => PlacesOf(Put(q, e, n), T) = {}
<1> DEFINE p == Put(q, e, n)
<1>1. p \in Seq(S)
  BY PutType
<1>2. PICK d \in {0, 1} :
        /\ Len(p) \in Nat /\ p[Len(p)] = e
        /\ \A i \in 1..(Len(p) - 1) : i + d \in 1..Len(q) /\ p[i] = q[i + d]
  BY PutPlaces
<1>3. \A i \in 1..(Len(p) - 1) : p[i] \notin T
  BY <1>2 DEF PlacesOf
<1>4. DOMAIN p = 1..Len(p)
  BY <1>1
<1>5. PlacesOf(p, T) \subseteq {Len(p)}
  BY <1>2, <1>3, <1>4 DEF PlacesOf
<1> QED
  BY <1>2, <1>5 DEF PlacesOf, AtMostOne

(* add_event_type of an event outside the set leaves it at most one. *)
LEMMA PutOther ==
  ASSUME NEW S, NEW q \in Seq(S), NEW e \in S, NEW n \in Nat \ {0}, NEW T,
         AtMostOne(q, T), e \notin T
  PROVE  AtMostOne(Put(q, e, n), T)
<1> DEFINE p == Put(q, e, n)
<1>1. p \in Seq(S) /\ q \in Seq(S)
  BY PutType
<1>2. PICK d \in {0, 1} :
        /\ Len(p) \in Nat /\ p[Len(p)] = e
        /\ \A i \in 1..(Len(p) - 1) : i + d \in 1..Len(q) /\ p[i] = q[i + d]
  BY PutPlaces
<1>3. DOMAIN p = 1..Len(p) /\ DOMAIN q = 1..Len(q)
  BY <1>1
<1>4. \A i \in PlacesOf(p, T) : i \in 1..(Len(p) - 1) /\ i + d \in PlacesOf(q, T)
  BY <1>2, <1>3 DEF PlacesOf
<1> SUFFICES ASSUME NEW i \in PlacesOf(p, T), NEW j \in PlacesOf(p, T) PROVE i = j
  BY DEF AtMostOne
<1>5. i + d = j + d
  BY <1>4 DEF AtMostOne
<1> QED
  BY <1>4, <1>5

(* pop_event moves every event one place to the front. *)
LEMMA TailPlaces ==
  ASSUME NEW S, NEW q \in Seq(S), q # <<>>, NEW T
  PROVE  /\ \A i \in PlacesOf(Tail(q), T) : i \in Nat /\ i + 1 \in PlacesOf(q, T)
         /\ Head(q) \in T => 1 \in PlacesOf(q, T)
<1>1. /\ Tail(q) \in Seq(S) /\ Len(Tail(q)) = Len(q) - 1 /\ Len(q) \in Nat \ {0}
      /\ \A i \in 1..(Len(q) - 1) : Tail(q)[i] = q[i + 1]
  OBVIOUS
<1>2. DOMAIN Tail(q) = 1..(Len(q) - 1) /\ DOMAIN q = 1..Len(q)
  BY <1>1
<1>3. Head(q) = q[1]
  OBVIOUS
<1> QED
  BY <1>1, <1>2, <1>3 DEF PlacesOf

(* After pop_event of an event of the set none is left, if there was at    *)
(* most one; and pop_event adds none.                                      *)
LEMMA TailTokens ==
  ASSUME NEW S, NEW q \in Seq(S), q # <<>>, NEW T, AtMostOne(q, T)
  PROVE  /\ AtMostOne(Tail(q), T)
         /\ PlacesOf(q, T) = {} => PlacesOf(Tail(q), T) = {}
         /\ Head(q) \in T => PlacesOf(Tail(q), T) = {}
<1>1. /\ \A i \in PlacesOf(Tail(q), T) : i \in Nat /\ i + 1 \in PlacesOf(q, T)
      /\ Head(q) \in T => 1 \in PlacesOf(q, T)
  BY TailPlaces
<1>2. AtMostOne(Tail(q), T)
  <2> SUFFICES ASSUME NEW i \in PlacesOf(Tail(q), T), NEW j \in PlacesOf(Tail(q), T)
               PROVE  i = j
    BY DEF AtMostOne
  <2>1. i + 1 = j + 1
    BY <1>1 DEF AtMostOne
  <2> QED
    BY <1>1, <2>1
<1>3. Head(q) \in T => PlacesOf(Tail(q), T) = {}
  <2> SUFFICES ASSUME Head(q) \in T, NEW i \in PlacesOf(Tail(q), T) PROVE FALSE
    OBVIOUS
  <2>1. i + 1 = 1 /\ i \in Nat
    BY <1>1 DEF AtMostOne
  <2>2. i \in DOMAIN Tail(q) /\ DOMAIN Tail(q) = 1..Len(Tail(q))
    BY DEF PlacesOf
  <2> QED
    BY <2>1, <2>2
<1> QED
  BY <1>1, <1>2, <1>3

-------------------------------------------------------------------------------
(* Induction up to n, over a set: the prefix that is in it would otherwise *)
(* be a finite set with an injection into itself, the successor, that      *)
(* misses 0.                                                               *)
LEMMA UpTo ==
  ASSUME NEW n \in Nat, NEW S, 0 \in S, \A k \in 0..n : k < n /\ k \in S => k + 1 \in S
  PROVE  \A k \in 0..n : k \in S
<1> SUFFICES ASSUME NEW x \in 0..n, x \notin S PROVE FALSE
  OBVIOUS
<1> DEFINE prefix == {k \in 0..n : k < x /\ \A i \in 0..k : i \in S}
           next   == [k \in prefix |-> k + 1]
<1>1. IsFiniteSet(prefix)
  <2>1. prefix \in SUBSET (0..n) /\ IsFiniteSet(0..n)
    BY FS_Interval
  <2> QED
    BY <2>1, FS_Subset
<1>2. ASSUME NEW k \in prefix PROVE k + 1 \in prefix
  <2>1. k \in 0..n /\ k < x /\ k < n /\ k \in S
    OBVIOUS
  <2>2. k + 1 \in S
    BY <2>1
  <2>3. k + 1 # x
    BY <2>2
  <2>4. k + 1 \in 0..n /\ k + 1 < x
    BY <2>1, <2>3
  <2>5. \A i \in 0..(k + 1) : i \in 0..k \/ i = k + 1
    BY <2>1
  <2> QED
    BY <2>2, <2>4, <2>5
<1>3. next \in Injection(prefix, prefix)
  <2>1. next \in [prefix -> prefix]
    BY <1>2
  <2>2. \A k, other \in prefix : next[k] = next[other] => k = other
    OBVIOUS
  <2> HIDE DEF prefix, next
  <2> QED
    BY <2>1, <2>2, Fun_IsInj
<1>4. next \in Surjection(prefix, prefix)
  BY <1>1, <1>3, FS_Injection
<1>5. 0 \in prefix
  <2>1. x # 0 /\ x \in Nat
    OBVIOUS
  <2> QED
    BY <2>1
<1>6. PICK k \in prefix : next[k] = 0
  BY <1>4, <1>5 DEF Surjection
<1> QED
  BY <1>6
===============================================================================
