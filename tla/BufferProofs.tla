---------------------------- MODULE BufferProofs ------------------------------
(***************************************************************************)
(* Theorems about the circular buffer, for every size, every number of     *)
(* elements and every length of array: alone it is the queue of Fifo,      *)
(* locked it is a queue, and what an interrupt in the middle of its        *)
(* operations may and may not do to it.                                    *)
(***************************************************************************)
EXTENDS SharedBuffer, EventQueueProofs

-------------------------------------------------------------------------------
(***************************************************************************)
(* A circular buffer as a queue, for every size.                           *)
(***************************************************************************)

(* A buffer of values, and the place a position beyond the end is at.      *)
Rings(V) == [storage : [Places -> V], head : Places, tail : Places,
             empty : BOOLEAN, full : BOOLEAN, wrap : BOOLEAN]
Spot(position) == IF position < StorageSize THEN position ELSE position - StorageSize

(* The buffer holds q, and its flags say so.                               *)
Filled(b, q) ==
  /\ Len(q) <= StorageSize
  /\ b.tail = Spot(b.head + Len(q))
  /\ \A i \in DOMAIN q : b.storage[Spot(b.head + i - 1)] = q[i]
  /\ b.empty <=> Len(q) = 0
  /\ b.full <=> Len(q) = StorageSize

(* The arithmetic of the positions.                                        *)
LEMMA Spots ==
  ASSUME NEW h \in Places, NEW n \in 0..StorageSize
  PROVE  /\ Spot(h + n) \in Places
         /\ Increased(Spot(h + n)) = Spot(h + n + 1) \/ n = StorageSize
         /\ Increased(h) = Spot(h + 1) /\ Increased(h) \in Places /\ Decreased(h) \in Places
         /\ n # 0 => /\ Spot(Increased(h) + (n - 1)) = Spot(h + n)
                     /\ Decreased(Spot(h + n)) = Spot(h + (n - 1))
         /\ n = StorageSize => Spot(h + n) = h
         /\ Spot(h + n) = h => n \in {0, StorageSize}
         /\ Spot(h + 0) = h
BY BufferAssumption DEF BufferAssumption, Places, Spot, Increased, Decreased

(* Two positions that are not a whole round apart are two places.          *)
LEMMA SpotsDiffer ==
  ASSUME NEW h \in Places, NEW m \in 0..StorageSize, NEW n \in 0..StorageSize,
         Spot(h + m) = Spot(h + n), m # n
  PROVE  m = StorageSize \/ n = StorageSize
BY BufferAssumption DEF BufferAssumption, Places, Spot

(* What a buffer holds, told by its positions and flags, is what Filled    *)
(* says.                                                                   *)
LEMMA FilledMeans ==
  ASSUME NEW V, NEW b \in Rings(V)
  PROVE  /\ \A q \in Seq(V) : Filled(b, q) => Consistent(b) /\ Contents(b) = q /\ Size(b) = Len(q)
         /\ Consistent(b) => Contents(b) \in Seq(V) /\ Filled(b, Contents(b))
<1> USE BufferAssumption DEF BufferAssumption
<1>1. /\ b.head \in Places /\ b.tail \in Places /\ b.storage \in [Places -> V]
      /\ b.empty \in BOOLEAN /\ b.full \in BOOLEAN
  BY DEF Rings
<1>2. ASSUME NEW n \in 0..StorageSize, b.tail = Spot(b.head + n),
             b.empty <=> n = 0, b.full <=> n = StorageSize
      PROVE  Consistent(b) /\ Size(b) = n
  <2>1. b.tail = b.head <=> n \in {0, StorageSize}
    <3>1. Spot(b.head + n) = b.head => n \in {0, StorageSize}
      BY <1>1, <1>2, Spots
    <3>2. n \in {0, StorageSize} => Spot(b.head + n) = b.head
      BY <1>1 DEF Spot, Places
    <3> QED
      BY <1>2, <3>1, <3>2
  <2>2. ~(b.empty /\ b.full)
    BY <1>2
  <2>3. Size(b) = n
    BY <1>1, <1>2 DEF Size, Spot, Places
  <2> QED
    BY <1>1, <1>2, <2>1, <2>2, <2>3 DEF Consistent
<1>3. ASSUME NEW i \in Nat
      PROVE  At(b, i) = b.storage[Spot(b.head + i)]
  BY <1>1 DEF At, Spot, Places
<1>4. ASSUME NEW q \in Seq(V), Filled(b, q)
      PROVE  Consistent(b) /\ Contents(b) = q /\ Size(b) = Len(q)
  <2>1. Consistent(b) /\ Size(b) = Len(q)
    <3>1. Len(q) \in 0..StorageSize
      BY <1>4 DEF Filled
    <3> QED
      BY <1>2, <1>4, <3>1 DEF Filled
  <2>2. DOMAIN q = 1..Len(q) /\ q = [i \in 1..Len(q) |-> q[i]] /\ Len(q) \in Nat
    OBVIOUS
  <2>3. ASSUME NEW i \in 1..Len(q) PROVE At(b, i - 1) = q[i]
    <3>1. i - 1 \in Nat /\ b.head + (i - 1) = b.head + i - 1
      BY <1>1 DEF Places
    <3> QED
      BY <1>3, <1>4, <2>2, <3>1 DEF Filled
  <2>4. [i \in 1..Len(q) |-> At(b, i - 1)] = [i \in 1..Len(q) |-> q[i]]
    BY <2>3
  <2> QED
    BY <2>1, <2>2, <2>4 DEF Contents
<1>5. ASSUME Consistent(b)
      PROVE  Contents(b) \in Seq(V) /\ Filled(b, Contents(b))
  <2> DEFINE n == Size(b)
             q == Contents(b)
  <2>1. /\ n \in 0..StorageSize /\ b.tail = Spot(b.head + n)
        /\ b.empty <=> n = 0
        /\ b.full <=> n = StorageSize
    BY <1>1, <1>5 DEF Consistent, Size, Spot, Places
  <2> HIDE DEF n
  <2>2. ASSUME NEW i \in 1..n
        PROVE  At(b, i - 1) \in V /\ At(b, i - 1) = b.storage[Spot(b.head + i - 1)]
    <3>1. i - 1 \in Nat /\ i - 1 \in 0..StorageSize /\ b.head + (i - 1) = b.head + i - 1
      BY <1>1, <2>1 DEF Places
    <3>2. Spot(b.head + (i - 1)) \in Places
      BY <1>1, <3>1, Spots
    <3> QED
      BY <1>1, <1>3, <3>1, <3>2
  <2>3. q = [i \in 1..n |-> At(b, i - 1)]
    BY DEF Contents, n
  <2> HIDE DEF q
  <2>4. q \in [1..n -> V]
    BY <2>2, <2>3
  <2>5. q \in Seq(V) /\ Len(q) = n /\ DOMAIN q = 1..n
    BY <2>1, <2>4
  <2>6. \A i \in 1..n : q[i] = b.storage[Spot(b.head + i - 1)]
    BY <2>2, <2>3
  <2> QED
    BY <2>1, <2>5, <2>6 DEF Filled, q
<1> QED
  BY <1>4, <1>5

(* circular_buffer_add: the element is the last one; a full buffer loses   *)
(* its first.                                                              *)
LEMMA AddedFills ==
  ASSUME NEW V, NEW b \in Rings(V), NEW q \in Seq(V), Filled(b, q), NEW e \in V, ~Refuses(b)
  PROVE  Filled(Added(b, e), Append(IF b.full THEN Tail(q) ELSE q, e))
<1> USE BufferAssumption DEF BufferAssumption
<1> DEFINE c == Added(b, e)
           kept == IF b.full THEN Tail(q) ELSE q
           h == IF b.full THEN Increased(b.head) ELSE b.head
           n == Len(kept)
<1>1. /\ b.head \in Places /\ b.tail \in Places /\ b.storage \in [Places -> V]
      /\ b.empty \in BOOLEAN /\ b.full \in BOOLEAN
  BY DEF Rings
<1>2. /\ Len(q) \in 0..StorageSize /\ b.tail = Spot(b.head + Len(q))
      /\ \A i \in 1..Len(q) : b.storage[Spot(b.head + i - 1)] = q[i]
      /\ b.full <=> Len(q) = StorageSize
  BY DEF Filled
<1>3. /\ c.head = h /\ c.tail = Increased(b.tail) /\ c.empty = FALSE
      /\ c.full = (Increased(b.tail) = h) /\ c.storage = [b.storage EXCEPT ![b.tail] = e]
  BY DEF Added, Rings
<1>4. /\ kept \in Seq(V) /\ n \in 0..(StorageSize - 1) /\ h \in Places
      /\ b.tail = Spot(h + n)
      /\ \A i \in 1..n : b.storage[Spot(h + i - 1)] = kept[i]
  <2>1. CASE ~b.full
    BY <1>1, <1>2, <2>1
  <2>2. CASE b.full
    <3>1. /\ Len(q) = StorageSize /\ n = StorageSize - 1 /\ h = Increased(b.head)
          /\ kept \in Seq(V)
          /\ \A i \in 1..n : kept[i] = q[i + 1] /\ i + 1 \in 1..Len(q)
      BY <1>2, <2>2
    <3>2. h \in Places /\ Spot(h + n) = Spot(b.head + Len(q))
      BY <1>1, <1>2, <3>1, Spots
    <3>3. ASSUME NEW i \in 1..n PROVE b.storage[Spot(h + i - 1)] = kept[i]
      <4>1. i + 1 \in 0..StorageSize /\ i + 1 # 0 /\ i + 1 - 1 = i
        BY <3>1
      <4>2. Spot(h + (i + 1 - 1 - 1)) = Spot(b.head + i)
        <5>1. i \in 0..StorageSize /\ i # 0
          BY <3>1
        <5>2. Spot(Increased(b.head) + (i - 1)) = Spot(b.head + i)
          BY <1>1, <5>1, Spots
        <5> QED
          BY <3>1, <4>1, <5>2
      <4>3. h + (i + 1 - 1 - 1) = h + i - 1 /\ b.head + i = b.head + (i + 1) - 1
        BY <1>1, <3>2 DEF Places
      <4>4. b.storage[Spot(b.head + (i + 1) - 1)] = q[i + 1]
        BY <1>2, <3>1
      <4> QED
        BY <3>1, <4>2, <4>3, <4>4
    <3> QED
      BY <1>2, <3>1, <3>2, <3>3
  <2> QED
    BY <1>1, <2>1, <2>2
<1> HIDE DEF c, h, kept
<1> DEFINE p == Append(kept, e)
<1>5. /\ p \in Seq(V) /\ Len(p) = n + 1 /\ DOMAIN p = 1..(n + 1) /\ p[n + 1] = e
      /\ \A i \in 1..n : p[i] = kept[i]
  BY <1>4
<1>6. c.tail = Spot(c.head + Len(p)) /\ Len(p) <= StorageSize
  <2>1. Increased(Spot(h + n)) = Spot(h + n + 1)
    BY <1>4, Spots
  <2> QED
    BY <1>3, <1>4, <1>5, <2>1 DEF Places
<1>7. (Spot(h + (n + 1)) = h) <=> n + 1 = StorageSize
  BY <1>4, Spots
<1>8. c.full <=> Len(p) = StorageSize
  BY <1>3, <1>5, <1>6, <1>7
<1>9. ASSUME NEW i \in DOMAIN p PROVE c.storage[Spot(c.head + i - 1)] = p[i]
  <2>1. i - 1 \in 0..n /\ h + i - 1 = h + (i - 1) /\ i - 1 \in 0..StorageSize
    BY <1>4, <1>5 DEF Places
  <2>2. Spot(h + (i - 1)) \in Places
    BY <1>4, <2>1, Spots
  <2>3. CASE i = n + 1
    <3>1. Spot(h + (i - 1)) = b.tail
      BY <1>4, <2>3
    <3> QED
      BY <1>1, <1>3, <1>5, <2>1, <2>3, <3>1
  <2>4. CASE i # n + 1
    <3>1. i \in 1..n /\ i - 1 # n
      BY <1>5, <2>4
    <3>2. Spot(h + (i - 1)) # b.tail
      <4>1. /\ i - 1 \in 0..StorageSize /\ n \in 0..StorageSize /\ h \in Places /\ i - 1 # n
            /\ i - 1 # StorageSize /\ n # StorageSize
        BY <1>4, <2>1, <3>1
      <4>2. Spot(h + (i - 1)) # Spot(h + n)
        BY <4>1, SpotsDiffer
      <4> QED
        BY <1>4, <4>2
    <3> QED
      BY <1>1, <1>3, <1>4, <1>5, <2>1, <2>2, <3>1, <3>2
  <2> QED
    BY <2>3, <2>4
<1> HIDE DEF p, n
<1>10. Len(p) # 0
  BY <1>4, <1>5
<1> QED
  BY <1>3, <1>6, <1>8, <1>9, <1>10 DEF Filled, c, p, kept

(* circular_buffer_pop: the first element goes.                            *)
LEMMA PoppedFills ==
  ASSUME NEW V, NEW b \in Rings(V), NEW q \in Seq(V), Filled(b, q), q # <<>>
  PROVE  Filled(Popped(b), Tail(q)) /\ b.storage[b.head] = Head(q) /\ ~b.empty
<1> USE BufferAssumption DEF BufferAssumption
<1> DEFINE c == Popped(b)
           h == Increased(b.head)
           kept == Tail(q)
           n == Len(kept)
<1>1. /\ b.head \in Places /\ b.tail \in Places /\ b.storage \in [Places -> V]
      /\ b.empty \in BOOLEAN /\ b.full \in BOOLEAN
  BY DEF Rings
<1>2. /\ Len(q) \in 1..StorageSize /\ b.tail = Spot(b.head + Len(q)) /\ ~b.empty
      /\ \A i \in 1..Len(q) : b.storage[Spot(b.head + i - 1)] = q[i]
  BY DEF Filled
<1>3. /\ c.head = h /\ c.tail = b.tail /\ c.full = FALSE
      /\ c.empty = (b.tail = h) /\ c.storage = b.storage
  BY <1>2 DEF Popped, Rings
<1>4. /\ kept \in Seq(V) /\ n = Len(q) - 1 /\ n \in 0..(StorageSize - 1) /\ DOMAIN kept = 1..n
      /\ \A i \in 1..n : kept[i] = q[i + 1] /\ i + 1 \in 1..Len(q)
  BY <1>2
<1>5. h \in Places /\ b.tail = Spot(h + n)
  BY <1>1, <1>2, <1>4, Spots
<1>6. Head(q) = q[1] /\ 1 \in 1..Len(q) /\ Spot(b.head + 1 - 1) = b.head
  BY <1>1, <1>2 DEF Spot, Places
<1> HIDE DEF c, h, kept, n
<1>7. ASSUME NEW i \in 1..n PROVE c.storage[Spot(h + i - 1)] = kept[i]
  <2>1. i \in 0..StorageSize /\ i # 0
    BY <1>4
  <2>2. Spot(h + (i - 1)) = Spot(b.head + i)
    BY <1>1, <2>1, Spots DEF h
  <2>3. h + (i - 1) = h + i - 1 /\ b.head + i = b.head + (i + 1) - 1
    BY <1>1, <1>5 DEF Places
  <2>4. b.storage[Spot(b.head + (i + 1) - 1)] = q[i + 1]
    BY <1>2, <1>4
  <2> QED
    BY <1>3, <1>4, <2>2, <2>3, <2>4
<1>8. (Spot(h + n) = h) <=> n = 0
  <2>1. n \in 0..StorageSize /\ n # StorageSize
    BY <1>4
  <2>2. Spot(h + n) = h => n = 0
    BY <1>5, <2>1, Spots
  <2>3. Spot(h + 0) = h
    BY <1>5, <2>1, Spots
  <2> QED
    BY <2>2, <2>3
<1>9. c.full <=> n = StorageSize
  BY <1>3, <1>4
<1>10. n = Len(kept) /\ n <= StorageSize
  BY <1>4 DEF n
<1>11. Filled(c, kept)
  BY <1>3, <1>4, <1>5, <1>7, <1>8, <1>9, <1>10 DEF Filled
<1> QED
  BY <1>2, <1>6, <1>11 DEF c, kept

(* circular_buffer_clear leaves an empty queue.                            *)
LEMMA ClearedFills ==
  ASSUME NEW V, NEW b \in Rings(V), Zero \in V
  PROVE  Cleared(b) \in Rings(V) /\ Filled(Cleared(b), <<>>)
<1> USE BufferAssumption DEF BufferAssumption
<1>1. 0 \in Places /\ Spot(0 + 0) = 0
  BY DEF Places, Spot
<1>2. Cleared(b) \in Rings(V)
  BY <1>1 DEF Cleared, Rings
<1>3. /\ Cleared(b).head = 0 /\ Cleared(b).tail = 0 /\ Cleared(b).empty = TRUE
      /\ Cleared(b).full = FALSE
  BY DEF Cleared, Rings
<1>4. Len(<<>>) = 0 /\ DOMAIN <<>> = {}
  OBVIOUS
<1> QED
  BY <1>1, <1>2, <1>3, <1>4 DEF Filled

(* The operations keep a buffer a buffer, and whether it wraps.            *)
LEMMA RingsKept ==
  ASSUME NEW V, NEW b \in Rings(V), NEW e \in V
  PROVE  /\ Added(b, e) \in Rings(V) /\ Added(b, e).wrap = b.wrap
         /\ Popped(b) \in Rings(V) /\ Popped(b).wrap = b.wrap
<1>1. Increased(b.head) \in Places /\ Increased(b.tail) \in Places
  BY BufferAssumption DEF BufferAssumption, Increased, Places, Rings
<1>2. Added(b, e) \in Rings(V) /\ Added(b, e).wrap = b.wrap
  BY <1>1 DEF Added, Rings
<1>3. Popped(b) \in Rings(V) /\ Popped(b).wrap = b.wrap
  BY <1>1 DEF Popped, Rings
<1> QED
  BY <1>2, <1>3

(* Sequences of the same elements are the same.                            *)
LEMMA SeqEqual ==
  ASSUME NEW V, NEW s \in Seq(V), NEW t \in Seq(V), Len(s) = Len(t),
         \A i \in 1..Len(t) : s[i] = t[i]
  PROVE  s = t
OBVIOUS

-------------------------------------------------------------------------------
(***************************************************************************)
(* The loops of the operations on arrays, in as many steps as they take.   *)
(***************************************************************************)

(* A function whose values are computed one from the other, which exists.  *)
Computes(g, n, first, step) ==
  g[0] = first /\ \A i \in 1..n : g[i] = step[i][g[i - 1]]

(* It exists, for any number of steps.                                     *)
LEMMA Iterated ==
  ASSUME NEW n \in Nat, NEW V, NEW first \in V, NEW step \in [1..n -> [V -> V]]
  PROVE  \E g \in [0..n -> V] : Computes(g, n, first, step)
<1> DEFINE T == {k \in 0..n : \E g \in [0..k -> V] : Computes(g, k, first, step)}
<1>1. 0 \in T
  <2> DEFINE alone == [i \in 0..0 |-> first]
  <2>1. alone \in [0..0 -> V] /\ Computes(alone, 0, first, step)
    BY DEF Computes
  <2> QED
    BY <2>1
<1>2. ASSUME NEW k \in 0..n, k < n, k \in T PROVE k + 1 \in T
  <2>1. PICK g \in [0..k -> V] : Computes(g, k, first, step)
    BY <1>2
  <2> DEFINE next == step[k + 1][g[k]]
             h == [i \in 0..(k + 1) |-> IF i = k + 1 THEN next ELSE g[i]]
  <2>2. next \in V
    <3>1. k + 1 \in 1..n /\ k \in 0..k
      BY <1>2
    <3> QED
      BY <3>1
  <2> HIDE DEF next
  <2>3. h \in [0..(k + 1) -> V]
    BY <2>2
  <2>4. h[0] = first
    <3>1. 0 # k + 1 /\ 0 \in 0..(k + 1) /\ g[0] = first
      BY <2>1 DEF Computes
    <3> QED
      BY <3>1
  <2>5. ASSUME NEW i \in 1..(k + 1) PROVE h[i] = step[i][h[i - 1]]
    <3>1. i - 1 \in 0..(k + 1) /\ i \in 0..(k + 1) /\ i - 1 # k + 1
      OBVIOUS
    <3>2. h[i - 1] = g[i - 1]
      BY <3>1
    <3>3. CASE i = k + 1
      <4>1. i - 1 = k
        BY <3>3
      <4> QED
        BY <3>1, <3>2, <3>3, <4>1 DEF next
    <3>4. CASE i # k + 1
      <4>1. i \in 1..k
        BY <3>4
      <4>2. g[i] = step[i][g[i - 1]]
        BY <2>1, <4>1 DEF Computes
      <4> QED
        BY <3>1, <3>2, <3>4, <4>2
    <3> QED
      BY <3>3, <3>4
  <2> HIDE DEF h
  <2>6. Computes(h, k + 1, first, step)
    BY <2>4, <2>5 DEF Computes
  <2>7. k + 1 \in 0..n
    BY <1>2
  <2> QED
    BY <2>3, <2>6, <2>7
<1> HIDE DEF T
<1>3. n \in T
  <2>1. n \in 0..n
    OBVIOUS
  <2> QED
    BY <1>1, <1>2, <2>1, UpTo
<1> QED
  BY <1>3 DEF T

(* circular_buffer_add_array adds its elements one by one.                 *)
AddsOneByOne(g, b, elements) ==
  /\ g[0] = b /\ AddedAll(b, elements) = g[Len(elements)]
  /\ \A i \in 1..Len(elements) : g[i] = Added(g[i - 1], elements[i])

(* AddedAll is the last of its single additions.                           *)
LEMMA AddedAllSteps ==
  ASSUME NEW V, NEW b \in Rings(V), NEW elements \in Seq(V)
  PROVE  \E g \in [0..Len(elements) -> Rings(V)] : AddsOneByOne(g, b, elements)
<1> DEFINE n == Len(elements)
           step == [i \in 1..n |-> [c \in Rings(V) |-> Added(c, elements[i])]]
           Is(g) == g = [i \in 0..n |-> IF i = 0 THEN b ELSE Added(g[i - 1], elements[i])]
           after == CHOOSE g : Is(g)
<1>0. b \in Rings(V)
  OBVIOUS
<1>1. n \in Nat /\ \A i \in 1..n : elements[i] \in V
  OBVIOUS
<1>2. step \in [1..n -> [Rings(V) -> Rings(V)]]
  <2>1. \A i \in 1..n : \A c \in Rings(V) : Added(c, elements[i]) \in Rings(V)
    BY <1>1, RingsKept
  <2> QED
    BY <2>1
<1> HIDE DEF n, Is
<1>3. PICK h \in [0..n -> Rings(V)] : Computes(h, n, b, step)
  <2> HIDE DEF step
  <2> QED
    BY <1>0, <1>1, <1>2, Iterated
<1>4. ASSUME NEW i \in 0..n
      PROVE  h[i] = IF i = 0 THEN b ELSE Added(h[i - 1], elements[i])
  <2>1. CASE i = 0
    BY <1>3, <2>1 DEF Computes
  <2>2. CASE i # 0
    <3>1. i \in 1..n /\ i - 1 \in 0..n
      BY <1>1, <2>2
    <3>2. h[i - 1] \in Rings(V)
      BY <3>1
    <3> QED
      BY <1>3, <2>2, <3>1, <3>2 DEF Computes
  <2> QED
    BY <2>1, <2>2
<1>5. Is(h)
  BY <1>4 DEF Is
<1>6. Is(after)
  <2> HIDE DEF step
  <2> QED
    BY <1>5 DEF after
<1> HIDE DEF after
<1>7. after = [i \in 0..n |-> IF i = 0 THEN b ELSE Added(after[i - 1], elements[i])]
  BY <1>6 DEF Is
<1>8. after[0] = b
  BY <1>1, <1>7
<1>9. ASSUME NEW i \in 1..n PROVE after[i] = Added(after[i - 1], elements[i])
  <2>1. i \in 0..n /\ i # 0
    BY <1>1
  <2> QED
    BY <1>7, <2>1
<1>10. \A i \in 0..n : after[i] \in Rings(V)
  <2> DEFINE S == {i \in 0..n : after[i] \in Rings(V)}
  <2>1. 0 \in S
    BY <1>1, <1>8
  <2>2. ASSUME NEW k \in 0..n, k < n, k \in S PROVE k + 1 \in S
    <3>1. k + 1 \in 1..n /\ k + 1 \in 0..n /\ k + 1 - 1 = k
      BY <1>1, <2>2
    <3>2. after[k + 1] = Added(after[k], elements[k + 1])
      BY <1>9, <3>1
    <3> QED
      BY <1>1, <2>2, <3>1, <3>2, RingsKept
  <2>3. \A k \in 0..n : k \in S
    <3> HIDE DEF S
    <3> QED
      BY <1>1, <2>1, <2>2, UpTo
  <2> QED
    BY <2>3
<1>11. AddedAll(b, elements) = after[n]
  BY DEF AddedAll, after, n, Is
<1>12. after \in [0..n -> Rings(V)]
  BY <1>7, <1>10
<1>13. AddsOneByOne(after, b, elements)
  BY <1>8, <1>9, <1>11 DEF n, AddsOneByOne
<1> QED
  BY <1>12, <1>13 DEF n

(* circular_buffer_pop_array pops one by one.                              *)
PopsOneByOne(g, b, n) ==
  /\ g[0] = b /\ PoppedAll(b, n) = g[n]
  /\ \A i \in 1..n : g[i] = Popped(g[i - 1])

(* PoppedAll is the last of its single removals.                           *)
LEMMA PoppedAllSteps ==
  ASSUME NEW V, NEW b \in Rings(V), NEW n \in Nat
  PROVE  \E g \in [0..n -> Rings(V)] : PopsOneByOne(g, b, n)
<1> DEFINE step == [i \in 1..n |-> [c \in Rings(V) |-> Popped(c)]]
           Is(g) == g = [i \in 0..n |-> IF i = 0 THEN b ELSE Popped(g[i - 1])]
           after == CHOOSE g : Is(g)
<1>1. b \in Rings(V) /\ n \in Nat
  OBVIOUS
<1>0. \A c \in Rings(V) : Popped(c) \in Rings(V)
  <2> TAKE c \in Rings(V)
  <2>1. Increased(c.head) \in Places
    BY BufferAssumption DEF BufferAssumption, Increased, Places, Rings
  <2> QED
    BY <2>1 DEF Popped, Rings
<1>2. step \in [1..n -> [Rings(V) -> Rings(V)]]
  BY <1>0
<1> HIDE DEF Is
<1>3. PICK h \in [0..n -> Rings(V)] : Computes(h, n, b, step)
  <2> HIDE DEF step
  <2> QED
    BY <1>1, <1>2, Iterated
<1>4. ASSUME NEW i \in 0..n
      PROVE  h[i] = IF i = 0 THEN b ELSE Popped(h[i - 1])
  <2>1. CASE i = 0
    BY <1>3, <2>1 DEF Computes
  <2>2. CASE i # 0
    <3>1. i \in 1..n /\ i - 1 \in 0..n
      BY <1>1, <2>2
    <3>2. h[i - 1] \in Rings(V)
      BY <3>1
    <3> QED
      BY <1>3, <2>2, <3>1, <3>2 DEF Computes
  <2> QED
    BY <2>1, <2>2
<1>5. Is(h)
  BY <1>4 DEF Is
<1>6. Is(after)
  <2> HIDE DEF step
  <2> QED
    BY <1>5 DEF after
<1> HIDE DEF after
<1>7. after = [i \in 0..n |-> IF i = 0 THEN b ELSE Popped(after[i - 1])]
  BY <1>6 DEF Is
<1>8. after[0] = b
  BY <1>1, <1>7
<1>9. ASSUME NEW i \in 1..n PROVE after[i] = Popped(after[i - 1])
  <2>1. i \in 0..n /\ i # 0
    BY <1>1
  <2> QED
    BY <1>7, <2>1
<1>10. \A i \in 0..n : after[i] \in Rings(V)
  <2> DEFINE S == {i \in 0..n : after[i] \in Rings(V)}
  <2>1. 0 \in S
    BY <1>1, <1>8
  <2>2. ASSUME NEW k \in 0..n, k < n, k \in S PROVE k + 1 \in S
    <3>1. k + 1 \in 1..n /\ k + 1 \in 0..n /\ k + 1 - 1 = k
      BY <1>1, <2>2
    <3>2. after[k + 1] = Popped(after[k])
      BY <1>9, <3>1
    <3> QED
      BY <1>0, <2>2, <3>1, <3>2
  <2>3. \A k \in 0..n : k \in S
    <3> HIDE DEF S
    <3> QED
      BY <1>1, <2>1, <2>2, UpTo
  <2> QED
    BY <2>3
<1>11. PoppedAll(b, n) = after[n]
  BY DEF PoppedAll, after, Is
<1>12. after \in [0..n -> Rings(V)]
  BY <1>7, <1>10
<1>13. PopsOneByOne(after, b, n)
  BY <1>8, <1>9, <1>11 DEF PopsOneByOne
<1> QED
  BY <1>12, <1>13

(* circular_buffer_drop_from_end moves the tail back one by one.           *)
DropsOneByOne(g, b, n) ==
  /\ g[0] = b.tail /\ \A i \in 1..n : g[i] = Decreased(g[i - 1])
  /\ DroppedFromEnd(b, n) = [b EXCEPT !.tail = g[n], !.full = IF n = 0 THEN @ ELSE FALSE]

(* The tail that DroppedFromEnd leaves is the last of its single moves.    *)
LEMMA DroppedSteps ==
  ASSUME NEW V, NEW b \in Rings(V), NEW n \in Nat
  PROVE  \E g \in [0..n -> Places] : DropsOneByOne(g, b, n)
<1> DEFINE step == [i \in 1..n |-> [p \in Places |-> Decreased(p)]]
           Is(g) == g = [i \in 0..n |-> IF i = 0 THEN b.tail ELSE Decreased(g[i - 1])]
           after == CHOOSE g : Is(g)
<1>1. b.tail \in Places /\ n \in Nat
  BY DEF Rings
<1>0. \A p \in Places : Decreased(p) \in Places
  BY BufferAssumption DEF BufferAssumption, Decreased, Places
<1>2. step \in [1..n -> [Places -> Places]]
  BY <1>0
<1> HIDE DEF Is
<1>3. PICK h \in [0..n -> Places] : Computes(h, n, b.tail, step)
  <2> HIDE DEF step
  <2> QED
    BY <1>1, <1>2, Iterated
<1>4. ASSUME NEW i \in 0..n
      PROVE  h[i] = IF i = 0 THEN b.tail ELSE Decreased(h[i - 1])
  <2>1. CASE i = 0
    BY <1>3, <2>1 DEF Computes
  <2>2. CASE i # 0
    <3>1. i \in 1..n /\ i - 1 \in 0..n
      BY <1>1, <2>2
    <3>2. h[i - 1] \in Places
      BY <3>1
    <3> QED
      BY <1>3, <2>2, <3>1, <3>2 DEF Computes
  <2> QED
    BY <2>1, <2>2
<1>5. Is(h)
  BY <1>4 DEF Is
<1>6. Is(after)
  <2> HIDE DEF step
  <2> QED
    BY <1>5 DEF after
<1> HIDE DEF after
<1>7. after = [i \in 0..n |-> IF i = 0 THEN b.tail ELSE Decreased(after[i - 1])]
  BY <1>6 DEF Is
<1>8. after[0] = b.tail
  BY <1>1, <1>7
<1>9. ASSUME NEW i \in 1..n PROVE after[i] = Decreased(after[i - 1])
  <2>1. i \in 0..n /\ i # 0
    BY <1>1
  <2> QED
    BY <1>7, <2>1
<1>10. \A i \in 0..n : after[i] \in Places
  <2> DEFINE S == {i \in 0..n : after[i] \in Places}
  <2>1. 0 \in S
    BY <1>1, <1>8
  <2>2. ASSUME NEW k \in 0..n, k < n, k \in S PROVE k + 1 \in S
    <3>1. k + 1 \in 1..n /\ k + 1 \in 0..n /\ k + 1 - 1 = k
      BY <1>1, <2>2
    <3>2. after[k + 1] = Decreased(after[k])
      BY <1>9, <3>1
    <3> QED
      BY <1>0, <2>2, <3>1, <3>2
  <2>3. \A k \in 0..n : k \in S
    <3> HIDE DEF S
    <3> QED
      BY <1>1, <2>1, <2>2, UpTo
  <2> QED
    BY <2>3
<1>11. DroppedFromEnd(b, n) = [b EXCEPT !.tail = after[n], !.full = IF n = 0 THEN @ ELSE FALSE]
  BY DEF DroppedFromEnd, after, Is
<1>12. after \in [0..n -> Places]
  BY <1>7, <1>10
<1>13. DropsOneByOne(after, b, n)
  BY <1>8, <1>9, <1>11 DEF DropsOneByOne
<1> QED
  BY <1>12, <1>13

-------------------------------------------------------------------------------
(***************************************************************************)
(* What the operations on arrays do to the queue.                          *)
(***************************************************************************)

(* The last elements of s that a buffer can hold.                          *)
LastOf(s) == IF Len(s) > StorageSize THEN SubSeq(s, Len(s) - StorageSize + 1, Len(s)) ELSE s

(* It is a queue no longer than the buffer, of the last elements of s.     *)
LEMMA LastOfTypes ==
  ASSUME NEW V, NEW s \in Seq(V)
  PROVE  /\ LastOf(s) \in Seq(V)
         /\ Len(LastOf(s)) = IF Len(s) > StorageSize THEN StorageSize ELSE Len(s)
         /\ Len(s) > StorageSize =>
              \A i \in 1..StorageSize : LastOf(s)[i] = s[Len(s) - StorageSize + i]
<1> USE BufferAssumption DEF BufferAssumption
<1>1. CASE Len(s) > StorageSize
  <2>1. LastOf(s) = SubSeq(s, Len(s) - StorageSize + 1, Len(s))
    BY <1>1 DEF LastOf
  <2>2. /\ Len(s) \in Nat /\ Len(s) - StorageSize + 1 \in 1..Len(s)
        /\ Len(s) - (Len(s) - StorageSize + 1) + 1 = StorageSize
    BY <1>1
  <2>3. /\ SubSeq(s, Len(s) - StorageSize + 1, Len(s)) \in Seq(V)
        /\ Len(SubSeq(s, Len(s) - StorageSize + 1, Len(s))) = StorageSize
    BY <2>2
  <2>4. ASSUME NEW i \in 1..StorageSize
        PROVE  SubSeq(s, Len(s) - StorageSize + 1, Len(s))[i] = s[Len(s) - StorageSize + i]
    BY <2>2
  <2> QED
    BY <1>1, <2>1, <2>3, <2>4
<1>2. CASE ~(Len(s) > StorageSize)
  BY <1>2 DEF LastOf
<1> QED
  BY <1>1, <1>2

(* To append and take the last is to drop the first of a full queue and    *)
(* append.                                                                 *)
LEMMA LastOfAppend ==
  ASSUME NEW V, NEW s \in Seq(V), NEW e \in V
  PROVE  LastOf(Append(s, e)) =
           Append(IF Len(LastOf(s)) = StorageSize THEN Tail(LastOf(s)) ELSE LastOf(s), e)
<1> USE BufferAssumption DEF BufferAssumption
<1> DEFINE p == Append(s, e)
           l == LastOf(s)
           r == Append(IF Len(l) = StorageSize THEN Tail(l) ELSE l, e)
<1>1. /\ p \in Seq(V) /\ Len(p) = Len(s) + 1 /\ Len(s) \in Nat /\ p[Len(s) + 1] = e
      /\ \A i \in 1..Len(s) : p[i] = s[i]
  OBVIOUS
<1>2. /\ l \in Seq(V) /\ Len(l) = IF Len(s) > StorageSize THEN StorageSize ELSE Len(s)
      /\ Len(s) > StorageSize => \A i \in 1..StorageSize : l[i] = s[Len(s) - StorageSize + i]
      /\ ~(Len(s) > StorageSize) => l = s
  BY LastOfTypes DEF LastOf
<1> HIDE DEF p, l
<1>3. /\ LastOf(p) \in Seq(V)
      /\ Len(LastOf(p)) = IF Len(p) > StorageSize THEN StorageSize ELSE Len(p)
      /\ Len(p) > StorageSize =>
           \A i \in 1..StorageSize : LastOf(p)[i] = p[Len(p) - StorageSize + i]
  BY <1>1, LastOfTypes
<1>4. CASE Len(s) < StorageSize
  <2>1. LastOf(p) = p /\ l = s /\ Len(l) # StorageSize
    BY <1>1, <1>2, <1>4 DEF LastOf
  <2> QED
    BY <2>1 DEF p, l
<1>5. CASE ~(Len(s) < StorageSize)
  <2>1. Len(l) = StorageSize /\ Len(p) > StorageSize /\ Len(LastOf(p)) = StorageSize
    BY <1>1, <1>2, <1>3, <1>5
  <2>2. ASSUME NEW i \in 1..StorageSize PROVE l[i] = s[Len(s) - StorageSize + i]
    <3>1. CASE Len(s) > StorageSize
      BY <1>2, <3>1
    <3>2. CASE Len(s) = StorageSize
      <4>1. Len(s) - StorageSize + i = i /\ l = s
        BY <1>2, <3>2
      <4> QED
        BY <4>1
    <3> QED
      BY <1>1, <1>5, <3>1, <3>2
  <2>3. /\ r \in Seq(V) /\ Len(r) = StorageSize /\ r[StorageSize] = e
        /\ \A i \in 1..(StorageSize - 1) : r[i] = l[i + 1]
    <3> DEFINE t == Tail(l)
    <3>1. /\ t \in Seq(V) /\ Len(t) = StorageSize - 1
          /\ \A i \in 1..(StorageSize - 1) : t[i] = l[i + 1]
      BY <1>2, <2>1
    <3>2. r = Append(t, e)
      BY <2>1
    <3> HIDE DEF t, r
    <3> QED
      BY <3>1, <3>2
  <2> HIDE DEF r
  <2>4. ASSUME NEW i \in 1..StorageSize PROVE LastOf(p)[i] = r[i]
    <3>0. LastOf(p)[i] = p[Len(p) - StorageSize + i]
      BY <1>3, <2>1
    <3>1. CASE i = StorageSize
      <4>1. Len(p) - StorageSize + i = Len(s) + 1
        BY <1>1, <3>1
      <4> QED
        BY <1>1, <2>3, <3>0, <3>1, <4>1
    <3>2. CASE i # StorageSize
      <4>1. /\ i \in 1..(StorageSize - 1) /\ i + 1 \in 1..StorageSize
            /\ Len(p) - StorageSize + i \in 1..Len(s)
            /\ Len(s) - StorageSize + (i + 1) = Len(p) - StorageSize + i
        BY <1>1, <1>5, <3>2
      <4>2. r[i] = l[i + 1] /\ l[i + 1] = s[Len(s) - StorageSize + (i + 1)]
        BY <2>2, <2>3, <4>1
      <4> QED
        BY <1>1, <3>0, <4>1, <4>2
    <3> QED
      BY <3>1, <3>2
  <2>5. LastOf(p) = r
    BY <1>3, <2>1, <2>3, <2>4, SeqEqual
  <2> QED
    BY <2>5 DEF p, l, r
<1> QED
  BY <1>4, <1>5

(* circular_buffer_add_array: the last elements that fit.                  *)
LEMMA AddedAllFills ==
  ASSUME NEW V, NEW b \in Rings(V), NEW q \in Seq(V), Filled(b, q), NEW elements \in Seq(V),
         b.wrap \/ Len(q) + Len(elements) <= StorageSize
  PROVE  /\ AddedAll(b, elements) \in Rings(V) /\ AddedAll(b, elements).wrap = b.wrap
         /\ Filled(AddedAll(b, elements), LastOf(q \o elements))
<1> USE BufferAssumption DEF BufferAssumption
<1> DEFINE n == Len(elements)
           part(i) == q \o SubSeq(elements, 1, i)
<1>1. PICK g \in [0..n -> Rings(V)] : AddsOneByOne(g, b, elements)
  BY AddedAllSteps
<1>2. n \in Nat /\ (\A i \in 1..n : elements[i] \in V) /\ Len(q) \in Nat
  OBVIOUS
<1>3. /\ g[0] = b /\ AddedAll(b, elements) = g[n]
      /\ \A i \in 1..n : g[i] = Added(g[i - 1], elements[i])
  BY <1>1 DEF AddsOneByOne
<1>4. ASSUME NEW i \in 0..n
      PROVE  part(i) \in Seq(V) /\ Len(part(i)) = Len(q) + i
  <2>1. SubSeq(elements, 1, i) \in Seq(V) /\ Len(SubSeq(elements, 1, i)) = i
    OBVIOUS
  <2> HIDE DEF n
  <2> QED
    BY <2>1
<1>5. ASSUME NEW i \in 0..n, i < n
      PROVE  part(i + 1) = Append(part(i), elements[i + 1])
  <2> DEFINE t == SubSeq(elements, 1, i)
  <2>1. t \in Seq(V) /\ Len(t) = i /\ elements[i + 1] \in V
    BY <1>5
  <2>2. SubSeq(elements, 1, i + 1) = Append(t, elements[i + 1])
    BY <1>5
  <2> HIDE DEF t
  <2>3. q \o Append(t, elements[i + 1]) = Append(q \o t, elements[i + 1])
    <3> DEFINE e == elements[i + 1]
               l == q \o Append(t, e)
               r == Append(q \o t, e)
    <3>0. e \in V
      BY <2>1
    <3> HIDE DEF e
    <3>1. l \in Seq(V) /\ r \in Seq(V) /\ Len(l) = Len(r) /\ Len(r) = Len(q) + i + 1
      BY <2>1, <3>0
    <3>2. ASSUME NEW j \in 1..Len(r) PROVE l[j] = r[j]
      BY <2>1, <3>0, <3>1
    <3> HIDE DEF l, r
    <3>3. l = r
      BY <3>1, <3>2, SeqEqual
    <3> QED
      BY <3>3 DEF l, r, e
  <2> QED
    BY <2>2, <2>3 DEF t
<1>6. part(0) = q
  <2>1. SubSeq(elements, 1, 0) = <<>>
    OBVIOUS
  <2> QED
    BY <2>1
<1>7. part(n) = q \o elements
  <2>1. SubSeq(elements, 1, n) = elements
    OBVIOUS
  <2> QED
    BY <2>1
<1> HIDE DEF part, n
<1> DEFINE Fine(i) == Filled(g[i], LastOf(part(i))) /\ g[i].wrap = b.wrap
           S == {i \in 0..n : Fine(i)}
<1>8. 0 \in S
  <2>1. Len(q) <= StorageSize
    BY DEF Filled
  <2>2. LastOf(q) = q
    BY <1>2, <2>1 DEF LastOf
  <2> QED
    BY <1>2, <1>3, <1>6, <2>2
<1>9. ASSUME NEW k \in 0..n, k < n, k \in S PROVE k + 1 \in S
  <2>1. /\ k + 1 \in 1..n /\ k + 1 \in 0..n /\ k + 1 - 1 = k /\ g[k] \in Rings(V)
        /\ g[k + 1] = Added(g[k], elements[k + 1]) /\ elements[k + 1] \in V
    <3>1. k + 1 \in 1..n /\ k + 1 \in 0..n /\ k + 1 - 1 = k
      BY <1>2, <1>9
    <3> QED
      BY <1>2, <1>3, <3>1
  <2> DEFINE l == LastOf(part(k))
  <2>2. /\ l \in Seq(V) /\ Filled(g[k], l) /\ g[k].wrap = b.wrap /\ part(k) \in Seq(V)
        /\ Len(l) = IF Len(q) + k > StorageSize THEN StorageSize ELSE Len(q) + k
    BY <1>4, <1>9, LastOfTypes
  <2>3. g[k].full <=> Len(l) = StorageSize
    BY <2>2 DEF Filled
  <2>4. ~Refuses(g[k])
    <3>1. ~b.wrap => Len(l) # StorageSize
      <4>1. ~b.wrap => Len(q) + n <= StorageSize
        BY DEF n
      <4> QED
        BY <1>2, <1>9, <2>2, <4>1
    <3> QED
      BY <2>2, <2>3, <3>1 DEF Refuses
  <2>5. Filled(g[k + 1], Append(IF g[k].full THEN Tail(l) ELSE l, elements[k + 1]))
    <3> HIDE DEF l
    <3> QED
      BY <2>1, <2>2, <2>4, AddedFills
  <2>6. LastOf(part(k + 1)) = Append(IF Len(l) = StorageSize THEN Tail(l) ELSE l, elements[k + 1])
    BY <1>5, <1>9, <2>1, <2>2, LastOfAppend
  <2>7. g[k + 1].wrap = b.wrap
    <3>1. Added(g[k], elements[k + 1]).wrap = g[k].wrap
      BY <2>1, RingsKept
    <3>2. g[k].wrap = b.wrap
      BY <2>2
    <3> QED
      BY <2>1, <3>1, <3>2
  <2> HIDE DEF l
  <2> QED
    BY <2>1, <2>3, <2>5, <2>6, <2>7
<1>10. n \in S
  <2>1. n \in 0..n
    BY <1>2
  <2> HIDE DEF S
  <2> QED
    BY <1>2, <1>8, <1>9, <2>1, UpTo
<1>11. g[n] \in Rings(V)
  BY <1>2
<1> QED
  BY <1>3, <1>7, <1>10, <1>11

(* The rest of a queue, one element later.                                 *)
LEMMA FromTail ==
  ASSUME NEW V, NEW q \in Seq(V), NEW i \in Nat, i < Len(q)
  PROVE  /\ SubSeq(q, i + 1, Len(q)) \in Seq(V) /\ SubSeq(q, i + 1, Len(q)) # <<>>
         /\ Tail(SubSeq(q, i + 1, Len(q))) = SubSeq(q, i + 2, Len(q))
<1> DEFINE p == SubSeq(q, i + 1, Len(q))
           r == SubSeq(q, i + 2, Len(q))
<1>1. /\ p \in Seq(V) /\ Len(p) = Len(q) - i
      /\ \A j \in 1..(Len(q) - i) : p[j] = q[i + j]
  OBVIOUS
<1>2. /\ r \in Seq(V) /\ Len(r) = Len(q) - i - 1
      /\ \A j \in 1..(Len(q) - i - 1) : r[j] = q[i + 1 + j]
  OBVIOUS
<1> HIDE DEF p, r
<1>3. /\ Tail(p) \in Seq(V) /\ Len(Tail(p)) = Len(q) - i - 1 /\ p # <<>>
      /\ \A j \in 1..(Len(q) - i - 1) : Tail(p)[j] = p[j + 1]
  BY <1>1
<1>4. ASSUME NEW j \in 1..Len(r) PROVE Tail(p)[j] = r[j]
  <2>1. j \in 1..(Len(q) - i - 1) /\ j + 1 \in 1..(Len(q) - i) /\ i + (j + 1) = i + 1 + j
    BY <1>2
  <2> QED
    BY <1>1, <1>2, <1>3, <2>1
<1>5. Tail(p) = r
  BY <1>2, <1>3, <1>4, SeqEqual
<1> QED
  BY <1>1, <1>3, <1>5 DEF p, r

(* circular_buffer_pop_array and drop_from_beggining.                      *)
LEMMA PoppedAllFills ==
  ASSUME NEW V, NEW b \in Rings(V), NEW q \in Seq(V), Filled(b, q), NEW n \in Nat
  PROVE  /\ PoppedAll(b, n) \in Rings(V) /\ PoppedAll(b, n).wrap = b.wrap
         /\ Filled(PoppedAll(b, n), IF n < Len(q) THEN SubSeq(q, n + 1, Len(q)) ELSE <<>>)
<1> DEFINE from(i) == IF i < Len(q) THEN SubSeq(q, i + 1, Len(q)) ELSE <<>>
<1>1. PICK g \in [0..n -> Rings(V)] : PopsOneByOne(g, b, n)
  BY PoppedAllSteps
<1>2. g[0] = b /\ PoppedAll(b, n) = g[n] /\ \A i \in 1..n : g[i] = Popped(g[i - 1])
  BY <1>1 DEF PopsOneByOne
<1>3. from(0) = q
  <2>1. CASE 0 < Len(q)
    <3>1. SubSeq(q, 1, Len(q)) = q
      OBVIOUS
    <3> QED
      BY <2>1, <3>1
  <2>2. CASE ~(0 < Len(q))
    BY <2>2
  <2> QED
    BY <2>1, <2>2
<1>4. ASSUME NEW i \in Nat PROVE from(i) \in Seq(V) /\ (from(i) = <<>> <=> ~(i < Len(q)))
  <2>1. CASE i < Len(q)
    BY <2>1, FromTail
  <2>2. CASE ~(i < Len(q))
    BY <2>2
  <2> QED
    BY <2>1, <2>2
<1>5. ASSUME NEW i \in Nat
      PROVE  from(i + 1) = IF from(i) = <<>> THEN <<>> ELSE Tail(from(i))
  <2>1. CASE i + 1 < Len(q)
    <3>1. i < Len(q) /\ i + 1 + 1 = i + 2
      BY <2>1
    <3> QED
      BY <1>4, <2>1, <3>1, FromTail
  <2>2. CASE ~(i + 1 < Len(q)) /\ i < Len(q)
    <3>1. SubSeq(q, i + 2, Len(q)) = <<>>
      BY <2>2
    <3> QED
      BY <1>4, <2>2, <3>1, FromTail
  <2>3. CASE ~(i < Len(q))
    <3>1. ~(i + 1 < Len(q))
      BY <2>3
    <3> QED
      BY <1>4, <2>3, <3>1
  <2> QED
    BY <2>1, <2>2, <2>3
<1> HIDE DEF from
<1> DEFINE Fine(i) == Filled(g[i], from(i)) /\ g[i].wrap = b.wrap
           S == {i \in 0..n : Fine(i)}
<1>6. 0 \in S
  BY <1>2, <1>3
<1>7. ASSUME NEW k \in 0..n, k < n, k \in S PROVE k + 1 \in S
  <2>1. /\ k \in Nat /\ k + 1 \in 1..n /\ k + 1 \in 0..n /\ k + 1 - 1 = k /\ g[k] \in Rings(V)
        /\ g[k + 1] = Popped(g[k])
    <3>1. k + 1 \in 1..n /\ k + 1 \in 0..n /\ k + 1 - 1 = k
      BY <1>7
    <3> QED
      BY <1>2, <3>1
  <2>2. Filled(g[k], from(k)) /\ g[k].wrap = b.wrap /\ from(k) \in Seq(V)
    BY <1>4, <1>7
  <2>3. CASE from(k) = <<>>
    <3>1. Len(from(k)) = 0
      BY <2>3
    <3>2. g[k].empty
      BY <2>2, <3>1 DEF Filled
    <3>3. g[k + 1] = g[k]
      BY <2>1, <3>2 DEF Popped
    <3> QED
      BY <1>5, <2>1, <2>2, <2>3, <3>3
  <2>4. CASE from(k) # <<>>
    <3>1. Filled(Popped(g[k]), Tail(from(k)))
      BY <2>1, <2>2, <2>4, PoppedFills
    <3>2. Popped(g[k]).wrap = g[k].wrap
      BY <2>1 DEF Popped, Rings
    <3> QED
      BY <1>5, <2>1, <2>2, <2>4, <3>1, <3>2
  <2> QED
    BY <2>3, <2>4
<1>8. n \in S
  <2>1. n \in 0..n
    OBVIOUS
  <2> HIDE DEF S
  <2> QED
    BY <1>6, <1>7, <2>1, UpTo
<1>9. g[n] \in Rings(V)
  OBVIOUS
<1> QED
  BY <1>2, <1>8, <1>9 DEF from

(* circular_buffer_drop_from_end, of fewer than there are.                 *)
LEMMA DroppedFromEndFills ==
  ASSUME NEW V, NEW b \in Rings(V), NEW q \in Seq(V), Filled(b, q), NEW n \in Nat, n < Len(q)
  PROVE  /\ DroppedFromEnd(b, n) \in Rings(V) /\ DroppedFromEnd(b, n).wrap = b.wrap
         /\ Filled(DroppedFromEnd(b, n), SubSeq(q, 1, Len(q) - n))
<1> USE BufferAssumption DEF BufferAssumption
<1> DEFINE m == Len(q)
<1>1. PICK g \in [0..n -> Places] : DropsOneByOne(g, b, n)
  BY DroppedSteps
<1>2. /\ g[0] = b.tail /\ \A i \in 1..n : g[i] = Decreased(g[i - 1])
      /\ DroppedFromEnd(b, n) = [b EXCEPT !.tail = g[n], !.full = IF n = 0 THEN @ ELSE FALSE]
  BY <1>1 DEF DropsOneByOne
<1>3. /\ b.head \in Places /\ b.tail \in Places /\ b.storage \in [Places -> V]
      /\ b.empty \in BOOLEAN /\ b.full \in BOOLEAN
  BY DEF Rings
<1>4. /\ m \in 1..StorageSize /\ b.tail = Spot(b.head + m) /\ b.empty = FALSE
      /\ \A i \in 1..m : b.storage[Spot(b.head + i - 1)] = q[i]
      /\ b.full <=> m = StorageSize
  BY <1>3 DEF Filled
<1> DEFINE S == {i \in 0..n : g[i] = Spot(b.head + (m - i))}
<1>5. 0 \in S
  <2>1. b.head + (m - 0) = b.head + m
    BY SMTT(30), <1>4
  <2> QED
    BY <1>2, <1>4, <2>1
<1>6. ASSUME NEW k \in 0..n, k < n, k \in S PROVE k + 1 \in S
  <2>1. k + 1 \in 1..n /\ k + 1 \in 0..n /\ k + 1 - 1 = k
    BY <1>6
  <2>2. g[k + 1] = Decreased(Spot(b.head + (m - k)))
    BY SMTT(30), <1>2, <1>6, <2>1
  <2>3. m - k \in 0..StorageSize /\ m - k # 0 /\ (m - k) - 1 = m - (k + 1)
    BY <1>4, <1>6
  <2>4. Decreased(Spot(b.head + (m - k))) = Spot(b.head + ((m - k) - 1))
    BY <1>3, <2>3, Spots
  <2> QED
    BY <2>1, <2>2, <2>3, <2>4
<1>7. n \in S
  <2>1. n \in 0..n
    OBVIOUS
  <2> HIDE DEF S
  <2> QED
    BY <1>5, <1>6, <2>1, UpTo
<1> DEFINE kept == SubSeq(q, 1, m - n)
           c == DroppedFromEnd(b, n)
<1>8. /\ kept \in Seq(V) /\ Len(kept) = m - n /\ DOMAIN kept = 1..(m - n)
      /\ \A i \in 1..(m - n) : kept[i] = q[i] /\ i \in 1..m
  BY <1>4
<1>9. /\ c \in Rings(V) /\ c.wrap = b.wrap /\ c.head = b.head /\ c.tail = g[n]
      /\ c.storage = b.storage /\ c.empty = FALSE
      /\ c.full = IF n = 0 THEN b.full ELSE FALSE
  <2>1. g[n] \in Places
    OBVIOUS
  <2> QED
    BY <1>2, <1>4, <2>1 DEF Rings
<1> HIDE DEF c, kept
<1>10. c.full <=> Len(kept) = StorageSize
  BY <1>4, <1>8, <1>9
<1>11. c.tail = Spot(c.head + Len(kept))
  BY <1>7, <1>8, <1>9
<1>12. \A i \in DOMAIN kept : c.storage[Spot(c.head + i - 1)] = kept[i]
  BY <1>4, <1>8, <1>9
<1>13. Len(kept) <= StorageSize /\ Len(kept) # 0
  BY <1>4, <1>8
<1>14. Filled(c, kept)
  BY <1>9, <1>10, <1>11, <1>12, <1>13 DEF Filled
<1> QED
  BY <1>9, <1>14 DEF c, kept

(* circular_buffer_peek_array.                                             *)
LEMMA PeekedIs ==
  ASSUME NEW V, NEW b \in Rings(V), NEW q \in Seq(V), Filled(b, q),
         NEW position \in Nat, NEW n \in Nat
  PROVE  /\ Peeked(b, position, n) \in Seq(V)
         /\ Len(Peeked(b, position, n)) =
              IF position < Len(q) THEN Smaller(n, Len(q) - position) ELSE 0
         /\ \A i \in 1..Len(Peeked(b, position, n)) :
              Peeked(b, position, n)[i] = q[position + i]
<1> USE BufferAssumption DEF BufferAssumption
<1> DEFINE m == IF position < Len(q) THEN Smaller(n, Len(q) - position) ELSE 0
           p == Peeked(b, position, n)
<1>1. Size(b) = Len(q) /\ Contents(b) = q /\ Len(q) \in Nat
  BY FilledMeans
<1>2. p = [i \in 1..m |-> At(b, position + i - 1)]
  BY <1>1 DEF Peeked
<1>3. m \in Nat /\ \A i \in 1..m : position + i \in 1..Len(q)
  BY <1>1 DEF Smaller
<1>4. ASSUME NEW i \in 1..m PROVE At(b, position + i - 1) = q[position + i] /\ q[position + i] \in V
  <2>1. position + i \in 1..Len(q)
    BY <1>3
  <2>2. Contents(b)[position + i] = At(b, (position + i) - 1)
    BY <1>1, <2>1 DEF Contents
  <2> QED
    BY <1>1, <2>1, <2>2
<1> HIDE DEF m, p
<1>5. p \in [1..m -> V]
  BY <1>2, <1>4
<1>6. p \in Seq(V) /\ Len(p) = m
  BY <1>3, <1>5
<1>7. \A i \in 1..Len(p) : p[i] = q[position + i]
  BY <1>2, <1>4, <1>6
<1> QED
  BY <1>6, <1>7 DEF m, p

-------------------------------------------------------------------------------
(***************************************************************************)
(* The invariant.                                                          *)
(***************************************************************************)
USE DEF local, history, sharedVars

(* The statements of the operations, from each of them on.                 *)
Add1 == <<"fullIfEqual">>
Add2 == <<"notEmpty", "fullIfEqual">>
Add3 == <<"tail", "notEmpty", "fullIfEqual">>
Add4 == <<"put", "tail", "notEmpty", "fullIfEqual">>
Add5 == <<"head", "put", "tail", "notEmpty", "fullIfEqual">>
Pop1 == <<"emptyIfEqual">>
Pop2 == <<"notFull", "emptyIfEqual">>
Pop3 == <<"head", "notFull", "emptyIfEqual">>
Pop4 == <<"copy", "head", "notFull", "emptyIfEqual">>
Clear1 == <<"erase">>
Clear2 == <<"notFull", "erase">>
Clear3 == <<"setEmpty", "notFull", "erase">>
Clear4 == <<"tailZero", "setEmpty", "notFull", "erase">>
Clear5 == <<"headZero", "tailZero", "setEmpty", "notFull", "erase">>

Left(operation) ==
  CASE operation = "ADD"   -> {<<>>, Add1, Add2, Add3, Add4, Add5}
    [] operation = "POP"   -> {<<>>, Pop1, Pop2, Pop3, Pop4}
    [] operation = "CLEAR" -> {<<>>, Clear1, Clear2, Clear3, Clear4, Clear5}
    [] OTHER               -> {<<>>}

Values == Elements \cup Numbers

(* What is left of an operation, and whose it is.                          *)
ControlInv ==
  /\ op # "NONE" => op \in Sharing(use).main
  /\ todo \in Left(op) /\ (~Busy => ~loaded)
  /\ use # "owned" => buffer.wrap = Sharing(use).wrap

OwnedInv ==
  use = "owned" => /\ buffer \in Rings(Elements) /\ Consistent(buffer)
                   /\ moved \in Seq(Elements) /\ todo = <<>>

BaseInv == SharedTypeOK /\ ControlInv /\ OwnedInv

-------------------------------------------------------------------------------
(***************************************************************************)
(* Types and control.                                                      *)
(***************************************************************************)

(* What is left of an operation after its next statement.                  *)
LEMMA StatementsLeft ==
  /\ Head(Add5) = "head" /\ Tail(Add5) = Add4 /\ Add5 # <<>>
  /\ Head(Add4) = "put" /\ Tail(Add4) = Add3 /\ Add4 # <<>>
  /\ Head(Add3) = "tail" /\ Tail(Add3) = Add2 /\ Add3 # <<>>
  /\ Head(Add2) = "notEmpty" /\ Tail(Add2) = Add1 /\ Add2 # <<>>
  /\ Head(Add1) = "fullIfEqual" /\ Tail(Add1) = <<>> /\ Add1 # <<>>
  /\ Head(Pop4) = "copy" /\ Tail(Pop4) = Pop3 /\ Pop4 # <<>>
  /\ Head(Pop3) = "head" /\ Tail(Pop3) = Pop2 /\ Pop3 # <<>>
  /\ Head(Pop2) = "notFull" /\ Tail(Pop2) = Pop1 /\ Pop2 # <<>>
  /\ Head(Pop1) = "emptyIfEqual" /\ Tail(Pop1) = <<>> /\ Pop1 # <<>>
  /\ Head(Clear5) = "headZero" /\ Tail(Clear5) = Clear4 /\ Clear5 # <<>>
  /\ Head(Clear4) = "tailZero" /\ Tail(Clear4) = Clear3 /\ Clear4 # <<>>
  /\ Head(Clear3) = "setEmpty" /\ Tail(Clear3) = Clear2 /\ Clear3 # <<>>
  /\ Head(Clear2) = "notFull" /\ Tail(Clear2) = Clear1 /\ Clear2 # <<>>
  /\ Head(Clear1) = "erase" /\ Tail(Clear1) = <<>> /\ Clear1 # <<>>
BY DEF Add1, Add2, Add3, Add4, Add5, Pop1, Pop2, Pop3, Pop4,
       Clear1, Clear2, Clear3, Clear4, Clear5

(* Operations begin with all of their statements.                          *)
LEMMA StatementsAre ==
  /\ <<"head">> \o Statements("ADD") = Add5 /\ <<>> \o Statements("ADD") = Add4
  /\ Statements("POP") = Pop4 /\ Statements("CLEAR") = Clear5
<1>1. Statements("ADD") = Add4 /\ Statements("POP") = Pop4 /\ Statements("CLEAR") = Clear5
  BY DEF Statements, Add4, Pop4, Clear5
<1>2. <<"head">> \o Add4 = Add5 /\ <<>> \o Add4 = Add4
  <2> DEFINE names == {"head", "put", "tail", "notEmpty", "fullIfEqual"}
  <2>1. Add4 \in Seq(names) /\ Add5 \in Seq(names) /\ <<"head">> \in Seq(names)
    BY DEF Add4, Add5
  <2>2. Len(<<"head">> \o Add4) = Len(Add5) /\ <<"head">> \o Add4 \in Seq(names)
    BY <2>1 DEF Add4, Add5
  <2>3. \A i \in 1..Len(Add5) : (<<"head">> \o Add4)[i] = Add5[i]
    BY <2>1 DEF Add4, Add5
  <2>4. <<"head">> \o Add4 = Add5
    BY <2>1, <2>2, <2>3, SeqEqual
  <2> QED
    BY <2>1, <2>4
<1> QED
  BY <1>1, <1>2

(* The main loop and the interrupts of the firmware's buffers.             *)
LEMMA UsesAre ==
  /\ Sharing("events").main = {"ADD", "POP"} /\ Sharing("events").interrupt = "ADD"
  /\ Sharing("timer").main = Operations /\ Sharing("timer").interrupt = "ADD"
  /\ Sharing("commands").main = {"POP", "CLEAR"} /\ Sharing("commands").interrupt = "ADD"
  /\ Sharing("readings").main = Operations /\ Sharing("readings").interrupt = "ADD"
  /\ Sharing("responses").main = {"ADD"} /\ Sharing("responses").interrupt = "POP"
  /\ Sharing("owned").main = {} /\ Sharing("owned").interrupt = "NONE"
  /\ Sharing("events").wrap = TRUE /\ Sharing("commands").wrap = TRUE
  /\ Sharing("readings").wrap = FALSE /\ Sharing("responses").wrap = FALSE
  /\ Sharing("timer").wrap = TRUE /\ Sharing("owned").wrap = FALSE
BY DEF Sharing

(* What may be left of each operation.                                     *)
LEMMA LeftAre ==
  /\ Left("ADD") = {<<>>, Add1, Add2, Add3, Add4, Add5}
  /\ Left("POP") = {<<>>, Pop1, Pop2, Pop3, Pop4}
  /\ Left("CLEAR") = {<<>>, Clear1, Clear2, Clear3, Clear4, Clear5}
  /\ Left("NONE") = {<<>>}
BY DEF Left

(* What a statement does to a typed buffer.                                *)
LEMMA StoredType ==
  ASSUME BaseInv, Busy
  PROVE  /\ Stored(Head(todo)) \in Rings(Values)
         /\ Stored(Head(todo)).wrap = buffer.wrap
         /\ Tail(todo) \in Left(op)
<1> USE BufferAssumption, SharedAssumption DEF BufferAssumption, SharedAssumption
<1>1. /\ buffer \in Rings(Values) /\ seen.head \in Places /\ seen.tail \in Places
      /\ value \in Values /\ op \in Operations \cup {"NONE"} /\ todo \in Left(op) /\ todo # <<>>
  BY DEF BaseInv, SharedTypeOK, ControlInv, Busy, Rings, Values
<1>2. /\ Increased(seen.head) \in Places /\ Increased(seen.tail) \in Places
      /\ 0 \in Places /\ [p \in Places |-> Zero] \in [Places -> Values]
  <2>1. Zero \in Values
    BY DEF Values
  <2> QED
    BY <1>1, <2>1 DEF Increased, Places
<1>3. /\ Head(todo) \in {"head", "put", "tail", "notEmpty", "fullIfEqual", "copy", "notFull",
                         "emptyIfEqual", "headZero", "tailZero", "setEmpty", "erase"}
      /\ Tail(todo) \in Left(op)
  <2>1. CASE op = "ADD"
    <3>1. todo \in {Add1, Add2, Add3, Add4, Add5}
      BY <1>1, <2>1, LeftAre
    <3>2. Tail(todo) \in {<<>>, Add1, Add2, Add3, Add4}
      BY <3>1, StatementsLeft
    <3> QED
      BY ZenonT(40), <2>1, <3>1, <3>2, LeftAre, StatementsLeft
  <2>2. CASE op = "POP"
    <3>1. todo \in {Pop1, Pop2, Pop3, Pop4}
      BY <1>1, <2>2, LeftAre
    <3>2. Tail(todo) \in {<<>>, Pop1, Pop2, Pop3}
      BY <3>1, StatementsLeft
    <3> QED
      BY ZenonT(40), <2>2, <3>1, <3>2, LeftAre, StatementsLeft
  <2>3. CASE op = "CLEAR"
    <3>1. todo \in {Clear1, Clear2, Clear3, Clear4, Clear5}
      BY <1>1, <2>3, LeftAre
    <3>2. Tail(todo) \in {<<>>, Clear1, Clear2, Clear3, Clear4}
      BY <3>1, StatementsLeft
    <3> QED
      BY ZenonT(40), <2>3, <3>1, <3>2, LeftAre, StatementsLeft
  <2>4. CASE op = "NONE"
    BY <1>1, <2>4, LeftAre
  <2> QED
    BY <1>1, <2>1, <2>2, <2>3, <2>4 DEF Operations
<1>4. /\ [buffer EXCEPT !.head = Increased(seen.head)] \in Rings(Values)
      /\ [buffer EXCEPT !.tail = Increased(seen.tail)] \in Rings(Values)
      /\ [buffer EXCEPT !.storage[seen.tail] = value] \in Rings(Values)
      /\ [buffer EXCEPT !.empty = FALSE] \in Rings(Values)
      /\ [buffer EXCEPT !.full = (seen.tail = seen.head)] \in Rings(Values)
      /\ [buffer EXCEPT !.full = FALSE] \in Rings(Values)
      /\ [buffer EXCEPT !.empty = (seen.tail = seen.head)] \in Rings(Values)
      /\ [buffer EXCEPT !.head = 0] \in Rings(Values)
      /\ [buffer EXCEPT !.tail = 0] \in Rings(Values)
      /\ [buffer EXCEPT !.empty = TRUE] \in Rings(Values)
      /\ [buffer EXCEPT !.storage = [p \in Places |-> Zero]] \in Rings(Values)
  BY <1>1, <1>2 DEF Rings
<1>5. Stored(Head(todo)) \in Rings(Values)
  BY <1>1, <1>3, <1>4 DEF Stored
<1>6. Stored(Head(todo)).wrap = buffer.wrap
  BY <1>1, <1>3 DEF Stored, Rings
<1> QED
  BY <1>3, <1>5, <1>6

(* The operations of one owner keep the buffer consistent.                 *)
LEMMA OwnedKeeps ==
  ASSUME NEW V, NEW b \in Rings(V), Consistent(b), Zero \in V,
         NEW elements \in Seq(V), NEW n \in Nat, NEW position \in Nat
  PROVE  /\ b.wrap \/ Len(elements) <= FreeSpace(b) =>
              AddedAll(b, elements) \in Rings(V) /\ Consistent(AddedAll(b, elements))
         /\ PoppedAll(b, n) \in Rings(V) /\ Consistent(PoppedAll(b, n))
         /\ n < Size(b) =>
              DroppedFromEnd(b, n) \in Rings(V) /\ Consistent(DroppedFromEnd(b, n))
         /\ Cleared(b) \in Rings(V) /\ Consistent(Cleared(b))
         /\ Peeked(b, position, n) \in Seq(V)
<1> USE BufferAssumption DEF BufferAssumption
<1> DEFINE q == Contents(b)
<1>1. q \in Seq(V) /\ Filled(b, q)
  BY FilledMeans
<1>2. Size(b) = Len(q) /\ Len(q) \in Nat
  BY <1>1, FilledMeans
<1> HIDE DEF q
<1>3. ASSUME b.wrap \/ Len(elements) <= FreeSpace(b)
      PROVE  AddedAll(b, elements) \in Rings(V) /\ Consistent(AddedAll(b, elements))
  <2>1. b.wrap \/ Len(q) + Len(elements) <= StorageSize
    <3>1. Len(elements) \in Nat
      OBVIOUS
    <3> QED
      BY <1>2, <1>3, <3>1 DEF FreeSpace
  <2>2. AddedAll(b, elements) \in Rings(V) /\ Filled(AddedAll(b, elements), LastOf(q \o elements))
    BY <1>1, <2>1, AddedAllFills
  <2>3. q \o elements \in Seq(V)
    BY <1>1
  <2>4. LastOf(q \o elements) \in Seq(V)
    BY <2>3, LastOfTypes
  <2> QED
    BY <2>2, <2>4, FilledMeans
<1>4. PoppedAll(b, n) \in Rings(V) /\ Consistent(PoppedAll(b, n))
  <2> DEFINE left == IF n < Len(q) THEN SubSeq(q, n + 1, Len(q)) ELSE <<>>
  <2>1. left \in Seq(V)
    BY <1>1
  <2>2. PoppedAll(b, n) \in Rings(V) /\ Filled(PoppedAll(b, n), left)
    BY <1>1, PoppedAllFills
  <2> HIDE DEF left
  <2> QED
    BY <2>1, <2>2, FilledMeans
<1>5. ASSUME n < Size(b)
      PROVE  DroppedFromEnd(b, n) \in Rings(V) /\ Consistent(DroppedFromEnd(b, n))
  <2>1. SubSeq(q, 1, Len(q) - n) \in Seq(V) /\ n < Len(q)
    BY <1>1, <1>2, <1>5
  <2>2. DroppedFromEnd(b, n) \in Rings(V) /\ Filled(DroppedFromEnd(b, n), SubSeq(q, 1, Len(q) - n))
    BY <1>1, <2>1, DroppedFromEndFills
  <2> QED
    BY <2>1, <2>2, FilledMeans
<1>6. Cleared(b) \in Rings(V) /\ Consistent(Cleared(b))
  <2>1. Cleared(b) \in Rings(V) /\ Filled(Cleared(b), <<>>) /\ <<>> \in Seq(V)
    BY ClearedFills
  <2> QED
    BY <2>1, FilledMeans
<1>7. Peeked(b, position, n) \in Seq(V)
  BY <1>1, PeekedIs
<1> QED
  BY <1>3, <1>4, <1>5, <1>6, <1>7

(* Every operation of the owner.                                           *)
LEMMA OwnedNext ==
  ASSUME buffer \in Rings(Elements), Consistent(buffer), Next
  PROVE  buffer' \in Rings(Elements) /\ Consistent(buffer') /\ moved' \in Seq(Elements)
<1> USE BufferAssumption DEF BufferAssumption
<1> DEFINE fits(elements) == buffer.wrap \/ Len(elements) <= FreeSpace(buffer)
<1>1. FreeSpace(buffer) \in 0..StorageSize /\ Zero \in Elements
  <2>1. Contents(buffer) \in Seq(Elements) /\ Filled(buffer, Contents(buffer))
    BY FilledMeans
  <2>2. Size(buffer) = Len(Contents(buffer)) /\ Len(Contents(buffer)) <= StorageSize
    BY <2>1, FilledMeans DEF Filled
  <2>3. Len(Contents(buffer)) \in Nat
    BY <2>1
  <2> QED
    BY <2>2, <2>3 DEF FreeSpace
<1>2. ASSUME NEW elements \in Seq(Elements), fits(elements),
             buffer' = AddedAll(buffer, elements), moved' = elements
      PROVE  buffer' \in Rings(Elements) /\ Consistent(buffer') /\ moved' \in Seq(Elements)
  <2>1. 0 \in Nat
    OBVIOUS
  <2> QED
    BY <1>1, <1>2, <2>1, OwnedKeeps
<1>3. Counts \subseteq Nat /\ <<>> \in Seq(Elements) /\ 0 \in Nat
  BY DEF Counts
<1>4. ASSUME NEW elements \in Arrays PROVE elements \in Seq(Elements) /\ Len(elements) \in Nat
  BY DEF Arrays
<1>5. ASSUME NEW element \in Elements, Add(element)
      PROVE  buffer' \in Rings(Elements) /\ Consistent(buffer') /\ moved' \in Seq(Elements)
  <2>1. CASE Refuses(buffer)
    BY <1>3, <1>5, <2>1 DEF Add, Added
  <2>2. CASE ~Refuses(buffer)
    <3> DEFINE q == Contents(buffer)
               kept == IF buffer.full THEN Tail(q) ELSE q
    <3>1. q \in Seq(Elements) /\ Filled(buffer, q)
      BY FilledMeans
    <3>2. buffer' = Added(buffer, element) /\ moved' = <<element>>
      BY <1>5, <2>2 DEF Add
    <3>3. buffer' \in Rings(Elements)
      BY <3>2, RingsKept
    <3> HIDE DEF q
    <3>4. Append(kept, element) \in Seq(Elements)
      <4>1. buffer.full => q # <<>>
        BY <3>1 DEF Filled
      <4> QED
        BY <3>1, <4>1
    <3>5. Filled(buffer', Append(kept, element))
      BY <2>2, <3>1, <3>2, AddedFills
    <3> HIDE DEF kept
    <3>6. Consistent(buffer')
      BY <3>3, <3>4, <3>5, FilledMeans
    <3>7. moved' \in Seq(Elements)
      BY <3>2
    <3> QED
      BY <3>3, <3>6, <3>7
  <2> QED
    BY <2>1, <2>2
<1>6. ASSUME NEW elements \in Arrays, AddArray(elements)
      PROVE  buffer' \in Rings(Elements) /\ Consistent(buffer') /\ moved' \in Seq(Elements)
  <2>1. CASE ~buffer.wrap /\ Len(elements) > FreeSpace(buffer)
    BY <1>3, <1>6, <2>1 DEF AddArray
  <2>2. CASE ~(~buffer.wrap /\ Len(elements) > FreeSpace(buffer))
    <3>1. fits(elements)
      BY <1>1, <1>4, <2>2
    <3>2. buffer' = AddedAll(buffer, elements) /\ moved' = elements
      BY <1>6, <2>2 DEF AddArray
    <3> QED
      BY <1>2, <1>4, <3>1, <3>2
  <2> QED
    BY <2>1, <2>2
<1>7. ASSUME NEW elements \in Arrays, AddAsMany(elements)
      PROVE  buffer' \in Rings(Elements) /\ Consistent(buffer') /\ moved' \in Seq(Elements)
  <2> DEFINE n == Smaller(Len(elements), FreeSpace(buffer))
             some == SubSeq(elements, 1, n)
  <2>1. buffer' = AddedAll(buffer, some) /\ moved' = some
    BY <1>7 DEF AddAsMany
  <2>2. n \in 0..Len(elements) /\ n <= FreeSpace(buffer)
    BY <1>1, <1>4 DEF Smaller
  <2> HIDE DEF n
  <2>3. some \in Seq(Elements) /\ Len(some) = n
    BY <1>4, <2>2
  <2> HIDE DEF some
  <2> QED
    BY <1>2, <2>1, <2>2, <2>3
<1>8. ASSUME NEW n \in Counts, PopArray(n) \/ DropFromEnd(n)
      PROVE  buffer' \in Rings(Elements) /\ Consistent(buffer') /\ moved' \in Seq(Elements)
  <2>0. n \in Nat
    BY <1>3, <1>8
  <2>1. CASE PopArray(n)
    <3>1. buffer' = PoppedAll(buffer, n) /\ moved' = Peeked(buffer, 0, n)
      BY <2>1 DEF PopArray
    <3>2. PoppedAll(buffer, n) \in Rings(Elements) /\ Consistent(PoppedAll(buffer, n))
      BY <1>1, <1>3, <2>0, OwnedKeeps
    <3>3. Peeked(buffer, 0, n) \in Seq(Elements)
      BY <1>1, <1>3, <2>0, OwnedKeeps
    <3> QED
      BY <3>1, <3>2, <3>3
  <2>2. CASE DropFromEnd(n)
    BY <1>1, <1>3, <2>0, <2>2, OwnedKeeps DEF DropFromEnd
  <2> QED
    BY <1>8, <2>1, <2>2
<1>9. ASSUME NEW n \in Counts, NEW position \in Counts, PeekArray(position, n)
      PROVE  buffer' \in Rings(Elements) /\ Consistent(buffer') /\ moved' \in Seq(Elements)
  BY <1>1, <1>3, <1>9, OwnedKeeps DEF PeekArray
<1>10. CASE Clear
  BY <1>1, <1>3, <1>10, OwnedKeeps DEF Clear
<1> QED
  BY <1>5, <1>6, <1>7, <1>8, <1>9, <1>10 DEF Next

(* Types and control hold of the buffer as circular_buffer_init leaves it. *)
LEMMA BaseInit == SharedInit => BaseInv
<1> SUFFICES ASSUME SharedInit PROVE BaseInv
  OBVIOUS
<1> USE BufferAssumption, SharedAssumption DEF BufferAssumption, SharedAssumption
<1>1. 0 \in Places /\ Zero \in Elements /\ 0 \in Numbers /\ Zero \in Values
  BY DEF Places, Numbers, Values
<1>2. /\ buffer \in Rings(Elements) /\ buffer \in Rings(Values)
      /\ buffer.head = 0 /\ buffer.tail = 0 /\ buffer.empty = TRUE /\ buffer.full = FALSE
      /\ moved = <<>>
  BY <1>1 DEF SharedInit, Init, Rings
<1>3. Consistent(buffer)
  BY <1>2 DEF Consistent
<1>4. SharedTypeOK
  <2>1. buffer \in Rings(Elements \cup Numbers)
    BY <1>2 DEF Values
  <2>2. moved \in Seq(Elements \cup Numbers) /\ ideal \in Seq(Numbers)
    BY <1>2 DEF SharedInit
  <2>3. 0 \in 0..MaxInterrupts /\ [head |-> 0, tail |-> 0] \in [head : Places, tail : Places]
    BY <1>1
  <2>4. /\ use \in UseNames /\ op \in Operations \cup {"NONE"} /\ loaded \in BOOLEAN
        /\ seen \in [head : Places, tail : Places] /\ value \in Numbers
        /\ interrupts \in 0..MaxInterrupts /\ transmitting \in BOOLEAN /\ added \in Numbers
        /\ erased \in BOOLEAN /\ overrun \in BOOLEAN /\ crossed \in BOOLEAN
    BY <1>1, <2>3 DEF SharedInit
  <2> QED
    BY <2>1, <2>2, <2>4 DEF SharedTypeOK, Rings
<1>5. ControlInv
  <2>1. op = "NONE" /\ todo = <<>> /\ loaded = FALSE
    BY DEF SharedInit
  <2>2. <<>> \in Left("NONE")
    BY DEF Left
  <2> QED
    BY <2>1, <2>2 DEF ControlInv, SharedInit
<1>6. OwnedInv
  BY <1>2, <1>3 DEF OwnedInv, SharedInit
<1> QED
  BY <1>4, <1>5, <1>6 DEF BaseInv

(* Types and control in the next state, from those of the variables.       *)
LEMMA BaseKept ==
  ASSUME BaseInv, use' = use, buffer' \in Rings(Values), use # "owned" => buffer'.wrap = buffer.wrap,
         moved' \in Seq(Values), op' \in Operations \cup {"NONE"},
         op' # "NONE" => op' \in Sharing(use).main, todo' \in Left(op'),
         loaded' \in BOOLEAN, todo' = <<>> => ~loaded',
         seen' \in [head : Places, tail : Places], value' \in Numbers,
         interrupts' \in 0..MaxInterrupts, transmitting' \in BOOLEAN, added' \in Numbers,
         ideal' \in Seq(Numbers), erased' \in BOOLEAN,
         overrun' \in BOOLEAN, crossed' \in BOOLEAN,
         use = "owned" => /\ buffer' \in Rings(Elements) /\ Consistent(buffer')
                          /\ moved' \in Seq(Elements) /\ todo' = <<>>
  PROVE  BaseInv'
<1>1. SharedTypeOK'
  BY DEF BaseInv, SharedTypeOK, Rings, Values
<1>2. ControlInv'
  BY DEF BaseInv, ControlInv, Busy
<1>3. OwnedInv'
  BY DEF OwnedInv
<1> QED
  BY <1>1, <1>2, <1>3 DEF BaseInv

(* The buffer of one owner is used by nobody else.                         *)
LEMMA OwnerAlone ==
  ASSUME BaseInv, use = "owned"
  PROVE  todo = <<>> /\ op = "NONE" /\ Sharing(use).main = {} /\ Sharing(use).interrupt = "NONE"
BY UsesAre DEF BaseInv, OwnedInv, ControlInv

(* The types, one by one.                                                  *)
LEMMA TypesMean ==
  ASSUME BaseInv
  PROVE  /\ buffer \in Rings(Values) /\ moved \in Seq(Values) /\ added \in Numbers
         /\ op \in Operations \cup {"NONE"} /\ todo \in Left(op) /\ loaded \in BOOLEAN
         /\ op # "NONE" => op \in Sharing(use).main
         /\ seen \in [head : Places, tail : Places] /\ value \in Numbers
         /\ seen.head \in Places /\ seen.tail \in Places
         /\ interrupts \in 0..MaxInterrupts /\ transmitting \in BOOLEAN
         /\ ideal \in Seq(Numbers) /\ erased \in BOOLEAN
         /\ overrun \in BOOLEAN /\ crossed \in BOOLEAN
         /\ buffer.head \in Places /\ buffer.tail \in Places /\ Zero \in Numbers
         /\ buffer.storage \in [Places -> Values] /\ buffer.empty \in BOOLEAN
         /\ buffer.full \in BOOLEAN /\ buffer.wrap \in BOOLEAN
         /\ Rest(ideal) \in Seq(Numbers) /\ Oldest(ideal) \in Values
         /\ Numbers \subseteq Values /\ Elements \subseteq Values
         /\ use \in {"owned", "events", "timer", "commands", "readings", "responses"}
<1>1. /\ buffer \in Rings(Values) /\ moved \in Seq(Values)
  BY DEF BaseInv, SharedTypeOK, Rings, Values
<1>2. Zero \in Numbers /\ Numbers \subseteq Values /\ Elements \subseteq Values
  BY SharedAssumption DEF SharedAssumption, Numbers, Values
<1>3. Rest(ideal) \in Seq(Numbers) /\ Oldest(ideal) \in Values
  BY <1>2 DEF BaseInv, SharedTypeOK, Rest, Oldest
<1>4. /\ buffer.head \in Places /\ buffer.tail \in Places
      /\ buffer.storage \in [Places -> Values] /\ buffer.empty \in BOOLEAN
      /\ buffer.full \in BOOLEAN /\ buffer.wrap \in BOOLEAN
  BY <1>1 DEF Rings
<1>5. use \in {"owned", "events", "timer", "commands", "readings", "responses"}
  BY SharedAssumption DEF BaseInv, SharedTypeOK, SharedAssumption
<1> QED
  BY <1>1, <1>2, <1>3, <1>4, <1>5 DEF BaseInv, SharedTypeOK, ControlInv

(* Every step of either side keeps the types and the control.              *)
LEMMA BaseStep == BaseInv /\ [SharedNext]_sharedVars => BaseInv'
<1> SUFFICES ASSUME BaseInv, [SharedNext]_sharedVars PROVE BaseInv'
  OBVIOUS
<1> USE TypesMean
<1>1. CASE UNCHANGED sharedVars
  BY <1>1 DEF BaseInv, SharedTypeOK, ControlInv, OwnedInv, Busy, vars
<1>2. ASSUME NEW operation \in Operations, Start(operation), todo' \in Left(operation) \ {<<>>},
             value' \in Numbers, added' \in Numbers, ideal' \in Seq(Numbers), moved' = moved
      PROVE  BaseInv'
  <2>1. use # "owned"
    BY <1>2, OwnerAlone DEF Start
  <2>2. /\ use' = use /\ buffer' = buffer /\ op' = operation /\ op' \in Sharing(use).main
        /\ loaded' = loaded /\ seen' = seen /\ transmitting' = transmitting
        /\ erased' = erased /\ overrun' = overrun /\ crossed' = crossed
        /\ interrupts' = 0 /\ ~Busy /\ op' # "NONE"
    BY <1>2 DEF Start, Operations
  <2>3. interrupts' \in 0..MaxInterrupts
    BY <2>2, SharedAssumption DEF SharedAssumption
  <2> QED
    BY <1>2, <2>1, <2>2, <2>3, BaseKept
<1>3. CASE StartAdd
  <2>1. added + 1 \in Numbers
    BY <1>3, SharedAssumption DEF StartAdd, Numbers, SharedAssumption
  <2>2. todo' \in {Add4, Add5}
    BY <1>3, StatementsAre DEF StartAdd
  <2>3. todo' \in Left("ADD") \ {<<>>}
    BY <2>2, StatementsLeft DEF Left
  <2> QED
    BY <1>2, <1>3, <2>1, <2>3 DEF StartAdd, Operations
<1>4. CASE StartPop
  <2>1. todo' \in Left("POP") \ {<<>>}
    BY <1>4, StatementsAre, StatementsLeft DEF StartPop, Left
  <2> QED
    BY <1>2, <1>4, <2>1 DEF StartPop, Operations
<1>5. CASE StartClear
  <2>1. todo' \in Left("CLEAR") \ {<<>>}
    BY <1>5, StatementsAre, StatementsLeft DEF StartClear, Left
  <2> QED
    BY <1>2, <1>5, <2>1 DEF StartClear, Operations
<1>6. CASE Load
  <2>1. /\ todo # <<>> /\ loaded' = TRUE /\ seen' = [head |-> buffer.head, tail |-> buffer.tail]
        /\ UNCHANGED <<buffer, moved, use, op, todo, value, interrupts, transmitting, added,
                       ideal, erased, overrun, crossed>>
    BY <1>6 DEF Load, Busy
  <2>2. seen' \in [head : Places, tail : Places] /\ use # "owned"
    BY <2>1, OwnerAlone
  <2> QED
    BY <2>1, <2>2, BaseKept
<1>7. CASE Store
  <2>1. /\ todo # <<>> /\ loaded' = FALSE /\ todo' = Tail(todo) /\ buffer' = Stored(Head(todo))
        /\ UNCHANGED <<use, op, seen, value, interrupts, transmitting, added, overrun, crossed>>
    BY <1>7 DEF Store, Busy
  <2>2. use # "owned"
    BY <2>1, OwnerAlone
  <2>3. /\ buffer' \in Rings(Values) /\ buffer'.wrap = buffer.wrap /\ todo' \in Left(op)
    BY <2>1, StoredType DEF Busy
  <2>4. moved' \in Seq(Values)
    <3>1. buffer.storage[seen.head] \in Values
      OBVIOUS
    <3>2. <<buffer.storage[seen.head], Oldest(ideal)>> \in Seq(Values)
      BY <3>1
    <3> QED
      BY <1>7, <3>2 DEF Store
  <2>5. ideal' \in Seq(Numbers) /\ erased' \in BOOLEAN
    <3>1. Append(ideal, value) \in Seq(Numbers) /\ <<>> \in Seq(Numbers)
      OBVIOUS
    <3>2. [i \in DOMAIN ideal |-> Zero] \in Seq(Numbers)
      <4>1. DOMAIN ideal = 1..Len(ideal) /\ Len(ideal) \in Nat /\ Zero \in Numbers
        OBVIOUS
      <4> QED
        BY <4>1
    <3> QED
      BY <1>7, <3>1, <3>2 DEF Store
  <2> QED
    BY <2>1, <2>2, <2>3, <2>4, <2>5, BaseKept
<1>8. ASSUME NEW operation, Interrupts(operation), operation \in {"ADD", "POP"},
             buffer' \in Rings(Values), buffer'.wrap = buffer.wrap, moved' \in Seq(Values),
             transmitting' \in BOOLEAN, added' \in Numbers, ideal' \in Seq(Numbers),
             erased' \in BOOLEAN, overrun' \in BOOLEAN, crossed' \in BOOLEAN
      PROVE  BaseInv'
  <2>1. use # "owned"
    BY <1>8, OwnerAlone DEF Interrupts
  <2>2. /\ use' = use /\ todo' = todo /\ loaded' = loaded /\ seen' = seen /\ value' = value
        /\ op' = IF Busy THEN op ELSE "NONE"
        /\ interrupts' = IF Busy THEN interrupts + 1 ELSE 0
        /\ Busy => interrupts < MaxInterrupts
    BY <1>8 DEF Interrupts
  <2>3. interrupts' \in 0..MaxInterrupts
    BY <2>2, SharedAssumption DEF SharedAssumption
  <2>4. todo' \in Left(op') /\ (todo' = <<>> => ~loaded')
    BY <2>2 DEF Busy, Left, BaseInv, ControlInv
  <2>5. op' \in Operations \cup {"NONE"} /\ (op' # "NONE" => op' \in Sharing(use).main)
    BY <2>2
  <2> QED
    BY <1>8, <2>1, <2>2, <2>3, <2>4, <2>5, BaseKept
<1>9. CASE InterruptAdds
  <2>1. added + 1 \in Numbers /\ added + 1 \in Values
    BY <1>9, SharedAssumption DEF InterruptAdds, Numbers, SharedAssumption
  <2>2. buffer' \in Rings(Values) /\ buffer'.wrap = buffer.wrap
    BY ZenonT(40), <1>9, <2>1, RingsKept DEF InterruptAdds
  <2>3. ideal' \in Seq(Numbers)
    BY <1>9, <2>1 DEF InterruptAdds
  <2>4. erased' \in BOOLEAN /\ overrun' \in BOOLEAN /\ crossed' \in BOOLEAN
    BY <1>9 DEF InterruptAdds
  <2> QED
    BY <1>8, <1>9, <2>1, <2>2, <2>3, <2>4 DEF InterruptAdds
<1>10. ASSUME Transmits
       PROVE  /\ buffer' \in Rings(Values) /\ buffer'.wrap = buffer.wrap
              /\ moved' \in Seq(Values) /\ ideal' \in Seq(Numbers)
              /\ UNCHANGED <<added, erased, overrun, crossed>>
  <2>1. buffer' \in Rings(Values) /\ buffer'.wrap = buffer.wrap
    BY <1>10, RingsKept DEF Transmits
  <2>2. moved' \in Seq(Values)
    <3>1. buffer.storage[buffer.head] \in Values
      OBVIOUS
    <3>2. <<buffer.storage[buffer.head], Oldest(ideal)>> \in Seq(Values)
      BY <3>1
    <3> QED
      BY <1>10, <3>2 DEF Transmits
  <2> QED
    BY <1>10, <2>1, <2>2 DEF Transmits
<1>11. CASE InterruptPops
  BY <1>8, <1>10, <1>11 DEF InterruptPops
<1>12. CASE InterruptRests
  BY <1>8, <1>12 DEF InterruptRests
<1>13. CASE StartTransmission
  <2>1. /\ UNCHANGED <<use, op, todo, loaded, seen, value, interrupts>> /\ transmitting' = TRUE
        /\ use = "responses" /\ todo = <<>> /\ Transmits
    BY <1>13 DEF StartTransmission, Busy
  <2>2. ~loaded'
    BY <2>1 DEF BaseInv, ControlInv, Busy
  <2> QED
    BY <1>10, <2>1, <2>2, BaseKept
<1>14. CASE Owned
  <2>1. /\ use = "owned" /\ Next
        /\ UNCHANGED <<use, op, todo, loaded, seen, value, interrupts, transmitting, added,
                       ideal, erased, overrun, crossed>>
    BY <1>14 DEF Owned
  <2>2. buffer \in Rings(Elements) /\ Consistent(buffer) /\ moved \in Seq(Elements) /\ todo = <<>>
    BY <2>1 DEF BaseInv, OwnedInv
  <2>3. buffer' \in Rings(Elements) /\ Consistent(buffer') /\ moved' \in Seq(Elements)
    BY <2>1, <2>2, OwnedNext
  <2>4. buffer' \in Rings(Values) /\ moved' \in Seq(Values) /\ ~loaded'
    <3>0. ~loaded
      BY <2>2 DEF BaseInv, ControlInv, Busy
    <3>1. moved' \in Seq(Values)
      BY <2>3
    <3>2. buffer' \in Rings(Values)
      BY <2>3 DEF Rings
    <3> QED
      BY <2>1, <3>0, <3>1, <3>2
  <2> QED
    BY <2>1, <2>2, <2>3, <2>4, BaseKept
<1> QED
  BY <1>1, <1>3, <1>4, <1>5, <1>6, <1>7, <1>9, <1>11, <1>12, <1>13, <1>14 DEF SharedNext

(* The type invariant of the shared buffer, whatever it is used for and    *)
(* wherever the interrupts come.                                           *)
THEOREM SharedTypesKept == SharedSpec => []SharedTypeOK
<1>1. SharedInit => BaseInv
  BY BaseInit
<1>2. BaseInv /\ [SharedNext]_sharedVars => BaseInv'
  BY BaseStep
<1>3. BaseInv => SharedTypeOK
  BY DEF BaseInv
<1> QED
  BY <1>1, <1>2, <1>3, PTL DEF SharedSpec

-------------------------------------------------------------------------------
(***************************************************************************)
(* The buffer of one owner is the queue of Fifo.                           *)
(***************************************************************************)

(* The queue's operators, as the lemmas above have them.                   *)
LEMMA QueueOperators ==
  ASSUME NEW V, NEW s \in Seq(V), NEW n \in Nat
  PROVE  /\ Queue!Newest(s) = LastOf(s)
         /\ Queue!First(s, n) = SubSeq(s, 1, IF n < Len(s) THEN n ELSE Len(s))
         /\ Len(Queue!First(s, n)) = Smaller(n, Len(s))
         /\ Queue!From(s, n) = SubSeq(s, n + 1, Len(s))
         /\ Queue!First(s, n) \in Seq(V) /\ Queue!From(s, n) \in Seq(V)
         /\ Len(Queue!From(s, n)) = IF n < Len(s) THEN Len(s) - n ELSE 0
         /\ \A i \in 1..Len(Queue!From(s, n)) : Queue!From(s, n)[i] = s[n + i]
         /\ \A i \in 1..Len(Queue!First(s, n)) : Queue!First(s, n)[i] = s[i]
<1> USE BufferAssumption DEF BufferAssumption
<1>1. Queue!Newest(s) = LastOf(s)
  BY DEF Queue!Newest, Queue!From, LastOf
<1>2. /\ Queue!First(s, n) = SubSeq(s, 1, IF n < Len(s) THEN n ELSE Len(s))
      /\ Queue!From(s, n) = SubSeq(s, n + 1, Len(s))
  BY DEF Queue!First, Queue!From
<1>3. /\ SubSeq(s, 1, IF n < Len(s) THEN n ELSE Len(s)) \in Seq(V)
      /\ Len(SubSeq(s, 1, IF n < Len(s) THEN n ELSE Len(s))) = Smaller(n, Len(s))
      /\ \A i \in 1..Smaller(n, Len(s)) :
           SubSeq(s, 1, IF n < Len(s) THEN n ELSE Len(s))[i] = s[i]
  BY DEF Smaller
<1>4. /\ SubSeq(s, n + 1, Len(s)) \in Seq(V)
      /\ Len(SubSeq(s, n + 1, Len(s))) = IF n < Len(s) THEN Len(s) - n ELSE 0
      /\ \A i \in 1..(IF n < Len(s) THEN Len(s) - n ELSE 0) :
           SubSeq(s, n + 1, Len(s))[i] = s[n + i]
  OBVIOUS
<1> QED
  BY <1>1, <1>2, <1>3, <1>4

(* The contents of a buffer that has been filled with q.                   *)
LEMMA ContentsAre ==
  ASSUME NEW V, NEW b \in Rings(V), NEW q \in Seq(V), Filled(b, q)
  PROVE  Contents(b) = q /\ Size(b) = Len(q)
BY FilledMeans

(* The array operations, one by one.                                       *)
LEMMA AddedAllContents ==
  ASSUME NEW b \in Rings(Elements), Consistent(b), NEW elements \in Seq(Elements),
         b.wrap \/ Len(elements) <= FreeSpace(b)
  PROVE  /\ Contents(AddedAll(b, elements)) = Queue!Newest(Contents(b) \o elements)
         /\ AddedAll(b, elements).wrap = b.wrap
<1> USE BufferAssumption DEF BufferAssumption
<1> DEFINE q == Contents(b)
<1>1. q \in Seq(Elements) /\ Filled(b, q) /\ Size(b) = Len(q)
  <2>1. q \in Seq(Elements) /\ Filled(b, q)
    BY FilledMeans
  <2> QED
    BY <2>1, ContentsAre
<1> HIDE DEF q
<1>2. b.wrap \/ Len(q) + Len(elements) <= StorageSize
  <2>1. Len(q) \in Nat /\ Len(elements) \in Nat
    BY <1>1
  <2> QED
    BY <1>1, <2>1 DEF FreeSpace
<1>3. /\ AddedAll(b, elements) \in Rings(Elements) /\ AddedAll(b, elements).wrap = b.wrap
      /\ Filled(AddedAll(b, elements), LastOf(q \o elements))
  BY <1>1, <1>2, AddedAllFills
<1>4. q \o elements \in Seq(Elements)
  BY <1>1
<1>5. LastOf(q \o elements) \in Seq(Elements)
  BY <1>4, LastOfTypes
<1>6. Contents(AddedAll(b, elements)) = LastOf(q \o elements)
  BY <1>3, <1>5, ContentsAre
<1>7. Queue!Newest(q \o elements) = LastOf(q \o elements)
  <2>1. 0 \in Nat
    OBVIOUS
  <2> QED
    BY <1>4, <2>1, QueueOperators
<1> QED
  BY <1>3, <1>6, <1>7 DEF q

(* circular_buffer_pop_array takes the first of the contents.              *)
LEMMA PoppedAllContents ==
  ASSUME NEW b \in Rings(Elements), Consistent(b), NEW n \in Nat
  PROVE  /\ Contents(PoppedAll(b, n)) =
              Queue!From(Contents(b), Len(Queue!First(Contents(b), n)))
         /\ PoppedAll(b, n).wrap = b.wrap
<1> USE BufferAssumption DEF BufferAssumption
<1> DEFINE q == Contents(b)
           left == IF n < Len(q) THEN SubSeq(q, n + 1, Len(q)) ELSE <<>>
<1>1. q \in Seq(Elements) /\ Filled(b, q)
  BY FilledMeans
<1> HIDE DEF q
<1>2. PoppedAll(b, n) \in Rings(Elements) /\ PoppedAll(b, n).wrap = b.wrap
      /\ Filled(PoppedAll(b, n), left)
  BY <1>1, PoppedAllFills
<1>3. left \in Seq(Elements)
  BY <1>1
<1> HIDE DEF left
<1>4. Contents(PoppedAll(b, n)) = left
  BY <1>2, <1>3, ContentsAre
<1> USE DEF left
<1>5. Len(Queue!First(q, n)) = Smaller(n, Len(q)) /\ Smaller(n, Len(q)) \in Nat /\ Len(q) \in Nat
  BY <1>1, QueueOperators DEF Smaller
<1>6. Queue!From(q, Smaller(n, Len(q))) = SubSeq(q, Smaller(n, Len(q)) + 1, Len(q))
  BY <1>1, <1>5, QueueOperators
<1>7. SubSeq(q, Smaller(n, Len(q)) + 1, Len(q)) = left
  <2>1. CASE n < Len(q)
    BY <2>1 DEF Smaller
  <2>2. CASE ~(n < Len(q))
    <3>1. Smaller(n, Len(q)) = Len(q)
      BY <1>5, <2>2 DEF Smaller
    <3>2. SubSeq(q, Len(q) + 1, Len(q)) = <<>>
      BY <1>1
    <3> QED
      BY <2>2, <3>1, <3>2
  <2> QED
    BY <2>1, <2>2
<1> HIDE DEF left
<1> QED
  BY <1>2, <1>4, <1>5, <1>6, <1>7 DEF q

(* circular_buffer_drop_from_end takes the last of them.                   *)
LEMMA DroppedContents ==
  ASSUME NEW b \in Rings(Elements), Consistent(b), NEW n \in Nat, n < Size(b)
  PROVE  /\ Contents(DroppedFromEnd(b, n)) = Queue!First(Contents(b), Len(Contents(b)) - n)
         /\ DroppedFromEnd(b, n).wrap = b.wrap /\ n <= Len(Contents(b))
<1> USE BufferAssumption DEF BufferAssumption
<1> DEFINE q == Contents(b)
<1>1. q \in Seq(Elements) /\ Filled(b, q)
  BY FilledMeans
<1> HIDE DEF q
<1>2. Len(q) = Size(b) /\ n < Len(q) /\ Len(q) - n \in Nat /\ ~(Len(q) - n > Len(q))
  <2>1. Size(b) = Len(q)
    BY <1>1, ContentsAre
  <2>2. Len(q) \in Nat
    BY <1>1
  <2> QED
    BY <2>1, <2>2
<1>3. /\ DroppedFromEnd(b, n) \in Rings(Elements) /\ DroppedFromEnd(b, n).wrap = b.wrap
      /\ Filled(DroppedFromEnd(b, n), SubSeq(q, 1, Len(q) - n))
  BY <1>1, <1>2, DroppedFromEndFills
<1>4. SubSeq(q, 1, Len(q) - n) \in Seq(Elements)
  BY <1>1, <1>2
<1>5. Contents(DroppedFromEnd(b, n)) = SubSeq(q, 1, Len(q) - n)
  BY <1>3, <1>4, ContentsAre
<1>6. Queue!First(q, Len(q) - n) = SubSeq(q, 1, IF Len(q) - n < Len(q) THEN Len(q) - n ELSE Len(q))
  BY <1>1, <1>2, QueueOperators
<1>7. (IF Len(q) - n < Len(q) THEN Len(q) - n ELSE Len(q)) = Len(q) - n
  <2>1. Len(q) \in Nat
    BY <1>1
  <2> QED
    BY <1>2, <2>1
<1>8. n <= Len(q)
  BY <1>2
<1> QED
  BY <1>3, <1>5, <1>6, <1>7, <1>8 DEF q

(* circular_buffer_peek_array returns those from a position on.            *)
LEMMA PeekedContents ==
  ASSUME NEW b \in Rings(Elements), Consistent(b), NEW position \in Nat, NEW n \in Nat
  PROVE  Peeked(b, position, n) = Queue!First(Queue!From(Contents(b), position), n)
<1> USE BufferAssumption DEF BufferAssumption
<1> DEFINE q == Contents(b)
           r == Queue!From(q, position)
           p == Peeked(b, position, n)
<1>1. q \in Seq(Elements) /\ Filled(b, q) /\ Len(q) \in Nat
  BY FilledMeans
<1> HIDE DEF q
<1>2. /\ p \in Seq(Elements)
      /\ Len(p) = IF position < Len(q) THEN Smaller(n, Len(q) - position) ELSE 0
      /\ \A i \in 1..Len(p) : p[i] = q[position + i]
  BY <1>1, PeekedIs
<1>3. /\ r \in Seq(Elements) /\ Len(r) = IF position < Len(q) THEN Len(q) - position ELSE 0
      /\ \A i \in 1..Len(r) : r[i] = q[position + i]
  BY <1>1, QueueOperators
<1> HIDE DEF p, r
<1>4. /\ Queue!First(r, n) \in Seq(Elements) /\ Len(Queue!First(r, n)) = Smaller(n, Len(r))
      /\ \A i \in 1..Len(Queue!First(r, n)) : Queue!First(r, n)[i] = r[i]
  BY <1>3, QueueOperators
<1>5. Len(p) = Len(Queue!First(r, n)) /\ Len(p) \in Nat
      /\ 1..Len(p) \subseteq 1..Len(r)
  BY <1>1, <1>2, <1>3, <1>4 DEF Smaller
<1>6. \A i \in 1..Len(Queue!First(r, n)) : p[i] = Queue!First(r, n)[i]
  BY <1>2, <1>3, <1>4, <1>5
<1>7. p = Queue!First(r, n)
  BY <1>2, <1>4, <1>5, <1>6, SeqEqual
<1> QED
  BY <1>7 DEF p, r, q

(* An array of one element is that element.                                *)
LEMMA AddedOne ==
  ASSUME NEW b \in Rings(Elements), NEW one \in Seq(Elements), Len(one) = 1
  PROVE  AddedAll(b, one) = Added(b, one[1])
<1>1. PICK g \in [0..Len(one) -> Rings(Elements)] : AddsOneByOne(g, b, one)
  BY AddedAllSteps
<1>2. g[0] = b /\ AddedAll(b, one) = g[1] /\ g[1] = Added(g[1 - 1], one[1])
  BY <1>1 DEF AddsOneByOne
<1> QED
  BY <1>2

(* An operation of the owner is one of the queue's.                        *)
LEMMA OwnedStep ==
  ASSUME BaseInv, Owned
  PROVE  Queue!Next
<1> USE BufferAssumption DEF BufferAssumption
<1>1. /\ use = "owned" /\ use' = "owned" /\ Next
      /\ buffer \in Rings(Elements) /\ Consistent(buffer)
  BY DEF Owned, BaseInv, OwnedInv
<1> DEFINE q == Contents(buffer)
<1>2. /\ q \in Seq(Elements) /\ Len(q) \in Nat /\ Size(buffer) = Len(q)
      /\ FreeSpace(buffer) = StorageSize - Len(q) /\ FreeSpace(buffer) \in Nat
      /\ buffer.wrap \in BOOLEAN
  <2>1. q \in Seq(Elements) /\ Filled(buffer, q)
    BY <1>1, FilledMeans
  <2>2. Size(buffer) = Len(q)
    BY <1>1, <2>1, ContentsAre
  <2>3. Len(q) \in Nat /\ Len(q) <= StorageSize
    BY <2>1 DEF Filled
  <2>4. buffer.wrap \in BOOLEAN
    BY <1>1 DEF Rings
  <2> QED
    BY <2>1, <2>2, <2>3, <2>4 DEF FreeSpace
<1>3. ASSUME NEW elements \in Arrays
      PROVE  elements \in Seq(Elements) /\ Len(elements) \in Nat
  BY DEF Arrays
<1>4. Counts \subseteq Nat
  BY DEF Counts
<1>5. ASSUME NEW elements \in Arrays,
             buffer.wrap \/ Len(elements) <= FreeSpace(buffer),
             buffer' = AddedAll(buffer, elements), moved' = elements
      PROVE  Queue!Next
  <2>1. Contents(buffer)' = Queue!Newest(Contents(buffer) \o elements) /\ buffer'.wrap = buffer.wrap
    BY <1>1, <1>3, <1>5, AddedAllContents
  <2>2. Queue!AddArray(elements)
    BY <1>1, <1>2, <1>5, <2>1 DEF Queue!AddArray, Queue!room
  <2> QED
    BY <1>1, <2>1, <2>2 DEF Queue!Next
<1>6. ASSUME NEW elements \in Arrays,
             ~buffer.wrap, Len(elements) > FreeSpace(buffer),
             buffer' = buffer, moved' = <<>>
      PROVE  Queue!Next
  <2>1. Queue!AddArray(elements)
    BY <1>1, <1>2, <1>6 DEF Queue!AddArray, Queue!room
  <2> QED
    BY <1>1, <1>6, <2>1 DEF Queue!Next
<1>7. ASSUME NEW element \in Elements, Add(element)
      PROVE  Queue!Next
  <2> DEFINE one == <<element>>
  <2>1. one \in Arrays /\ Len(one) = 1 /\ one \in Seq(Elements) /\ one[1] = element
    <3>1. one \in [1..1 -> Elements]
      OBVIOUS
    <3> QED
      BY <3>1 DEF Arrays
  <2>2. CASE Refuses(buffer)
    <3>1. ~buffer.wrap /\ Len(one) > FreeSpace(buffer)
      <4>1. buffer.full /\ ~buffer.wrap /\ ~buffer.empty
        BY <1>1, <2>2 DEF Refuses, Consistent
      <4>2. Size(buffer) = StorageSize
        BY <4>1 DEF Size
      <4> QED
        BY <2>1, <4>1, <4>2 DEF FreeSpace
    <3>2. buffer' = buffer /\ moved' = <<>>
      BY <1>7, <2>2 DEF Add, Added
    <3> HIDE DEF one
    <3> QED
      BY <1>6, <2>1, <3>1, <3>2
  <2>3. CASE ~Refuses(buffer)
    <3>1. buffer.wrap \/ Len(one) <= FreeSpace(buffer)
      <4>1. buffer.wrap \/ ~buffer.full
        BY <2>3 DEF Refuses
      <4>2. ~buffer.full => Len(q) # StorageSize /\ Len(q) <= StorageSize
        BY <1>1, FilledMeans DEF Filled
      <4> QED
        BY <1>2, <2>1, <4>1, <4>2
    <3>2. AddedAll(buffer, one) = Added(buffer, element)
      <4> HIDE DEF one
      <4> QED
        BY <1>1, <2>1, AddedOne
    <3>3. buffer' = AddedAll(buffer, one) /\ moved' = one
      BY <1>7, <2>3, <3>2 DEF Add
    <3> HIDE DEF one
    <3> QED
      BY <1>5, <2>1, <3>1, <3>3
  <2> QED
    BY <2>2, <2>3
<1>8. ASSUME NEW elements \in Arrays, AddArray(elements)
      PROVE  Queue!Next
  <2>1. CASE ~buffer.wrap /\ Len(elements) > FreeSpace(buffer)
    BY <1>6, <1>8, <2>1 DEF AddArray
  <2>2. CASE ~(~buffer.wrap /\ Len(elements) > FreeSpace(buffer))
    BY <1>2, <1>3, <1>5, <1>8, <2>2 DEF AddArray
  <2> QED
    BY <2>1, <2>2
<1>9. ASSUME NEW elements \in Arrays, AddAsMany(elements)
      PROVE  Queue!Next
  <2> DEFINE some == SubSeq(elements, 1, Smaller(Len(elements), FreeSpace(buffer)))
  <2>1. buffer' = AddedAll(buffer, some) /\ moved' = some
    BY <1>9 DEF AddAsMany
  <2>2. some = Queue!First(elements, FreeSpace(buffer))
    <3> DEFINE m == FreeSpace(buffer)
    <3>1. m \in Nat /\ elements \in Seq(Elements) /\ Len(elements) \in Nat
      BY <1>2, <1>3
    <3> HIDE DEF m
    <3>2. Queue!First(elements, m) =
            SubSeq(elements, 1, IF m < Len(elements) THEN m ELSE Len(elements))
      BY <3>1, QueueOperators
    <3>3. (IF m < Len(elements) THEN m ELSE Len(elements)) = Smaller(Len(elements), m)
      BY <3>1 DEF Smaller
    <3> QED
      BY <3>2, <3>3 DEF m
  <2>3. some \in Seq(Elements) /\ Len(some) <= FreeSpace(buffer) /\ Len(some) \in Nat
    BY <1>2, <1>3 DEF Smaller
  <2> HIDE DEF some
  <2>4. Contents(AddedAll(buffer, some)) = Queue!Newest(q \o some)
        /\ AddedAll(buffer, some).wrap = buffer.wrap
    BY <1>1, <2>3, AddedAllContents
  <2>5. Queue!Newest(q \o some) = q \o some
    <3> HIDE DEF q
    <3>1. q \o some \in Seq(Elements) /\ Len(q \o some) = Len(q) + Len(some)
      BY <1>2, <2>3
    <3> QED
      BY <1>2, <2>3, <3>1 DEF Queue!Newest
  <2>6. Queue!AddAsMany(elements)
    BY <1>1, <1>2, <2>1, <2>2, <2>4, <2>5 DEF Queue!AddAsMany, Queue!room
  <2> QED
    BY <1>1, <2>1, <2>4, <2>6 DEF Queue!Next
<1>10. ASSUME NEW n \in Counts, PopArray(n)
       PROVE  Queue!Next
  <2>0. n \in Nat /\ 0 \in Nat
    BY <1>4
  <2>1. buffer' = PoppedAll(buffer, n) /\ moved' = Peeked(buffer, 0, n)
    BY <1>10 DEF PopArray
  <2>2. /\ Contents(PoppedAll(buffer, n)) = Queue!From(q, Len(Queue!First(q, n)))
        /\ PoppedAll(buffer, n).wrap = buffer.wrap
    BY <1>1, <2>0, PoppedAllContents
  <2>3. Peeked(buffer, 0, n) = Queue!First(q, n)
    <3>1. Peeked(buffer, 0, n) = Queue!First(Queue!From(q, 0), n)
      BY <1>1, <2>0, PeekedContents
    <3>2. Queue!From(q, 0) = q
      <4> HIDE DEF q
      <4>1. Queue!From(q, 0) = SubSeq(q, 1, Len(q))
        BY <1>2 DEF Queue!From
      <4> QED
        BY <1>2, <4>1
    <3> QED
      BY <3>1, <3>2
  <2>4. Queue!PopArray(n)
    BY <1>1, <2>1, <2>2, <2>3 DEF Queue!PopArray
  <2> QED
    BY <1>1, <2>1, <2>2, <2>4 DEF Queue!Next
<1>11. ASSUME NEW n \in Counts, DropFromEnd(n)
       PROVE  Queue!Next
  <2>0. n \in Nat
    BY <1>4
  <2>1. n < Size(buffer) /\ buffer' = DroppedFromEnd(buffer, n) /\ moved' = <<>>
    BY <1>11 DEF DropFromEnd
  <2>2. /\ Contents(DroppedFromEnd(buffer, n)) = Queue!First(q, Len(q) - n)
        /\ DroppedFromEnd(buffer, n).wrap = buffer.wrap /\ n <= Len(q)
    BY <1>1, <2>0, <2>1, DroppedContents
  <2>3. Queue!DropFromEnd(n)
    BY <1>1, <2>1, <2>2 DEF Queue!DropFromEnd
  <2> QED
    BY <1>1, <2>1, <2>2, <2>3 DEF Queue!Next
<1>12. ASSUME NEW position \in Counts, NEW n \in Counts, PeekArray(position, n)
       PROVE  Queue!Next
  <2>1. buffer' = buffer /\ moved' = Peeked(buffer, position, n)
    BY <1>12 DEF PeekArray
  <2>2. Peeked(buffer, position, n) = Queue!First(Queue!From(q, position), n)
    BY <1>1, <1>4, PeekedContents
  <2>3. Queue!PeekArray(position, n)
    BY <1>1, <2>1, <2>2 DEF Queue!PeekArray
  <2> QED
    BY <1>1, <2>1, <2>3 DEF Queue!Next
<1>13. CASE Clear
  <2>1. buffer' = Cleared(buffer) /\ moved' = <<>>
    BY <1>13 DEF Clear
  <2>2. Cleared(buffer) \in Rings(Elements) /\ Filled(Cleared(buffer), <<>>)
    BY <1>1, ClearedFills
  <2>3. Contents(Cleared(buffer)) = <<>> /\ Cleared(buffer).wrap = buffer.wrap
    <3>1. <<>> \in Seq(Elements)
      OBVIOUS
    <3>2. Cleared(buffer).wrap = buffer.wrap
      BY <1>1 DEF Cleared, Rings
    <3> QED
      BY <2>2, <3>1, <3>2, ContentsAre
  <2>4. Queue!Clear
    BY <1>1, <2>1, <2>3 DEF Queue!Clear
  <2> QED
    BY <1>1, <2>1, <2>3, <2>4 DEF Queue!Next
<1> QED
  BY <1>1, <1>7, <1>8, <1>9, <1>10, <1>11, <1>12, <1>13 DEF Next

(* An initialized buffer of one owner is an empty queue.                   *)
LEMMA QueueInit == SharedInit => Queue!Init
<1> SUFFICES ASSUME SharedInit PROVE Queue!Init
  OBVIOUS
<1>1. Size(buffer) = 0 /\ moved = <<>> /\ buffer.wrap \in BOOLEAN
  BY DEF SharedInit, Init, Size
<1>2. Contents(buffer) = <<>>
  BY <1>1 DEF Contents
<1> QED
  BY <1>1, <1>2 DEF Queue!Init

(* A step is one of the queue's, or is none of its owner's.                *)
LEMMA QueueStep == BaseInv /\ [SharedNext]_sharedVars => [Queue!Next]_Queue!vars
<1> SUFFICES ASSUME BaseInv, [SharedNext]_sharedVars PROVE [Queue!Next]_Queue!vars
  OBVIOUS
<1>1. CASE Owned
  BY <1>1, OwnedStep
<1>2. CASE UNCHANGED sharedVars
  BY <1>2 DEF Queue!vars
<1>3. CASE SharedNext /\ ~Owned
  <2>1. use' = use /\ use # "owned"
    <3>1. use' = use
      BY <1>3 DEF SharedNext, StartAdd, StartPop, StartClear, Start, Load, Store, InterruptAdds,
                  InterruptPops, InterruptRests, Interrupts, StartTransmission
    <3>2. ASSUME use = "owned" PROVE FALSE
      <4>1. todo = <<>> /\ Sharing(use).main = {} /\ Sharing(use).interrupt = "NONE"
        BY <3>2, OwnerAlone
      <4> QED
        BY <1>3, <3>2, <4>1 DEF SharedNext, StartAdd, StartPop, StartClear, Start, Load, Store,
             InterruptAdds, InterruptPops, InterruptRests, Interrupts, StartTransmission, Busy
    <3> QED
      BY <3>1, <3>2
  <2> QED
    BY <2>1 DEF Queue!vars
<1> QED
  BY <1>1, <1>2, <1>3

(* The buffer of one owner implements the bounded queue that               *)
(* circular_buffer.h promises: for every size and every array, no element  *)
(* is lost, doubled or out of turn but the oldest of a full buffer that    *)
(* wraps, and an array that is refused leaves no trace.                    *)
THEOREM ImplementsFifo == SharedSpec => OwnedIsQueue
<1>1. SharedInit => BaseInv
  BY BaseInit
<1>2. BaseInv /\ [SharedNext]_sharedVars => BaseInv'
  BY BaseStep
<1>3. SharedInit => Queue!Init
  BY QueueInit
<1>4. BaseInv /\ [SharedNext]_sharedVars => [Queue!Next]_Queue!vars
  BY QueueStep
<1> QED
  BY <1>1, <1>2, <1>3, <1>4, PTL DEF SharedSpec, OwnedIsQueue, Queue!Spec

-------------------------------------------------------------------------------
(***************************************************************************)
(* The queue of events: nothing comes between the statements of its        *)
(* operations, which together are an addition and a removal.               *)
(***************************************************************************)

(* What the rest of an addition makes of a buffer, from its last statement *)
(* on, and what the rest of a removal does.                                *)
End1(b) == [b EXCEPT !.full = (b.tail = b.head)]
End2(b) == End1([b EXCEPT !.empty = FALSE])
End3(b) == End2([b EXCEPT !.tail = Increased(b.tail)])
End4(b, e) == End3([b EXCEPT !.storage[b.tail] = e])
End5(b, e) == End4([b EXCEPT !.head = Increased(b.head)], e)
Taken1(b) == [b EXCEPT !.empty = (b.tail = b.head)]
Taken2(b) == Taken1([b EXCEPT !.full = FALSE])
Taken3(b) == Taken2([b EXCEPT !.head = Increased(b.head)])

SeenIsNow == seen.head = buffer.head /\ seen.tail = buffer.tail
Agreed    == moved # <<>> => moved[1] = moved[2]

(* The addition that began with b and q, and the removal.                  *)
Adding(b, q) ==
  LET kept == IF b.full THEN Tail(q) ELSE q IN
  /\ todo \in {Add1, Add2} => ideal = Append(kept, value)
  /\ todo \in {Add3, Add4, Add5} => ideal = kept
  /\ todo = Add1 => End1(buffer) = Added(b, value)
  /\ todo = Add2 => End2(buffer) = Added(b, value)
  /\ todo = Add3 => End3(buffer) = Added(b, value)
  /\ todo = Add4 => End4(buffer, value) = Added(b, value)
  /\ todo = Add5 => End5(buffer, value) = Added(b, value)

Removing(b, q) ==
  /\ q # <<>>
  /\ todo = Pop4 => buffer = b /\ ideal = q
  /\ todo \in {Pop1, Pop2, Pop3} => ideal = Tail(q)
  /\ todo = Pop1 => Taken1(buffer) = Popped(b)
  /\ todo = Pop2 => Taken2(buffer) = Popped(b)
  /\ todo = Pop3 => Taken3(buffer) = Popped(b)

Began(b, q) ==
  /\ Filled(b, q) /\ b.wrap
  /\ ~Busy => buffer = b /\ ideal = q
  /\ Busy => op \in {"ADD", "POP"}
  /\ Busy /\ op = "ADD" => Adding(b, q)
  /\ Busy /\ op = "POP" => Removing(b, q)

EventsInv ==
  use = "events" =>
    /\ \E b \in Rings(Values), q \in Seq(Values) : Began(b, q)
    /\ (loaded => SeenIsNow) /\ Agreed

(* The statements of an operation differ in number.                        *)
LEMMA LeftsDiffer ==
  /\ Len(Add1) = 1 /\ Len(Add2) = 2 /\ Len(Add3) = 3 /\ Len(Add4) = 4 /\ Len(Add5) = 5
  /\ Len(Pop1) = 1 /\ Len(Pop2) = 2 /\ Len(Pop3) = 3 /\ Len(Pop4) = 4
  /\ Len(Clear1) = 1 /\ Len(Clear2) = 2 /\ Len(Clear3) = 3 /\ Len(Clear4) = 4 /\ Len(Clear5) = 5
BY DEF Add1, Add2, Add3, Add4, Add5, Pop1, Pop2, Pop3, Pop4,
       Clear1, Clear2, Clear3, Clear4, Clear5

(* Those at the beginning of one are none of the others.                   *)
LEMMA BeginningsDiffer ==
  /\ Add5 \notin {Add1, Add2, Add3, Add4} /\ Add4 \notin {Add1, Add2, Add3, Add5}
  /\ Pop4 \notin {Pop1, Pop2, Pop3}
BY LeftsDiffer

(* The statements of an addition, one after the other, add.                *)
LEMMA AddWhole ==
  ASSUME NEW b \in Rings(Values), NEW e \in Values, ~Refuses(b)
  PROVE  /\ b.full => End5(b, e) = Added(b, e)
         /\ ~b.full => End4(b, e) = Added(b, e)
<1> DEFINE h == IF b.full THEN Increased(b.head) ELSE b.head
           ring(head, tail, empty, full, storage) ==
             [b EXCEPT !.head = head, !.tail = tail, !.empty = empty, !.full = full,
                       !.storage = storage]
           put == [b.storage EXCEPT ![b.tail] = e]
<1>1. Added(b, e) = ring(h, Increased(b.tail), FALSE, Increased(b.tail) = h, put)
  BY DEF Added
<1>2. ASSUME NEW c \in Rings(Values), c.tail = b.tail, c.storage = b.storage, c.wrap = b.wrap
      PROVE  End4(c, e) = ring(c.head, Increased(b.tail), FALSE, Increased(b.tail) = c.head, put)
  BY <1>2 DEF End4, End3, End2, End1, Rings
<1>3. ASSUME b.full PROVE End5(b, e) = Added(b, e)
  <2> DEFINE c == [b EXCEPT !.head = Increased(b.head)]
  <2>1. Increased(b.head) \in Places
    BY BufferAssumption DEF Rings, BufferAssumption, Places, Increased
  <2>2. /\ c \in Rings(Values) /\ c.tail = b.tail /\ c.storage = b.storage /\ c.wrap = b.wrap
        /\ c.head = Increased(b.head)
    BY <2>1 DEF Rings
  <2>3. End5(b, e) = End4(c, e)
    BY DEF End5
  <2> HIDE DEF c
  <2>4. End4(c, e) = ring(c.head, Increased(b.tail), FALSE, Increased(b.tail) = c.head, put)
    BY <1>2, <2>2
  <2> QED
    BY <1>1, <1>3, <2>2, <2>3, <2>4
<1>4. ASSUME ~b.full PROVE End4(b, e) = Added(b, e)
  BY <1>1, <1>2, <1>4
<1> QED
  BY <1>3, <1>4

(* Those of a removal remove.                                              *)
LEMMA PopWhole ==
  ASSUME NEW b \in Rings(Values), ~b.empty
  PROVE  Taken3(b) = Popped(b)
BY DEF Taken3, Taken2, Taken1, Popped, Rings

(* An initialized queue of events is empty, and no operation has begun.    *)
LEMMA EventsInit == SharedInit => EventsInv
<1> SUFFICES ASSUME SharedInit, use = "events" PROVE EventsInv
  BY DEF EventsInv
<1> USE BufferAssumption, SharedAssumption DEF BufferAssumption, SharedAssumption
<1>1. /\ todo = <<>> /\ ideal = <<>> /\ moved = <<>> /\ loaded = FALSE /\ buffer.wrap
      /\ buffer.head = 0 /\ buffer.tail = 0 /\ buffer.empty = TRUE /\ buffer.full = FALSE
  BY UsesAre DEF SharedInit, Init
<1>2. buffer \in Rings(Values)
  BY BaseInit, TypesMean
<1>3. Spot(0 + 0) = 0 /\ Len(<<>>) = 0 /\ DOMAIN <<>> = {}
  BY DEF Spot
<1>4. Filled(buffer, <<>>)
  BY <1>1, <1>3 DEF Filled
<1>5. Began(buffer, <<>>)
  BY <1>1, <1>4 DEF Began, Busy
<1>6. <<>> \in Seq(Values)
  BY SMTT(30)
<1> QED
  BY <1>1, <1>2, <1>5, <1>6 DEF EventsInv, Agreed

(* A statement of an addition is what the rest of it begins with, and one  *)
(* of a removal.                                                           *)
LEMMA StoredAs ==
  ASSUME BaseInv, Busy, SeenIsNow
  PROVE  /\ Head(todo) = "fullIfEqual" => Stored(Head(todo)) = End1(buffer)
         /\ Head(todo) = "notEmpty" => End1(Stored(Head(todo))) = End2(buffer)
         /\ Head(todo) = "tail" => End2(Stored(Head(todo))) = End3(buffer)
         /\ Head(todo) = "put" => End3(Stored(Head(todo))) = End4(buffer, value)
         /\ op = "ADD" /\ Head(todo) = "head" => End4(Stored(Head(todo)), value) = End5(buffer, value)
         /\ Head(todo) = "emptyIfEqual" => Stored(Head(todo)) = Taken1(buffer)
         /\ Head(todo) = "notFull" => Taken1(Stored(Head(todo))) = Taken2(buffer)
         /\ Head(todo) = "head" => Taken2(Stored(Head(todo))) = Taken3(buffer)
         /\ Head(todo) = "copy" => Stored(Head(todo)) = buffer
BY DEF SeenIsNow, Stored, End1, End2, End3, End4, End5, Taken1, Taken2, Taken3

(* A statement of an addition.                                             *)
LEMMA AddingGoesOn ==
  ASSUME BaseInv, Store, SeenIsNow, op = "ADD",
         NEW b \in Rings(Values), NEW q \in Seq(Values), Filled(b, q), b.wrap, Adding(b, q)
  PROVE  /\ Tail(todo) # <<>> => Adding(b, q)'
         /\ Tail(todo) = <<>> =>
              /\ buffer' = Added(b, value)
              /\ ideal' = Append(IF b.full THEN Tail(q) ELSE q, value)
         /\ moved' = moved
<1>1. /\ todo \in {Add1, Add2, Add3, Add4, Add5} /\ todo # <<>> /\ todo' = Tail(todo)
      /\ buffer' = Stored(Head(todo)) /\ value' = value /\ Busy
  BY LeftAre, TypesMean DEF Store, Busy
<1> DEFINE kept == IF b.full THEN Tail(q) ELSE q
<1> HIDE DEF kept
<1>2. /\ todo \in {Add1, Add2} => ideal = Append(kept, value)
      /\ todo \in {Add3, Add4, Add5} => ideal = kept
      /\ todo = Add1 => End1(buffer) = Added(b, value)
      /\ todo = Add2 => End2(buffer) = Added(b, value)
      /\ todo = Add3 => End3(buffer) = Added(b, value)
      /\ todo = Add4 => End4(buffer, value) = Added(b, value)
      /\ todo = Add5 => End5(buffer, value) = Added(b, value)
  BY DEF Adding, kept
<1>3. /\ ideal' = (IF Head(todo) = "tail" THEN Append(ideal, value) ELSE ideal)
      /\ moved' = moved /\ Head(todo) # "copy"
  BY <1>1, StatementsLeft DEF Store
<1>4. CASE todo = Add1
  BY <1>1, <1>2, <1>3, <1>4, StatementsLeft, StoredAs DEF kept
<1>5. CASE todo = Add2
  <2>1. todo' = Add1 /\ Head(todo) = "notEmpty" /\ ideal' = Append(kept, value)
    BY <1>1, <1>2, <1>3, <1>5, StatementsLeft
  <2>2. End1(buffer') = Added(b, value)
    BY <1>1, <1>2, <1>5, <2>1, StoredAs
  <2> QED
    BY SMTT(30), <1>1, <1>3, <2>1, <2>2, LeftsDiffer, StatementsLeft DEF Adding, kept
<1>6. CASE todo = Add3
  <2>1. todo' = Add2 /\ Head(todo) = "tail" /\ ideal' = Append(kept, value)
    BY <1>1, <1>2, <1>3, <1>6, StatementsLeft
  <2>2. End2(buffer') = Added(b, value)
    BY <1>1, <1>2, <1>6, <2>1, StoredAs
  <2> QED
    BY <1>1, <1>3, <2>1, <2>2, LeftsDiffer, StatementsLeft DEF Adding, kept
<1>7. CASE todo = Add4
  <2>1. todo' = Add3 /\ Head(todo) = "put" /\ ideal' = kept
    BY <1>1, <1>2, <1>3, <1>7, StatementsLeft
  <2>2. End3(buffer') = Added(b, value)
    BY <1>1, <1>2, <1>7, <2>1, StoredAs
  <2> QED
    BY <1>1, <1>3, <2>1, <2>2, LeftsDiffer, StatementsLeft DEF Adding, kept
<1>8. CASE todo = Add5
  <2>1. todo' = Add4 /\ Head(todo) = "head" /\ ideal' = kept
    BY <1>1, <1>2, <1>3, <1>8, StatementsLeft
  <2>2. End4(buffer', value') = Added(b, value)
    BY <1>1, <1>2, <1>8, <2>1, StoredAs
  <2> QED
    BY <1>1, <1>3, <2>1, <2>2, LeftsDiffer, StatementsLeft DEF Adding, kept
<1> QED
  BY <1>1, <1>4, <1>5, <1>6, <1>7, <1>8

(* A statement of a removal.                                               *)
LEMMA RemovingGoesOn ==
  ASSUME BaseInv, Store, SeenIsNow, op = "POP", Agreed,
         NEW b \in Rings(Values), NEW q \in Seq(Values), Filled(b, q), Removing(b, q)
  PROVE  /\ Tail(todo) # <<>> => Removing(b, q)'
         /\ Tail(todo) = <<>> => buffer' = Popped(b) /\ ideal' = Tail(q)
         /\ Agreed'
<1>1. /\ todo \in {Pop1, Pop2, Pop3, Pop4} /\ todo # <<>> /\ todo' = Tail(todo)
      /\ buffer' = Stored(Head(todo)) /\ Busy
  BY LeftAre, TypesMean DEF Store, Busy
<1>2. /\ q # <<>> /\ ~b.empty /\ b.storage[b.head] = Head(q)
      /\ todo = Pop4 => buffer = b /\ ideal = q
      /\ todo \in {Pop1, Pop2, Pop3} => ideal = Tail(q)
      /\ todo = Pop1 => Taken1(buffer) = Popped(b)
      /\ todo = Pop2 => Taken2(buffer) = Popped(b)
      /\ todo = Pop3 => Taken3(buffer) = Popped(b)
  <2>1. q # <<>>
    BY DEF Removing
  <2> QED
    BY <2>1, PoppedFills DEF Removing
<1>3. todo # Pop4 => ideal' = ideal /\ moved' = moved
  BY <1>1, StatementsLeft DEF Store
<1>4. CASE todo = Pop1
  BY <1>1, <1>2, <1>3, <1>4, LeftsDiffer, StatementsLeft, StoredAs DEF Agreed
<1>5. CASE todo = Pop2
  <2>1. todo' = Pop1 /\ Head(todo) = "notFull" /\ ideal' = Tail(q) /\ moved' = moved
    BY <1>1, <1>2, <1>3, <1>5, LeftsDiffer, StatementsLeft
  <2>2. Taken1(buffer') = Popped(b)
    BY <1>1, <1>2, <1>5, <2>1, StoredAs
  <2> QED
    BY <1>1, <1>2, <2>1, <2>2, LeftsDiffer, StatementsLeft DEF Removing, Agreed
<1>6. CASE todo = Pop3
  <2>1. todo' = Pop2 /\ Head(todo) = "head" /\ ideal' = Tail(q) /\ moved' = moved
    BY <1>1, <1>2, <1>3, <1>6, LeftsDiffer, StatementsLeft
  <2>2. Taken2(buffer') = Popped(b)
    BY <1>1, <1>2, <1>6, <2>1, StoredAs
  <2> QED
    BY <1>1, <1>2, <2>1, <2>2, LeftsDiffer, StatementsLeft DEF Removing, Agreed
<1>7. CASE todo = Pop4
  <2>1. todo' = Pop3 /\ Head(todo) = "copy" /\ buffer = b /\ ideal = q
    BY <1>1, <1>2, <1>7, StatementsLeft
  <2>2. ideal' = Tail(q) /\ moved' = <<b.storage[b.head], Head(q)>>
    BY <1>2, <2>1 DEF Store, SeenIsNow, Rest, Oldest
  <2>3. Taken3(buffer') = Popped(b)
    BY <1>1, <1>2, <2>1, PopWhole, StoredAs
  <2> QED
    BY <1>1, <1>2, <2>1, <2>2, <2>3, LeftsDiffer, StatementsLeft DEF Removing, Agreed
<1> QED
  BY <1>1, <1>4, <1>5, <1>6, <1>7

(* Every step keeps what the queue of events was when the operation began, *)
(* and how far it has come.                                                *)
LEMMA EventsStep == BaseInv /\ EventsInv /\ [SharedNext]_sharedVars => EventsInv'
<1> SUFFICES ASSUME BaseInv, EventsInv, [SharedNext]_sharedVars, use' = "events" PROVE EventsInv'
  BY DEF EventsInv
<1> USE TypesMean
<1>1. use = "events"
  BY DEF SharedNext, StartAdd, StartPop, StartClear, Start, Load, Store, InterruptAdds,
         InterruptPops, InterruptRests, Interrupts, StartTransmission, Owned
<1>2. (loaded => SeenIsNow) /\ Agreed
  BY <1>1 DEF EventsInv
<1>3. PICK b \in Rings(Values), q \in Seq(Values) : Began(b, q)
  BY <1>1 DEF EventsInv
<1>4. /\ Filled(b, q) /\ b.wrap /\ ~Refuses(b)
      /\ ~Busy => buffer = b /\ ideal = q /\ ~loaded
      /\ Busy => op \in {"ADD", "POP"}
      /\ Busy /\ op = "ADD" => Adding(b, q)
      /\ Busy /\ op = "POP" => Removing(b, q)
  BY <1>3 DEF Began, Refuses, BaseInv, ControlInv, Busy
<1>5. /\ b.full => q # <<>> /\ Rest(q) = Tail(q)
      /\ Tail(q) \in Seq(Values) \/ q = <<>>
  BY <1>4, BufferAssumption DEF Filled, BufferAssumption, Rest
<1>6. CASE UNCHANGED sharedVars
  <2>1. /\ buffer' = buffer /\ ideal' = ideal /\ todo' = todo /\ op' = op /\ value' = value
        /\ loaded' = loaded /\ seen' = seen /\ moved' = moved
    BY <1>6 DEF vars
  <2>2. Began(b, q)'
    BY <1>3, <2>1 DEF Began, Adding, Removing, Busy
  <2> QED
    BY <1>2, <2>1, <2>2 DEF EventsInv, SeenIsNow, Agreed
<1>7. CASE StartAdd
  <2>1. /\ buffer' = buffer /\ moved' = moved /\ ~Busy /\ op' = "ADD" /\ ~loaded'
        /\ todo' = IF buffer.full THEN Add5 ELSE Add4
        /\ ideal' = IF buffer.full THEN Rest(ideal) ELSE ideal
    BY <1>4, <1>7, StatementsAre DEF StartAdd, Start
  <2>2. value' \in Values
    BY <1>7, BaseStep DEF BaseInv, SharedTypeOK, Values
  <2>3. /\ buffer = b /\ ideal = q /\ ideal' = IF b.full THEN Tail(q) ELSE q
        /\ b.full => End5(b, value') = Added(b, value')
        /\ ~b.full => End4(b, value') = Added(b, value')
    BY <1>4, <1>5, <2>1, <2>2, AddWhole
  <2>4. Adding(b, q)'
    <3>1. CASE b.full
      <4>1. todo' = Add5 /\ ideal' = Tail(q) /\ End5(buffer', value') = Added(b, value')
        BY <2>1, <2>3, <3>1
      <4>2. Add5 \notin {Add1, Add2, Add3, Add4}
        BY BeginningsDiffer
      <4> HIDE TypesMean
      <4> QED
        BY <3>1, <4>1, <4>2 DEF Adding
    <3>2. CASE ~b.full
      <4>1. todo' = Add4 /\ ideal' = q /\ End4(buffer', value') = Added(b, value')
        BY <2>1, <2>3, <3>2
      <4>2. Add4 \notin {Add1, Add2, Add3, Add5}
        BY BeginningsDiffer
      <4> HIDE TypesMean
      <4> QED
        BY <3>2, <4>1, <4>2 DEF Adding
    <3> QED
      BY <3>1, <3>2
  <2>5. Began(b, q)'
    BY <1>4, <2>1, <2>4, StatementsLeft DEF Began, Busy
  <2> QED
    BY <1>2, <2>1, <2>5 DEF EventsInv, Agreed
<1>8. CASE StartPop
  <2>1. /\ buffer' = buffer /\ moved' = moved /\ ~Busy /\ op' = "POP" /\ ~loaded'
        /\ todo' = Pop4 /\ ideal' = ideal /\ ~buffer.empty
    BY <1>4, <1>8, StatementsAre DEF StartPop, Start
  <2>2. q # <<>>
    <3>1. Filled(b, q) /\ ~b.empty /\ Len(<<>>) = 0
      BY <1>4, <2>1
    <3> QED
      BY <3>1 DEF Filled
  <2>3. Removing(b, q)'
    <3>1. Pop4 \notin {Pop1, Pop2, Pop3} /\ buffer' = b /\ ideal' = q
      BY <1>4, <2>1, BeginningsDiffer
    <3> HIDE TypesMean
    <3> QED
      BY <2>1, <2>2, <3>1 DEF Removing
  <2>4. Began(b, q)'
    BY <1>4, <2>1, <2>3, StatementsLeft DEF Began, Busy
  <2> QED
    BY <1>2, <2>1, <2>4 DEF EventsInv, Agreed
<1>9. CASE StartClear
  BY <1>1, <1>9, UsesAre DEF StartClear, Start
<1>10. CASE Load
  <2>1. /\ buffer' = buffer /\ ideal' = ideal /\ todo' = todo /\ op' = op /\ value' = value
        /\ moved' = moved /\ seen' = [head |-> buffer.head, tail |-> buffer.tail]
    BY <1>10 DEF Load
  <2>2. Began(b, q)'
    BY <1>3, <2>1 DEF Began, Adding, Removing, Busy
  <2> QED
    BY <1>2, <2>1, <2>2 DEF EventsInv, SeenIsNow, Agreed
<1>11. CASE Store
  <2>1. /\ todo' = Tail(todo) /\ op' = op /\ ~loaded' /\ Busy /\ SeenIsNow
        /\ op \in {"ADD", "POP"}
    BY <1>2, <1>4, <1>11 DEF Store
  <2>2. buffer' \in Rings(Values) /\ ideal' \in Seq(Values)
    BY BaseStep DEF BaseInv, SharedTypeOK, Values, Rings
  <2>3. CASE op = "ADD"
    <3>1. /\ Tail(todo) # <<>> => Adding(b, q)'
          /\ Tail(todo) = <<>> => /\ buffer' = Added(b, value)
                                  /\ ideal' = Append(IF b.full THEN Tail(q) ELSE q, value)
          /\ moved' = moved
      BY <1>4, <1>11, <2>1, <2>3, AddingGoesOn
    <3>2. CASE Tail(todo) # <<>>
      <4>1. Began(b, q)'
        BY <1>4, <2>1, <2>3, <3>1, <3>2 DEF Began, Busy
      <4> QED
        BY <1>2, <2>1, <3>1, <4>1 DEF EventsInv, Agreed
    <3>3. CASE Tail(todo) = <<>>
      <4>1. value \in Values
        OBVIOUS
      <4>2. Filled(buffer', ideal')
        <5>1. Filled(Added(b, value), Append(IF b.full THEN Tail(q) ELSE q, value))
          BY <1>4, <4>1, AddedFills
        <5> QED
          BY <3>1, <3>3, <5>1
      <4>3. buffer'.wrap
        <5>1. Added(b, value).wrap = b.wrap
          BY <4>1, RingsKept
        <5> QED
          BY <1>4, <3>1, <3>3, <5>1
      <4>4. Began(buffer, ideal)'
        BY <2>1, <3>3, <4>2, <4>3 DEF Began, Busy
      <4> QED
        BY <1>2, <2>1, <2>2, <3>1, <4>4 DEF EventsInv, Agreed
    <3> QED
      BY <3>2, <3>3
  <2>4. CASE op = "POP"
    <3>0. q # <<>>
      BY <1>4, <2>1, <2>4 DEF Removing
    <3>1. /\ Tail(todo) # <<>> => Removing(b, q)'
          /\ Tail(todo) = <<>> => buffer' = Popped(b) /\ ideal' = Tail(q)
          /\ Agreed'
      BY <1>2, <1>4, <1>11, <2>1, <2>4, RemovingGoesOn
    <3>2. CASE Tail(todo) # <<>>
      <4>1. Began(b, q)'
        BY <1>4, <2>1, <2>4, <3>1, <3>2 DEF Began, Busy
      <4> QED
        BY <2>1, <3>1, <4>1 DEF EventsInv
    <3>3. CASE Tail(todo) = <<>>
      <4>1. Filled(buffer', ideal')
        <5>1. Filled(Popped(b), Tail(q))
          BY <1>4, <3>0, PoppedFills
        <5> QED
          BY <3>1, <3>3, <5>1
      <4>2. buffer'.wrap
        BY <1>4, <3>1, <3>3, RingsKept
      <4>3. Began(buffer, ideal)'
        BY <2>1, <3>3, <4>1, <4>2 DEF Began, Busy
      <4> QED
        BY <2>1, <2>2, <3>1, <4>3 DEF EventsInv
    <3> QED
      BY <3>2, <3>3
  <2> QED
    BY <2>1, <2>3, <2>4
<1>12. CASE InterruptAdds
  <2>1. ~Busy
    BY <1>1, <1>4, <1>12 DEF InterruptAdds, Interrupts, Disabled, Locked
  <2>2. /\ todo' = todo /\ loaded' = loaded /\ moved' = moved /\ buffer = b /\ ideal = q
        /\ buffer' = Added(b, added + 1)
        /\ ideal' = Append(IF b.full THEN Tail(q) ELSE q, added + 1)
    BY <1>4, <1>5, <1>12, <2>1 DEF InterruptAdds, Interrupts
  <2>3. added + 1 \in Values
    BY <1>12, SharedAssumption DEF InterruptAdds, Numbers, Values, SharedAssumption
  <2>4. Filled(buffer', ideal') /\ buffer'.wrap
    BY <1>4, <2>2, <2>3, AddedFills, RingsKept
  <2>5. buffer' \in Rings(Values) /\ ideal' \in Seq(Values)
    BY BaseStep DEF BaseInv, SharedTypeOK, Values, Rings
  <2>6. Began(buffer, ideal)'
    BY <2>1, <2>2, <2>4 DEF Began, Busy
  <2> QED
    BY <1>2, <1>4, <2>1, <2>2, <2>5, <2>6 DEF EventsInv, Agreed
<1>13. CASE InterruptPops \/ InterruptRests \/ StartTransmission \/ Owned
  BY <1>1, <1>13, UsesAre DEF InterruptPops, InterruptRests, Interrupts, StartTransmission, Owned
<1> QED
  BY <1>6, <1>7, <1>8, <1>9, <1>10, <1>11, <1>12, <1>13 DEF SharedNext

(* What both theorems below follow from.                                   *)
LEMMA EventsKept == SharedSpec => [](BaseInv /\ EventsInv)
<1>1. SharedInit => BaseInv /\ EventsInv
  BY BaseInit, EventsInit
<1>2. BaseInv /\ EventsInv /\ [SharedNext]_sharedVars => (BaseInv /\ EventsInv)'
  BY BaseStep, EventsStep
<1> QED
  BY <1>1, <1>2, PTL DEF SharedSpec

(* The queue of events holds, between the operations of a state machine,   *)
(* every event that was added and not yet taken, in the order they were    *)
(* added, but for the oldest of a full queue: add_event_type and pop_event *)
(* disable the interrupts.                                                 *)
THEOREM EventsAreAQueue == SharedSpec => []LockedIsQueue
<1>1. BaseInv /\ EventsInv => LockedIsQueue
  <2> SUFFICES ASSUME BaseInv, EventsInv, use = "events", ~Busy PROVE Contents(buffer) = ideal
    BY DEF LockedIsQueue
  <2>1. PICK b \in Rings(Values), q \in Seq(Values) : Began(b, q)
    BY DEF EventsInv
  <2>2. buffer = b /\ ideal = q /\ Filled(b, q)
    BY <2>1 DEF Began
  <2> QED
    BY <2>2, ContentsAre
<1> QED
  BY <1>1, EventsKept, PTL

(* Where no interrupt comes between the statements, exactly one of the     *)
(* flags is set when the positions are equal, and none otherwise: the      *)
(* size that the firmware computes from them is that of a queue.           *)
THEOREM FlagsAlwaysTell == SharedSpec => []FlagsTell
<1>1. BaseInv /\ EventsInv => FlagsTell
  <2> SUFFICES ASSUME BaseInv, EventsInv, use \in {"owned", "events"}, ~Busy
               PROVE  Consistent(buffer)
    BY DEF FlagsTell, FlagsTellSize
  <2>1. CASE use = "owned"
    BY <2>1 DEF BaseInv, OwnedInv
  <2>2. CASE use = "events"
    <3>1. PICK b \in Rings(Values), q \in Seq(Values) : Began(b, q)
      BY <2>2 DEF EventsInv
    <3>2. buffer = b /\ Filled(b, q)
      BY <3>1 DEF Began
    <3> QED
      BY <3>2, FilledMeans
  <2> QED
    BY <2>1, <2>2
<1> QED
  BY <1>1, EventsKept, PTL

-------------------------------------------------------------------------------
(***************************************************************************)
(* What an interrupt in the middle of an operation does, when one          *)
(* operation sees at most one: see MaxInterrupts.                          *)
(***************************************************************************)

(* The array holds q from the head h to the tail, whatever the flags say.  *)
Lies(b, h, q) ==
  /\ Len(q) <= StorageSize /\ b.tail = Spot(h + Len(q))
  /\ \A i \in DOMAIN q : b.storage[Spot(h + i - 1)] = q[i]

(* The flags tell whether it is full; it may look empty when it is not.    *)
FullTells == buffer.full <=> Len(ideal) = StorageSize

FlagsTrail ==
  /\ Lies(buffer, buffer.head, ideal) /\ FullTells
  /\ ideal = <<>> => buffer.empty

(* An interrupt has added to a full buffer, or between the statements of   *)
(* an addition.                                                            *)
Lost == crossed \/ (buffer.wrap /\ overrun)

(* The statements of a removal that the interrupt adds to.                 *)
TakenPop ==
  /\ todo = Pop4 => /\ ideal # <<>> /\ (loaded => seen.head = buffer.head)
  /\ todo = Pop3 => /\ Lies(buffer, Increased(buffer.head), ideal)
                    /\ Len(ideal) < StorageSize
                    /\ buffer.full <=> Len(ideal) + 1 = StorageSize
                    /\ loaded => seen.head = buffer.head
  /\ todo = Pop2 => /\ Lies(buffer, buffer.head, ideal) /\ Len(ideal) < StorageSize
                    /\ ~buffer.full /\ interrupts = 0 => Len(ideal) + 1 < StorageSize
  /\ todo = Pop1 => /\ Lies(buffer, buffer.head, ideal) /\ FullTells
                    /\ loaded => /\ seen.head = buffer.head
                                 /\ ideal = <<>> => seen.tail = buffer.tail

(* The statements of an addition that no interrupt has added to.           *)
TakenAdd ==
  /\ loaded => SeenIsNow
  /\ Lies(buffer, buffer.head, ideal)
  /\ todo \in {Add3, Add4} => Len(ideal) < StorageSize
  /\ todo = Add3 => buffer.storage[buffer.tail] = value
  /\ todo \in {Add1, Add2} => ideal # <<>>
  /\ todo # Add5

(* The statements of a clear: from the zero of both positions on there is  *)
(* what an interrupt adds, and the flags that it leaves are not set back   *)
(* without its element being erased.                                       *)
TakenClear ==
  /\ todo # Clear5 => buffer.head = 0
  /\ todo \in {Clear1, Clear2, Clear3} => /\ Lies(buffer, buffer.head, ideal)
                                         /\ Len(ideal) <= interrupts
  /\ todo = Clear1 => ~buffer.full
  /\ todo \in {Clear1, Clear2} /\ ideal = <<>> => buffer.empty

TakenInv ==
  use \in {"commands", "readings"} /\ ~Lost =>
    /\ Agreed /\ TakenPop
    /\ todo \in {<<>>, Pop4} => FlagsTrail
    /\ op = "ADD" /\ Busy => TakenAdd
    /\ op = "CLEAR" /\ Busy => TakenClear

(* The statements of an addition that the interrupt may take from.         *)
ResponsesInv ==
  use = "responses" =>
    /\ Agreed /\ Lies(buffer, buffer.head, ideal)
    /\ todo # Add2 => (buffer.empty <=> ideal = <<>>)
    /\ todo = <<>> /\ Len(ideal) = StorageSize => buffer.full
    /\ todo \in {Add3, Add4} => /\ Len(ideal) < StorageSize
                                /\ loaded => seen.tail = buffer.tail
    /\ todo = Add3 => buffer.storage[buffer.tail] = value
    /\ todo = Add2 => /\ ideal # <<>>
                      /\ ~buffer.empty /\ interrupts = 0 => Len(ideal) > 1
    /\ todo = Add1 /\ loaded /\ seen.tail # seen.head => Len(ideal) < StorageSize
    /\ todo # Add5

(* The statements of a clear.                                              *)
ClearInv ==
  op = "CLEAR" /\ ~overrun =>
    /\ todo # Clear5 => buffer.head = 0
    /\ todo \in {<<>>, Clear1, Clear2, Clear3} =>
         \/ /\ buffer.tail = 0
            /\ todo # Clear3 => buffer.empty
            /\ todo \notin {Clear3, Clear2} => ~buffer.full
         \/ /\ interrupts = 1 /\ buffer.tail = Increased(0)
            /\ todo \notin {Clear3, Clear2} /\ buffer.full => StorageSize = 1
            /\ todo = <<>> => buffer.storage[0] = Zero

(* Where the elements lie depends on the tail and the array only.          *)
LEMMA LiesSame ==
  ASSUME NEW V, NEW b \in Rings(V), NEW c \in Rings(V), NEW h, NEW q, Lies(b, h, q),
         c.tail = b.tail, c.storage = b.storage
  PROVE  Lies(c, h, q)
BY DEF Lies

(* A queue that ends where it begins is empty or full.                     *)
LEMMA LiesRound ==
  ASSUME NEW V, NEW b \in Rings(V), NEW h \in Places, NEW q \in Seq(V), Lies(b, h, q)
  PROVE  /\ b.tail = h <=> Len(q) \in {0, StorageSize}
         /\ Len(q) \in 0..StorageSize
<1>1. Len(q) \in 0..StorageSize /\ b.tail = Spot(h + Len(q))
  BY BufferAssumption DEF Lies, BufferAssumption
<1>2. Spot(h + 0) = h /\ (Len(q) = StorageSize => Spot(h + Len(q)) = h)
      /\ (Spot(h + Len(q)) = h => Len(q) \in {0, StorageSize})
  BY <1>1, Spots
<1> QED
  BY <1>1, <1>2

(* An element stored where the tail is.                                    *)
AtTail(b, e) == [b.storage EXCEPT ![b.tail] = e]

(* It is not one of the queue yet.                                         *)
LEMMA LiesPut ==
  ASSUME NEW V, NEW b \in Rings(V), NEW h \in Places, NEW q \in Seq(V), Lies(b, h, q),
         Len(q) < StorageSize, NEW e \in V, NEW c \in Rings(V), c.tail = b.tail,
         c.storage = AtTail(b, e)
  PROVE  Lies(c, h, q) /\ c.storage[c.tail] = e
<1> USE DEF AtTail
<1> USE BufferAssumption DEF BufferAssumption
<1>1. /\ Len(q) \in 0..StorageSize /\ Len(q) # StorageSize /\ b.tail = Spot(h + Len(q))
      /\ \A i \in 1..Len(q) : b.storage[Spot(h + i - 1)] = q[i]
      /\ b.tail \in Places /\ b.storage \in [Places -> V]
  BY DEF Lies, Rings
<1>2. ASSUME NEW i \in 1..Len(q) PROVE c.storage[Spot(h + i - 1)] = q[i]
  <2> DEFINE m == i - 1
             n == Len(q)
  <2>1. m \in 0..StorageSize /\ n \in 0..StorageSize /\ m # n /\ m # StorageSize /\ n # StorageSize
        /\ h + i - 1 = h + m
    BY <1>1 DEF Places
  <2> HIDE DEF m, n
  <2>2. Spot(h + m) # Spot(h + n) /\ Spot(h + m) \in Places
    BY <2>1, Spots, SpotsDiffer
  <2>3. c.storage[Spot(h + m)] = b.storage[Spot(h + m)]
    BY <1>1, <2>2 DEF n
  <2> QED
    BY <1>1, <2>1, <2>3
<1>3. c.storage[b.tail] = e
  BY <1>1
<1>4. DOMAIN q = 1..Len(q) /\ Len(q) <= StorageSize
  BY <1>1
<1> QED
  BY <1>1, <1>2, <1>3, <1>4 DEF Lies

(* The tail behind it.                                                     *)
LEMMA LiesAppend ==
  ASSUME NEW V, NEW b \in Rings(V), NEW h \in Places, NEW q \in Seq(V), Lies(b, h, q),
         Len(q) < StorageSize, NEW e \in V, b.storage[b.tail] = e,
         NEW c \in Rings(V), c.tail = Increased(b.tail), c.storage = b.storage
  PROVE  Lies(c, h, Append(q, e))
<1> USE BufferAssumption DEF BufferAssumption
<1> DEFINE n == Len(q)
           p == Append(q, e)
<1>1. /\ n \in 0..StorageSize /\ n # StorageSize /\ n + 1 <= StorageSize /\ b.tail = Spot(h + n)
      /\ \A i \in 1..n : b.storage[Spot(h + i - 1)] = q[i]
  BY DEF Lies
<1>2. Increased(Spot(h + n)) = Spot(h + n + 1)
  <2> HIDE DEF n
  <2> QED
    BY <1>1, Spots
<1>3. p \in Seq(V) /\ Len(p) = n + 1 /\ p[n + 1] = e /\ (\A i \in 1..n : p[i] = q[i])
  OBVIOUS
<1>4. h + (n + 1) = h + n + 1 /\ h + (n + 1) - 1 = h + n /\ n \in Nat
  BY <1>1 DEF Places
<1> HIDE DEF p, n
<1>5. ASSUME NEW i \in 1..(n + 1) PROVE c.storage[Spot(h + i - 1)] = p[i]
  <2>1. CASE i \in 1..n
    BY <1>1, <1>3, <2>1
  <2>2. CASE i = n + 1
    BY <1>1, <1>3, <1>4, <2>2
  <2> QED
    BY <1>4, <2>1, <2>2
<1>6. DOMAIN p = 1..(n + 1) /\ c.tail = Spot(h + Len(p))
  BY <1>1, <1>2, <1>3, <1>4
<1> QED
  BY <1>1, <1>3, <1>5, <1>6 DEF Lies, p

(* The head behind the first.                                              *)
LEMMA LiesTail ==
  ASSUME NEW V, NEW b \in Rings(V), NEW h \in Places, NEW q \in Seq(V), Lies(b, h, q), q # <<>>
  PROVE  /\ Lies(b, Increased(h), Tail(q)) /\ b.storage[h] = Head(q)
         /\ Tail(q) \in Seq(V) /\ Len(Tail(q)) + 1 = Len(q) /\ Len(Tail(q)) < StorageSize
         /\ Len(Tail(q)) \in Nat /\ Increased(h) \in Places
<1> USE BufferAssumption DEF BufferAssumption
<1> DEFINE n == Len(q)
           p == Tail(q)
<1>1. /\ n \in 1..StorageSize /\ b.tail = Spot(h + n)
      /\ \A i \in 1..n : b.storage[Spot(h + i - 1)] = q[i]
  BY DEF Lies
<1>2. /\ p \in Seq(V) /\ Len(p) = n - 1 /\ DOMAIN p = 1..(n - 1)
      /\ (\A i \in 1..(n - 1) : p[i] = q[i + 1] /\ i + 1 \in 1..n) /\ Head(q) = q[1] /\ 1 \in 1..n
  BY <1>1
<1> HIDE DEF p, n
<1>3. /\ Spot(Increased(h) + (n - 1)) = Spot(h + n) /\ Increased(h) \in Places
      /\ h \in Nat
  BY <1>1, Spots DEF Places
<1>4. ASSUME NEW i \in 1..(n - 1) PROVE b.storage[Spot(Increased(h) + i - 1)] = p[i]
  <2>1. i \in 0..StorageSize /\ i # 0
    BY <1>1
  <2>2. Spot(Increased(h) + (i - 1)) = Spot(h + i)
    BY <2>1, Spots
  <2>3. Increased(h) + (i - 1) = Increased(h) + i - 1 /\ h + (i + 1) - 1 = h + i
    BY <1>3, <2>1 DEF Places
  <2>4. b.storage[Spot(h + (i + 1) - 1)] = q[i + 1]
    BY <1>1, <1>2, <1>4
  <2> QED
    BY <1>2, <2>2, <2>3, <2>4
<1>5. b.storage[h] = Head(q)
  <2>1. h + 1 - 1 = h + 0 /\ h + 0 = h
    BY <1>3
  <2>2. Spot(h + 0) = h
    <3>1. 0 \in 0..StorageSize
      OBVIOUS
    <3> QED
      BY <3>1, Spots
  <2> QED
    BY <1>1, <1>2, <2>1, <2>2
<1>6. Lies(b, Increased(h), p)
  <2>1. Len(p) <= StorageSize /\ b.tail = Spot(Increased(h) + Len(p))
    BY <1>1, <1>2, <1>3
  <2> QED
    BY <1>2, <1>4, <2>1 DEF Lies
<1> QED
  BY <1>1, <1>2, <1>3, <1>5, <1>6 DEF p, n

(* An interrupt adds to a buffer that does not look full, whose elements   *)
(* lie from h on.                                                          *)
LEMMA AddedLies ==
  ASSUME NEW V, NEW b \in Rings(V), NEW h \in Places, NEW q \in Seq(V), Lies(b, h, q),
         Len(q) < StorageSize, NEW e \in V, ~b.full
  PROVE  /\ Lies(Added(b, e), h, Append(q, e)) /\ Added(b, e).head = b.head
         /\ Added(b, e).full <=> Increased(b.tail) = b.head
         /\ h = b.head => (Added(b, e).full <=> Len(q) + 1 = StorageSize)
         /\ ~Added(b, e).empty /\ Len(Append(q, e)) = Len(q) + 1 /\ Append(q, e) # <<>>
<1> DEFINE put == [b EXCEPT !.storage[b.tail] = e]
           c == Added(b, e)
<1>1. /\ put \in Rings(V) /\ put.tail = b.tail /\ put.storage = AtTail(b, e)
      /\ c \in Rings(V) /\ c.tail = Increased(put.tail) /\ c.storage = put.storage
      /\ c.head = b.head /\ c.empty = FALSE /\ c.full = (Increased(b.tail) = b.head)
  <2>1. put \in Rings(V) /\ put.tail = b.tail /\ put.storage = AtTail(b, e)
    BY DEF Rings, AtTail
  <2>2. c \in Rings(V)
    BY RingsKept
  <2>3. /\ c.tail = Increased(b.tail) /\ c.storage = AtTail(b, e)
        /\ c.head = b.head /\ c.empty = FALSE /\ c.full = (Increased(b.tail) = b.head)
    BY DEF Added, Refuses, Rings, AtTail
  <2> QED
    BY <2>1, <2>2, <2>3
<1> HIDE DEF put, c
<1>2. Lies(put, h, q) /\ put.storage[put.tail] = e
  BY <1>1, LiesPut
<1>3. Lies(c, h, Append(q, e))
  BY <1>1, <1>2, LiesAppend
<1>4. Append(q, e) \in Seq(V) /\ Len(Append(q, e)) = Len(q) + 1 /\ Len(q) \in Nat
  OBVIOUS
<1>5. h = b.head => (c.full <=> Len(q) + 1 = StorageSize)
  <2>1. (c.tail = h) <=> Len(Append(q, e)) \in {0, StorageSize}
    BY <1>1, <1>3, <1>4, LiesRound
  <2>2. c.full = (c.tail = b.head)
    BY <1>1
  <2>3. Len(Append(q, e)) \in {0, StorageSize} <=> Len(q) + 1 = StorageSize
    BY <1>4
  <2> QED
    BY <2>1, <2>2, <2>3
<1>6. Append(q, e) # <<>>
  BY <1>4
<1>7. c.full <=> Increased(b.tail) = b.head
  BY <1>1
<1> QED
  BY <1>1, <1>3, <1>4, <1>5, <1>6, <1>7 DEF c

(* An interrupt takes from a buffer that does not look empty.              *)
LEMMA PoppedLies ==
  ASSUME NEW V, NEW b \in Rings(V), NEW q \in Seq(V), Lies(b, b.head, q), q # <<>>, ~b.empty
  PROVE  /\ Lies(Popped(b), Popped(b).head, Tail(q)) /\ Popped(b).tail = b.tail
         /\ Popped(b).storage = b.storage /\ ~Popped(b).full
         /\ Popped(b).empty <=> Tail(q) = <<>>
         /\ b.storage[b.head] = Head(q)
<1> DEFINE c == Popped(b)
<1>1. /\ c \in Rings(V) /\ c.tail = b.tail /\ c.storage = b.storage /\ c.full = FALSE
      /\ c.head = Increased(b.head) /\ c.empty = (b.tail = Increased(b.head)) /\ b.head \in Places
  <2>0. Head(q) \in V
    OBVIOUS
  <2>1. c \in Rings(V) /\ b.head \in Places
    BY <2>0, RingsKept DEF Rings
  <2> QED
    BY <2>1 DEF Popped, Rings
<1> HIDE DEF c
<1>2. /\ Lies(b, Increased(b.head), Tail(q)) /\ b.storage[b.head] = Head(q)
      /\ Tail(q) \in Seq(V) /\ Len(Tail(q)) < StorageSize /\ Increased(b.head) \in Places
      /\ Len(Tail(q)) \in Nat
  BY <1>1, LiesTail
<1>3. Lies(c, Increased(b.head), Tail(q))
  BY <1>1, <1>2, LiesSame
<1>4. b.tail = Increased(b.head) <=> Len(Tail(q)) \in {0, StorageSize}
  BY <1>2, LiesRound
<1>5. Tail(q) = <<>> <=> Len(Tail(q)) = 0
  <2> DEFINE p == Tail(q)
  <2>1. p \in Seq(V)
    BY <1>2
  <2> HIDE DEF p
  <2>2. p = <<>> <=> Len(p) = 0
    BY <2>1
  <2> QED
    BY <2>2 DEF p
<1>6. c.empty <=> Tail(q) = <<>>
  <2>1. c.empty <=> Len(Tail(q)) \in {0, StorageSize}
    BY <1>1, <1>4
  <2>2. Len(Tail(q)) # StorageSize
    BY <1>2, BufferAssumption DEF BufferAssumption
  <2> QED
    BY <1>5, <2>1, <2>2
<1> QED
  BY <1>1, <1>2, <1>3, <1>6 DEF c

-------------------------------------------------------------------------------
(***************************************************************************)
(* Commands and readings, which an interrupt adds to.                      *)
(***************************************************************************)

(* What is left of an operation tells which operation it is.               *)
LEMMA LeftsTell ==
  /\ Pop1 \notin {<<>>, Pop2, Pop3, Pop4, Add1, Add2, Add3, Add4, Add5}
  /\ Pop2 \notin {<<>>, Pop1, Pop3, Pop4, Add1, Add2, Add3, Add4, Add5}
  /\ Pop3 \notin {<<>>, Pop1, Pop2, Pop4, Add1, Add2, Add3, Add4, Add5}
  /\ Pop4 \notin {<<>>, Pop1, Pop2, Pop3, Add1, Add2, Add3, Add4, Add5}
  /\ Add1 \notin {<<>>, Pop1, Pop2, Pop3, Pop4, Add2, Add3, Add4, Add5}
  /\ Add2 \notin {<<>>, Pop1, Pop2, Pop3, Pop4, Add1, Add3, Add4, Add5}
  /\ Add3 \notin {<<>>, Pop1, Pop2, Pop3, Pop4, Add1, Add2, Add4, Add5}
  /\ Add4 \notin {<<>>, Pop1, Pop2, Pop3, Pop4, Add1, Add2, Add3, Add5}
  /\ Add5 \notin {<<>>, Pop1, Pop2, Pop3, Pop4, Add1, Add2, Add3, Add4}
BY LeftsDiffer, StatementsLeft

(* The statements of a clear, from one another.                            *)
LEMMA ClearsDiffer ==
  /\ Clear1 \notin {<<>>, Clear2, Clear3, Clear4, Clear5}
  /\ Clear2 \notin {<<>>, Clear1, Clear3, Clear4, Clear5}
  /\ Clear3 \notin {<<>>, Clear1, Clear2, Clear4, Clear5}
  /\ Clear4 \notin {<<>>, Clear1, Clear2, Clear3, Clear5}
  /\ Clear5 \notin {<<>>, Clear1, Clear2, Clear3, Clear4}
BY LeftsDiffer, StatementsLeft

(* They are no part of a removal, nor all of it.                           *)
LEMMA ClearsTell ==
  \A s \in {Clear1, Clear2, Clear3, Clear4, Clear5} : s \notin {Pop1, Pop2, Pop3, Pop4}
BY LeftsDiffer, StatementsLeft

(* The statements that may be next.                                        *)
LEMMA NextStatement ==
  ASSUME BaseInv, Busy
  PROVE  /\ op = "ADD" => todo \in {Add1, Add2, Add3, Add4, Add5}
         /\ op = "POP" => todo \in {Pop1, Pop2, Pop3, Pop4}
         /\ op = "CLEAR" => todo \in {Clear1, Clear2, Clear3, Clear4, Clear5}
         /\ op \in {"ADD", "POP", "CLEAR"}
         /\ Head(todo) \in {"head", "put", "tail", "notEmpty", "fullIfEqual", "copy", "notFull",
                            "emptyIfEqual", "headZero", "tailZero", "setEmpty", "erase"}
<1>1. /\ op = "ADD" => todo \in {Add1, Add2, Add3, Add4, Add5}
      /\ op = "POP" => todo \in {Pop1, Pop2, Pop3, Pop4}
      /\ op = "CLEAR" => todo \in {Clear1, Clear2, Clear3, Clear4, Clear5}
      /\ op \in {"ADD", "POP", "CLEAR"}
  BY TypesMean, LeftAre DEF Busy, Operations
<1> QED
  BY ZenonT(40), <1>1, StatementsLeft

(* What a statement leaves alone.                                          *)
LEMMA StoredParts ==
  ASSUME BaseInv, Store
  PROVE  /\ Head(todo) # "head" /\ Head(todo) # "headZero" => buffer'.head = buffer.head
         /\ Head(todo) # "tail" /\ Head(todo) # "tailZero" => buffer'.tail = buffer.tail
         /\ Head(todo) # "put" /\ Head(todo) # "erase" => buffer'.storage = buffer.storage
         /\ Head(todo) \notin {"notEmpty", "emptyIfEqual", "setEmpty"} => buffer'.empty = buffer.empty
         /\ Head(todo) \notin {"notFull", "fullIfEqual"} => buffer'.full = buffer.full
         /\ Head(todo) = "headZero" => buffer'.head = 0
         /\ Head(todo) = "head" => buffer'.head = Increased(seen.head)
         /\ Head(todo) = "tail" => buffer'.tail = Increased(seen.tail)
         /\ Head(todo) = "put" => buffer'.storage = [buffer.storage EXCEPT ![seen.tail] = value]
         /\ Head(todo) = "notEmpty" => buffer'.empty = FALSE
         /\ Head(todo) = "notFull" => buffer'.full = FALSE
         /\ Head(todo) = "fullIfEqual" => buffer'.full = (seen.tail = seen.head)
         /\ Head(todo) = "emptyIfEqual" => buffer'.empty = (seen.tail = seen.head)
         /\ Head(todo) = "tailZero" => buffer'.tail = 0
         /\ Head(todo) = "setEmpty" => buffer'.empty = TRUE
         /\ Head(todo) = "erase" => buffer'.storage = [p \in Places |-> Zero]
<1>1. /\ buffer \in Rings(Values) /\ buffer' = Stored(Head(todo)) /\ Busy
  BY TypesMean DEF Store
<1>2. Head(todo) \in {"head", "put", "tail", "notEmpty", "fullIfEqual", "copy", "notFull",
                      "emptyIfEqual", "headZero", "tailZero", "setEmpty", "erase"}
  BY <1>1, NextStatement
<1>3. CASE Head(todo) = "head"
  BY <1>1, <1>3 DEF Stored, Rings
<1>4. CASE Head(todo) = "put"
  BY <1>1, <1>4 DEF Stored, Rings
<1>5. CASE Head(todo) = "tail"
  BY <1>1, <1>5 DEF Stored, Rings
<1>6. CASE Head(todo) = "notEmpty"
  BY <1>1, <1>6 DEF Stored, Rings
<1>7. CASE Head(todo) = "fullIfEqual"
  BY <1>1, <1>7 DEF Stored, Rings
<1>8. CASE Head(todo) = "copy"
  BY <1>1, <1>8 DEF Stored, Rings
<1>9. CASE Head(todo) = "notFull"
  BY <1>1, <1>9 DEF Stored, Rings
<1>10. CASE Head(todo) = "emptyIfEqual"
  BY <1>1, <1>10 DEF Stored, Rings
<1>11. CASE Head(todo) = "headZero"
  BY <1>1, <1>11 DEF Stored, Rings
<1>12. CASE Head(todo) = "tailZero"
  BY <1>1, <1>12 DEF Stored, Rings
<1>13. CASE Head(todo) = "setEmpty"
  BY <1>1, <1>13 DEF Stored, Rings
<1>14. CASE Head(todo) = "erase"
  BY <1>1, <1>14 DEF Stored, Rings
<1> QED
  BY <1>2, <1>3, <1>4, <1>5, <1>6, <1>7, <1>8, <1>9, <1>10, <1>11, <1>12, <1>13, <1>14

(* An initialized buffer of commands or readings is an empty queue, and    *)
(* its flags say so.                                                       *)
LEMMA TakenInit == SharedInit => TakenInv
<1> SUFFICES ASSUME SharedInit PROVE TakenInv
  OBVIOUS
<1> USE BufferAssumption DEF BufferAssumption
<1>1. /\ todo = <<>> /\ ideal = <<>> /\ moved = <<>> /\ op = "NONE"
      /\ buffer.head = 0 /\ buffer.tail = 0 /\ buffer.empty = TRUE /\ buffer.full = FALSE
  BY DEF SharedInit, Init
<1>2. Spot(0 + 0) = 0 /\ Len(<<>>) = 0 /\ DOMAIN <<>> = {}
  BY DEF Spot
<1>3. FlagsTrail
  BY <1>1, <1>2 DEF FlagsTrail, FullTells, Lies
<1>4. TakenPop
  BY <1>1, LeftsTell DEF TakenPop
<1> QED
  BY <1>1, <1>3, <1>4 DEF TakenInv, Agreed

(* A statement of a removal.                                               *)
LEMMA TakenStorePop ==
  ASSUME BaseInv, TakenPop, Agreed, todo = Pop4 => FlagsTrail, Store, op = "POP"
  PROVE  TakenPop' /\ Agreed' /\ (todo' \in {<<>>, Pop4} => FlagsTrail')
<1> DEFINE h == buffer.head
           q == ideal
<1>1. /\ buffer \in Rings(Values) /\ h \in Places /\ q \in Seq(Values) /\ Len(q) \in Nat
  BY TypesMean
<1>2. buffer' \in Rings(Values)
  BY BaseStep, TypesMean DEF SharedNext, BaseInv, SharedTypeOK, Rings, Values
<1>3. /\ loaded /\ ~loaded' /\ todo' = Tail(todo) /\ Busy /\ interrupts' = interrupts
      /\ seen' = seen
  BY DEF Store
<1>4. todo \in {Pop1, Pop2, Pop3, Pop4}
  BY <1>3, NextStatement
<1>5. todo # Pop4 => ideal' = q /\ Agreed'
  BY <1>4, StatementsLeft DEF Store, Agreed
<1>6. CASE todo = Pop4
  <2>1. /\ todo' = Pop3 /\ Head(todo) = "copy" /\ q # <<>> /\ seen.head = h
        /\ Lies(buffer, h, q) /\ (buffer.full <=> Len(q) = StorageSize)
    BY <1>3, <1>6, StatementsLeft DEF TakenPop, FlagsTrail, FullTells
  <2>2. /\ Lies(buffer, Increased(h), Tail(q)) /\ buffer.storage[h] = Head(q)
        /\ Len(Tail(q)) + 1 = Len(q) /\ Len(Tail(q)) < StorageSize
    BY <1>1, <2>1, LiesTail
  <2>3. ideal' = Tail(q) /\ moved' = <<buffer.storage[h], Head(q)>> /\ buffer' = buffer
    BY <2>1 DEF Store, Rest, Oldest, Stored
  <2>4. Agreed'
    BY <2>2, <2>3 DEF Agreed
  <2>5. TakenPop'
    <3>1. /\ Lies(buffer', Increased(buffer'.head), ideal') /\ Len(ideal') < StorageSize
          /\ buffer'.full <=> Len(ideal') + 1 = StorageSize
      BY <2>1, <2>2, <2>3
    <3> QED
      BY <1>3, <2>1, <3>1, LeftsTell DEF TakenPop
  <2> QED
    BY <2>1, <2>4, <2>5, LeftsTell
<1>7. CASE todo = Pop3
  <2>1. /\ todo' = Pop2 /\ Head(todo) = "head" /\ seen.head = h /\ ideal' = q
        /\ Lies(buffer, Increased(h), q) /\ Len(q) < StorageSize
        /\ (buffer.full <=> Len(q) + 1 = StorageSize)
    BY <1>3, <1>5, <1>7, StatementsLeft, LeftsTell DEF TakenPop
  <2>2. buffer'.head = Increased(h) /\ buffer'.tail = buffer.tail
        /\ buffer'.storage = buffer.storage /\ buffer'.full = buffer.full
    BY <2>1, StoredParts
  <2>3. Lies(buffer', buffer'.head, ideal')
    BY <1>1, <1>2, <2>1, <2>2, LiesSame
  <2>4. ~buffer'.full => Len(q) + 1 < StorageSize
    BY <1>1, <2>1, <2>2, BufferAssumption DEF BufferAssumption
  <2>5. TakenPop'
    BY <2>1, <2>3, <2>4, LeftsTell DEF TakenPop
  <2> QED
    BY <1>5, <1>7, <2>1, <2>5, LeftsTell
<1>8. CASE todo = Pop2
  <2>1. /\ todo' = Pop1 /\ Head(todo) = "notFull" /\ ideal' = q
        /\ Lies(buffer, h, q) /\ Len(q) < StorageSize
    BY <1>3, <1>5, <1>8, StatementsLeft, LeftsTell DEF TakenPop
  <2>2. buffer'.head = h /\ buffer'.tail = buffer.tail
        /\ buffer'.storage = buffer.storage /\ buffer'.full = FALSE
    BY <2>1, StoredParts
  <2>3. Lies(buffer', buffer'.head, ideal')
    BY <1>1, <1>2, <2>1, <2>2, LiesSame
  <2>4. FullTells'
    BY <1>1, <2>1, <2>2, BufferAssumption DEF FullTells, BufferAssumption
  <2>5. TakenPop'
    BY <1>3, <2>1, <2>3, <2>4, LeftsTell DEF TakenPop
  <2> QED
    BY <1>5, <1>8, <2>1, <2>5, LeftsTell
<1>9. CASE todo = Pop1
  <2>1. /\ todo' = <<>> /\ Head(todo) = "emptyIfEqual" /\ ideal' = q /\ seen.head = h
        /\ (q = <<>> => seen.tail = buffer.tail) /\ Lies(buffer, h, q) /\ FullTells
    BY <1>3, <1>5, <1>9, StatementsLeft, LeftsTell DEF TakenPop
  <2>2. buffer'.head = h /\ buffer'.tail = buffer.tail /\ buffer'.full = buffer.full
        /\ buffer'.storage = buffer.storage /\ buffer'.empty = (seen.tail = seen.head)
    BY <2>1, StoredParts
  <2>3. Lies(buffer', buffer'.head, ideal')
    BY <1>1, <1>2, <2>1, <2>2, LiesSame
  <2>4. q = <<>> => buffer'.empty
    <3>1. buffer.tail = h <=> Len(q) \in {0, StorageSize}
      BY <1>1, <2>1, LiesRound
    <3> QED
      BY <2>1, <2>2, <3>1
  <2>5. FlagsTrail'
    BY <2>1, <2>2, <2>3, <2>4 DEF FlagsTrail, FullTells
  <2>6. TakenPop'
    BY <2>1, LeftsTell DEF TakenPop
  <2> QED
    BY <1>5, <1>9, <2>5, <2>6, LeftsTell
<1> QED
  BY <1>4, <1>6, <1>7, <1>8, <1>9

(* A statement of an addition.                                             *)
LEMMA TakenStoreAdd ==
  ASSUME BaseInv, TakenAdd, Agreed, Store, op = "ADD"
  PROVE  TakenPop' /\ Agreed' /\ (todo' # <<>> => TakenAdd') /\ todo' # Pop4
         /\ (todo' = <<>> => FlagsTrail')
<1> DEFINE h == buffer.head
           q == ideal
<1>1. /\ buffer \in Rings(Values) /\ h \in Places /\ q \in Seq(Values) /\ Len(q) \in Nat
      /\ value \in Values
  BY TypesMean
<1>2. buffer' \in Rings(Values)
  BY BaseStep, TypesMean DEF SharedNext, BaseInv, SharedTypeOK, Rings, Values
<1>3. /\ ~loaded' /\ todo' = Tail(todo) /\ Busy /\ seen.head = h /\ seen.tail = buffer.tail
      /\ Lies(buffer, h, q) /\ value' = value
  BY DEF Store, TakenAdd, SeenIsNow
<1>4. todo \in {Add1, Add2, Add3, Add4}
  BY <1>3, NextStatement DEF TakenAdd
<1>5. /\ Head(todo) # "copy" /\ moved' = moved
      /\ todo # Add3 => ideal' = q
  BY <1>4, StatementsLeft DEF Store
<1>6. todo' \in {<<>>, Add1, Add2, Add3}
  BY <1>3, <1>4, StatementsLeft
<1>7. TakenPop' /\ Agreed' /\ todo' # Pop4
  BY <1>5, <1>6, LeftsTell DEF TakenPop, Agreed
<1>8. CASE todo = Add4
  <2>1. todo' = Add3 /\ Head(todo) = "put" /\ ideal' = q /\ Len(q) < StorageSize
    BY <1>3, <1>5, <1>8, StatementsLeft, LeftsTell DEF TakenAdd
  <2>2. buffer'.head = h /\ buffer'.tail = buffer.tail /\ buffer'.storage = AtTail(buffer, value)
    BY <1>3, <2>1, StoredParts DEF AtTail
  <2>3. Lies(buffer', h, q) /\ buffer'.storage[buffer'.tail] = value
    BY <1>1, <1>2, <1>3, <2>1, <2>2, LiesPut
  <2>4. TakenAdd'
    BY <1>3, <2>1, <2>2, <2>3, LeftsTell DEF TakenAdd
  <2> QED
    BY <1>7, <2>1, <2>4, LeftsTell
<1>9. CASE todo = Add3
  <2>1. /\ todo' = Add2 /\ Head(todo) = "tail" /\ Len(q) < StorageSize
        /\ buffer.storage[buffer.tail] = value
    BY <1>3, <1>9, StatementsLeft, LeftsTell DEF TakenAdd
  <2>2. ideal' = Append(q, value) /\ ideal' # <<>>
    <3>1. ideal' = Append(q, value)
      BY <2>1 DEF Store
    <3>2. Len(Append(q, value)) = Len(q) + 1
      BY <1>1
    <3> QED
      BY <1>1, <3>1, <3>2
  <2>3. buffer'.head = h /\ buffer'.tail = Increased(buffer.tail) /\ buffer'.storage = buffer.storage
    BY <1>3, <2>1, StoredParts
  <2>4. Lies(buffer', h, ideal')
    BY <1>1, <1>2, <1>3, <2>1, <2>2, <2>3, LiesAppend
  <2>5. TakenAdd'
    BY <1>3, <2>1, <2>2, <2>3, <2>4, LeftsTell DEF TakenAdd
  <2> QED
    BY <1>7, <2>1, <2>5, LeftsTell
<1>10. CASE todo = Add2
  <2>1. todo' = Add1 /\ Head(todo) = "notEmpty" /\ ideal' = q /\ q # <<>>
    BY <1>3, <1>5, <1>10, StatementsLeft, LeftsTell DEF TakenAdd
  <2>2. buffer'.head = h /\ buffer'.tail = buffer.tail /\ buffer'.storage = buffer.storage
    BY <2>1, StoredParts
  <2>3. Lies(buffer', h, ideal')
    BY <1>1, <1>2, <1>3, <2>1, <2>2, LiesSame
  <2>4. TakenAdd'
    BY <1>3, <2>1, <2>2, <2>3, LeftsTell DEF TakenAdd
  <2> QED
    BY <1>7, <2>1, <2>4, LeftsTell
<1>11. CASE todo = Add1
  <2>1. todo' = <<>> /\ Head(todo) = "fullIfEqual" /\ ideal' = q /\ q # <<>>
    BY <1>3, <1>5, <1>11, StatementsLeft, LeftsTell DEF TakenAdd
  <2>2. buffer'.head = h /\ buffer'.tail = buffer.tail /\ buffer'.storage = buffer.storage
        /\ buffer'.full = (buffer.tail = h)
    BY <1>3, <2>1, StoredParts
  <2>3. Lies(buffer', h, ideal')
    BY <1>1, <1>2, <1>3, <2>1, <2>2, LiesSame
  <2>4. FullTells'
    <3>1. buffer.tail = h <=> Len(q) \in {0, StorageSize}
      BY <1>1, <1>3, LiesRound
    <3>2. Len(q) # 0
      BY <1>1, <2>1
    <3> QED
      BY <2>1, <2>2, <3>1, <3>2 DEF FullTells
  <2>5. FlagsTrail'
    BY <2>1, <2>2, <2>3, <2>4 DEF FlagsTrail
  <2> QED
    BY <1>7, <2>1, <2>5
<1> QED
  BY <1>4, <1>8, <1>9, <1>10, <1>11

(* An interrupt between the statements of a removal, or while nothing      *)
(* runs, that finds room.                                                  *)
LEMMA TakenInterrupt ==
  ASSUME MaxInterrupts <= 1, BaseInv, TakenPop, Agreed, todo \in {<<>>, Pop4} => FlagsTrail,
         InterruptAdds, ~buffer.full, ~Busy \/ op = "POP"
  PROVE  TakenPop' /\ Agreed' /\ (todo \in {<<>>, Pop4} => FlagsTrail')
<1> DEFINE h == buffer.head
           q == ideal
           e == added + 1
<1>1. /\ buffer \in Rings(Values) /\ h \in Places /\ q \in Seq(Values) /\ Len(q) \in Nat
      /\ Increased(h) \in Places
  BY TypesMean, BufferAssumption DEF BufferAssumption, Increased, Places
<1>2. e \in Values
  BY TypesMean, SharedAssumption DEF InterruptAdds, Numbers, Values, SharedAssumption
<1>3. /\ todo' = todo /\ loaded' = loaded /\ seen' = seen /\ moved' = moved
      /\ buffer' = Added(buffer, e) /\ ideal' = Append(q, e)
      /\ Busy => interrupts = 0 /\ interrupts' = 1
  <2>1. /\ todo' = todo /\ loaded' = loaded /\ seen' = seen /\ moved' = moved
        /\ buffer' = Added(buffer, e) /\ ideal' = Append(q, e)
        /\ Busy => interrupts < MaxInterrupts /\ interrupts' = interrupts + 1
    BY DEF InterruptAdds, Interrupts, Refuses
  <2>2. interrupts \in 0..MaxInterrupts /\ MaxInterrupts \in Nat
    BY TypesMean, SharedAssumption DEF SharedAssumption
  <2> QED
    BY <2>1, <2>2
<1> HIDE DEF e
<1>4. todo \in {<<>>, Pop1, Pop2, Pop3, Pop4}
  BY NextStatement DEF Busy
<1>5. Agreed'
  BY <1>3 DEF Agreed
<1>6. buffer'.head = h /\ ideal' # <<>> /\ Len(ideal') = Len(q) + 1
  <2>1. buffer'.head = h
    BY <1>1, <1>3 DEF Added, Refuses, Rings
  <2>2. Len(ideal') = Len(q) + 1
    BY <1>1, <1>2, <1>3
  <2> QED
    BY <1>1, <2>1, <2>2
<1>7. CASE todo \in {<<>>, Pop4}
  <2>1. Lies(buffer, h, q) /\ Len(q) < StorageSize
    <3>1. Lies(buffer, h, q) /\ Len(q) # StorageSize /\ Len(q) <= StorageSize
      BY <1>7 DEF FlagsTrail, FullTells, Lies
    <3> QED
      BY <1>1, <3>1, BufferAssumption DEF BufferAssumption
  <2>2. Lies(buffer', h, ideal') /\ (buffer'.full <=> Len(ideal') = StorageSize)
    BY <1>1, <1>2, <1>3, <1>6, <2>1, AddedLies
  <2>3. FlagsTrail'
    BY <1>6, <2>2 DEF FlagsTrail, FullTells
  <2>4. TakenPop'
    BY <1>3, <1>6, <1>7, LeftsTell DEF TakenPop
  <2> QED
    BY <1>5, <2>3, <2>4
<1>8. CASE todo = Pop3
  <2>1. /\ Lies(buffer, Increased(h), q) /\ Len(q) < StorageSize /\ Len(q) + 1 # StorageSize
        /\ (loaded => seen.head = h)
    BY <1>8, LeftsTell DEF TakenPop
  <2>2. Lies(buffer', Increased(h), ideal') /\ (buffer'.full <=> Increased(buffer.tail) = h)
    BY <1>1, <1>2, <1>3, <2>1, AddedLies
  <2>3. Increased(buffer.tail) = h <=> Len(q) + 2 = StorageSize
    <3> DEFINE n == Len(q)
    <3>1. n \in Nat /\ n + 1 < StorageSize /\ buffer.tail = Spot(Increased(h) + n)
      BY <1>1, <2>1, BufferAssumption DEF BufferAssumption, Lies
    <3> HIDE DEF n
    <3>2. h \in Nat /\ h < StorageSize
      BY <1>1, BufferAssumption DEF BufferAssumption, Places
    <3>3. Increased(buffer.tail) = h <=> n + 2 = StorageSize
      BY <3>1, <3>2, BufferAssumption DEF BufferAssumption, Spot, Increased
    <3> QED
      BY <3>3 DEF n
  <2>4. /\ Len(ideal') < StorageSize /\ (buffer'.full <=> Len(ideal') + 1 = StorageSize)
    BY <1>1, <1>6, <2>1, <2>2, <2>3, BufferAssumption DEF BufferAssumption
  <2>5. TakenPop'
    BY <1>3, <1>6, <1>8, <2>1, <2>2, <2>4, LeftsTell DEF TakenPop
  <2> QED
    BY <1>5, <1>8, <2>5, LeftsTell
<1>9. CASE todo = Pop2
  <2>1. Busy /\ interrupts = 0 /\ interrupts' = 1
    BY <1>3, <1>9, LeftsTell DEF Busy
  <2>2. Lies(buffer, h, q) /\ Len(q) < StorageSize /\ Len(q) + 1 < StorageSize
    BY <1>9, <2>1, LeftsTell DEF TakenPop
  <2>3. Lies(buffer', h, ideal')
    BY <1>1, <1>2, <1>3, <2>2, AddedLies
  <2>4. TakenPop'
    BY <1>3, <1>6, <1>9, <2>1, <2>2, <2>3, LeftsTell DEF TakenPop
  <2> QED
    BY <1>5, <1>9, <2>4, LeftsTell
<1>10. CASE todo = Pop1
  <2>1. /\ Lies(buffer, h, q) /\ Len(q) < StorageSize /\ (loaded => seen.head = h)
    <3>1. Lies(buffer, h, q) /\ Len(q) # StorageSize /\ Len(q) <= StorageSize
          /\ (loaded => seen.head = h)
      BY <1>10, LeftsTell DEF TakenPop, FullTells, Lies
    <3> QED
      BY <1>1, <3>1, BufferAssumption DEF BufferAssumption
  <2>2. Lies(buffer', h, ideal') /\ (buffer'.full <=> Len(ideal') = StorageSize)
    BY <1>1, <1>2, <1>3, <1>6, <2>1, AddedLies
  <2>3. TakenPop'
    BY <1>3, <1>6, <1>10, <2>1, <2>2, LeftsTell DEF TakenPop, FullTells
  <2> QED
    BY <1>5, <1>10, <2>3, LeftsTell
<1> QED
  BY <1>4, <1>7, <1>8, <1>9, <1>10

(* A statement of a clear.                                                 *)
LEMMA TakenStoreClear ==
  ASSUME MaxInterrupts <= 1, StorageSize > 1, BaseInv, TakenClear, Agreed, Store, op = "CLEAR"
  PROVE  TakenPop' /\ Agreed' /\ (todo' # <<>> => TakenClear') /\ todo' # Pop4
         /\ (todo' = <<>> => FlagsTrail')
<1> DEFINE q == ideal
<1>1. /\ buffer \in Rings(Values) /\ q \in Seq(Values) /\ Len(q) \in Nat
      /\ 0 \in Places /\ interrupts \in Nat /\ interrupts <= 1
  BY TypesMean, SharedAssumption, BufferAssumption DEF SharedAssumption, BufferAssumption, Places
<1>2. buffer' \in Rings(Values)
  BY BaseStep, TypesMean DEF SharedNext, BaseInv, SharedTypeOK, Rings, Values
<1>3. /\ todo' = Tail(todo) /\ Busy /\ interrupts' = interrupts
      /\ todo \in {Clear1, Clear2, Clear3, Clear4, Clear5}
  BY NextStatement DEF Store
<1>4. Head(todo) # "copy" /\ todo' \in {<<>>, Clear1, Clear2, Clear3, Clear4}
  BY <1>3, StatementsLeft
<1>5. TakenPop' /\ Agreed' /\ todo' # Pop4
  <2>1. todo' \notin {Pop1, Pop2, Pop3, Pop4}
    BY <1>4, ClearsTell, LeftsTell
  <2>2. moved' = moved
    BY <1>4 DEF Store
  <2> QED
    BY <2>1, <2>2 DEF TakenPop, Agreed
<1>6. CASE todo = Clear5
  <2>1. todo' = Clear4 /\ Head(todo) = "headZero"
    BY <1>3, <1>6, StatementsLeft
  <2>2. buffer'.head = 0
    BY <2>1, StoredParts
  <2> QED
    BY <1>5, <2>1, <2>2, ClearsDiffer DEF TakenClear
<1>7. CASE todo = Clear4
  <2>1. /\ todo' = Clear3 /\ Head(todo) = "tailZero" /\ buffer.head = 0
    BY <1>3, <1>7, StatementsLeft, ClearsDiffer DEF TakenClear
  <2>2. buffer'.head = 0 /\ buffer'.tail = 0 /\ ideal' = <<>>
    BY <2>1, StoredParts DEF Store
  <2>3. Lies(buffer', buffer'.head, ideal') /\ Len(ideal') = 0
    <3>1. Len(<<>>) = 0 /\ DOMAIN <<>> = {} /\ Spot(0 + 0) = 0
      BY BufferAssumption DEF BufferAssumption, Spot
    <3> QED
      BY <2>2, <3>1, BufferAssumption DEF Lies, BufferAssumption
  <2>4. TakenClear'
    BY <1>1, <1>3, <2>1, <2>2, <2>3, ClearsDiffer DEF TakenClear
  <2> QED
    BY <1>5, <2>1, <2>4, ClearsDiffer
<1>8. CASE todo \in {Clear2, Clear3}
  <2>1. /\ todo = Clear3 => todo' = Clear2 /\ Head(todo) = "setEmpty"
        /\ todo = Clear2 => todo' = Clear1 /\ Head(todo) = "notFull"
        /\ ideal' = q
    BY <1>3, <1>8, StatementsLeft DEF Store
  <2>2. /\ buffer.head = 0 /\ Lies(buffer, 0, q) /\ Len(q) <= interrupts
        /\ todo = Clear2 /\ q = <<>> => buffer.empty
    BY <1>8, ClearsDiffer DEF TakenClear
  <2>3. /\ buffer'.head = 0 /\ buffer'.tail = buffer.tail /\ buffer'.storage = buffer.storage
        /\ todo = Clear3 => buffer'.empty = TRUE
        /\ todo = Clear2 => buffer'.full = FALSE /\ buffer'.empty = buffer.empty
    BY <1>8, <2>1, <2>2, StoredParts
  <2>4. Lies(buffer', 0, ideal')
    BY <1>1, <1>2, <2>1, <2>2, <2>3, LiesSame
  <2>5. TakenClear'
    BY <1>3, <1>8, <2>1, <2>2, <2>3, <2>4, ClearsDiffer DEF TakenClear
  <2> QED
    BY <1>5, <1>8, <2>1, <2>5, ClearsDiffer
<1>9. CASE todo = Clear1
  <2>1. /\ todo' = <<>> /\ Head(todo) = "erase" /\ buffer.head = 0 /\ Lies(buffer, 0, q)
        /\ Len(q) <= interrupts /\ ~buffer.full /\ (q = <<>> => buffer.empty)
    BY <1>3, <1>9, StatementsLeft, ClearsDiffer DEF TakenClear
  <2>2. /\ buffer'.head = 0 /\ buffer'.tail = buffer.tail /\ buffer'.full = buffer.full
        /\ buffer'.empty = buffer.empty /\ buffer'.storage = [p \in Places |-> Zero]
    BY <2>1, StoredParts
  <2>3. ideal' = [i \in 1..Len(q) |-> Zero] /\ Len(ideal') = Len(q) /\ DOMAIN ideal' = 1..Len(q)
    <3>1. ideal' = [i \in DOMAIN q |-> Zero]
      BY <2>1 DEF Store
    <3> QED
      BY <1>1, <3>1
  <2>4. Len(q) <= 1 /\ Len(q) < StorageSize
    BY <1>1, <2>1, BufferAssumption DEF BufferAssumption
  <2>5. ASSUME NEW i \in DOMAIN ideal' PROVE buffer'.storage[Spot(0 + i - 1)] = ideal'[i]
    <3>1. i = 1
      BY <1>1, <2>3, <2>4
    <3>2. Spot(0 + i - 1) = 0
      BY <3>1, BufferAssumption DEF BufferAssumption, Spot
    <3> QED
      BY <1>1, <2>2, <2>3, <3>2
  <2>6. Lies(buffer', buffer'.head, ideal')
    BY <2>1, <2>2, <2>3, <2>4, <2>5 DEF Lies
  <2>7. ideal' = <<>> => buffer'.empty
    <3>1. ideal' = <<>> => Len(q) = 0
      BY <2>3
    <3> QED
      BY <1>1, <2>1, <2>2, <3>1
  <2>8. FullTells'
    <3>1. Len(ideal') # StorageSize
      <4> DEFINE n == Len(q)
      <4>1. Len(ideal') = n /\ n \in Nat /\ n < StorageSize
        BY <1>1, <2>3, <2>4
      <4> HIDE DEF n
      <4> QED
        BY <4>1, BufferAssumption DEF BufferAssumption
    <3>2. ~buffer'.full
      BY <2>1, <2>2
    <3> QED
      BY <3>1, <3>2 DEF FullTells
  <2>9. FlagsTrail'
    BY <2>6, <2>7, <2>8 DEF FlagsTrail
  <2> QED
    BY <1>5, <2>1, <2>9
<1> QED
  BY <1>3, <1>6, <1>7, <1>8, <1>9

(* An interrupt between the statements of a clear, that finds room.        *)
LEMMA ClearTakes ==
  ASSUME MaxInterrupts <= 1, StorageSize > 1, BaseInv, TakenClear, InterruptAdds, Busy,
         op = "CLEAR", ~buffer.full
  PROVE  TakenClear'
<1> DEFINE e == added + 1
           q == ideal
           h == buffer.head
<1>1. /\ buffer \in Rings(Values) /\ q \in Seq(Values) /\ Len(q) \in Nat /\ h \in Places
  BY TypesMean
<1>2. e \in Values
  BY TypesMean, SharedAssumption DEF InterruptAdds, Numbers, Values, SharedAssumption
<1>3. /\ todo' = todo /\ buffer' = Added(buffer, e) /\ ideal' = Append(q, e)
      /\ interrupts = 0 /\ interrupts' = 1
  <2>1. /\ todo' = todo /\ buffer' = Added(buffer, e) /\ ideal' = Append(q, e)
        /\ interrupts < MaxInterrupts /\ interrupts' = interrupts + 1
    BY DEF InterruptAdds, Interrupts, Refuses
  <2>2. interrupts \in 0..MaxInterrupts /\ MaxInterrupts \in Nat
    BY TypesMean, SharedAssumption DEF SharedAssumption
  <2> QED
    BY <2>1, <2>2
<1> HIDE DEF e
<1>4. buffer'.head = h
  BY <1>1, <1>3 DEF Added, Refuses, Rings
<1>5. CASE todo \in {Clear1, Clear2, Clear3}
  <2>1. h = 0 /\ Lies(buffer, h, q) /\ Len(q) = 0
    BY <1>1, <1>3, <1>5, ClearsDiffer DEF TakenClear
  <2>2. Len(q) < StorageSize /\ Len(q) + 1 # StorageSize
    BY <2>1, BufferAssumption DEF BufferAssumption
  <2>3. /\ Lies(buffer', h, ideal') /\ (buffer'.full <=> Len(q) + 1 = StorageSize)
        /\ Len(ideal') = Len(q) + 1 /\ ideal' # <<>>
    BY <1>1, <1>2, <1>3, <2>1, <2>2, AddedLies
  <2> QED
    BY <1>3, <1>4, <2>1, <2>2, <2>3 DEF TakenClear
<1>6. CASE todo \notin {Clear1, Clear2, Clear3}
  BY <1>3, <1>4, <1>6 DEF TakenClear
<1> QED
  BY <1>5, <1>6

(* Every step, of the main loop or the interrupt, keeps the invariant of   *)
(* commands and readings.                                                  *)
LEMMA TakenStep ==
  ASSUME MaxInterrupts <= 1, StorageSize > 1, BaseInv, TakenInv, [SharedNext]_sharedVars
  PROVE  TakenInv'
<1> SUFFICES ASSUME use' \in {"commands", "readings"}, ~Lost' PROVE TakenInv'
  BY DEF TakenInv
<1>1. use = use' /\ ~Lost
  <2>1. use' = use /\ (crossed => crossed') /\ (overrun => overrun')
    <3>1. CASE InterruptAdds
      BY <3>1 DEF InterruptAdds, Interrupts
    <3>2. CASE ~InterruptAdds
      BY <3>2 DEF SharedNext, StartAdd, StartPop, StartClear, Start, Load, Store,
             InterruptPops, InterruptRests, Interrupts, StartTransmission, Transmits, Owned
    <3> QED
      BY <3>1, <3>2
  <2>2. buffer.wrap = Sharing(use).wrap /\ buffer'.wrap = Sharing(use).wrap
    BY <2>1, BaseStep DEF BaseInv, ControlInv
  <2> QED
    BY <2>1, <2>2 DEF Lost
<1>2. /\ Agreed /\ TakenPop /\ (todo \in {<<>>, Pop4} => FlagsTrail)
      /\ op = "ADD" /\ Busy => TakenAdd
      /\ op = "CLEAR" /\ Busy => TakenClear
  BY <1>1 DEF TakenInv
<1>3. ~Busy => ~loaded
  BY DEF BaseInv, ControlInv
<1>4. CASE UNCHANGED sharedVars
  <2>1. /\ buffer' = buffer /\ ideal' = ideal /\ todo' = todo /\ op' = op /\ value' = value
        /\ loaded' = loaded /\ seen' = seen /\ moved' = moved /\ interrupts' = interrupts
    BY <1>4 DEF vars
  <2>2. TakenPop' /\ Agreed'
    BY <1>2, <2>1 DEF TakenPop, FullTells, Agreed
  <2>3. (todo \in {<<>>, Pop4} => FlagsTrail')
    BY <1>2, <2>1 DEF FlagsTrail, FullTells
  <2>4. (op' = "ADD" /\ Busy' => TakenAdd')
    BY <1>2, <2>1 DEF TakenAdd, SeenIsNow, Busy
  <2>5. (op' = "CLEAR" /\ Busy' => TakenClear')
    BY <1>2, <2>1 DEF TakenClear, Busy
  <2> QED
    BY <2>1, <2>2, <2>3, <2>4, <2>5 DEF TakenInv
<1>5. CASE StartAdd
  <2>1. /\ buffer' = buffer /\ ~Busy /\ op' = "ADD" /\ ~loaded' /\ moved' = moved /\ todo = <<>>
        /\ todo' = IF buffer.full THEN Add5 ELSE Add4
        /\ ideal' = IF buffer.full THEN Rest(ideal) ELSE ideal
    BY <1>3, <1>5, StatementsAre DEF StartAdd, Start, Busy
  <2>2. ~buffer.full
    <3>1. use = "readings"
      BY <1>1, <1>5, UsesAre DEF StartAdd, Start
    <3>2. ~buffer.wrap /\ ~Refuses(buffer)
      BY <1>5, <3>1, UsesAre DEF StartAdd, BaseInv, ControlInv
    <3> QED
      BY <3>2 DEF Refuses
  <2>3. FlagsTrail
    BY <1>2, <2>1
  <2>4. Lies(buffer, buffer.head, ideal) /\ Len(ideal) < StorageSize
    <3>1. Lies(buffer, buffer.head, ideal) /\ Len(ideal) # StorageSize /\ Len(ideal) <= StorageSize
      BY <2>2, <2>3 DEF FlagsTrail, FullTells, Lies
    <3>2. Len(ideal) \in Nat
      BY TypesMean
    <3> QED
      BY <3>1, <3>2, BufferAssumption DEF BufferAssumption
  <2>5. todo' = Add4 /\ ideal' = ideal
    BY <2>1, <2>2
  <2>6. TakenPop' /\ Agreed' /\ TakenAdd'
    BY <1>2, <2>1, <2>4, <2>5, LeftsTell DEF TakenPop, Agreed, TakenAdd
  <2> QED
    BY <2>1, <2>5, <2>6, LeftsTell DEF TakenInv
<1>6. CASE StartPop
  <2>1. /\ buffer' = buffer /\ ~Busy /\ op' = "POP" /\ ~loaded' /\ moved' = moved /\ todo = <<>>
        /\ todo' = Pop4 /\ ideal' = ideal /\ ~buffer.empty
    BY <1>3, <1>6, StatementsAre DEF StartPop, Start, Busy
  <2>2. FlagsTrail /\ ideal # <<>>
    BY <1>2, <2>1 DEF FlagsTrail
  <2>3. TakenPop' /\ Agreed' /\ FlagsTrail'
    BY <1>2, <2>1, <2>2, LeftsTell DEF TakenPop, Agreed, FlagsTrail, FullTells
  <2> QED
    BY <2>1, <2>3 DEF TakenInv
<1>7. CASE StartClear
  <2>1. todo' = Clear5 /\ op' = "CLEAR" /\ moved' = moved
    BY <1>7, StatementsAre DEF StartClear, Start
  <2>2. TakenPop' /\ Agreed' /\ TakenClear'
    BY <1>2, <2>1, ClearsDiffer, ClearsTell DEF TakenPop, Agreed, TakenClear
  <2>3. todo' \notin {<<>>, Pop4}
    BY <2>1, ClearsDiffer, ClearsTell
  <2> QED
    BY <2>1, <2>2, <2>3 DEF TakenInv
<1>8. CASE Load
  <2>1. /\ buffer' = buffer /\ ideal' = ideal /\ todo' = todo /\ op' = op /\ value' = value
        /\ moved' = moved /\ interrupts' = interrupts /\ Busy
        /\ seen'.head = buffer.head /\ seen'.tail = buffer.tail
    BY <1>8 DEF Load
  <2>2. TakenPop' /\ Agreed'
    BY <1>2, <2>1 DEF TakenPop, FullTells, Agreed
  <2>3. (todo \in {<<>>, Pop4} => FlagsTrail')
    BY <1>2, <2>1 DEF FlagsTrail, FullTells
  <2>4. (op' = "ADD" => TakenAdd')
    BY <1>2, <2>1 DEF TakenAdd, SeenIsNow
  <2>5. (op' = "CLEAR" => TakenClear')
    BY <1>2, <2>1 DEF TakenClear
  <2> QED
    BY <2>1, <2>2, <2>3, <2>4, <2>5 DEF TakenInv
<1>9. CASE Store
  <2>1. op' = op /\ todo' = Tail(todo) /\ Busy
    BY <1>9 DEF Store
  <2>2. CASE op = "POP"
    BY <1>2, <1>9, <2>1, <2>2, TakenStorePop DEF TakenInv
  <2>3. CASE op = "ADD"
    <3>1. TakenPop' /\ Agreed' /\ (todo' # <<>> => TakenAdd') /\ todo' # Pop4
          /\ (todo' = <<>> => FlagsTrail')
      BY <1>2, <1>9, <2>1, <2>3, TakenStoreAdd
    <3> QED
      BY <2>1, <2>3, <3>1 DEF TakenInv, Busy
  <2>4. CASE op = "CLEAR"
    <3>1. TakenPop' /\ Agreed' /\ (todo' # <<>> => TakenClear') /\ todo' # Pop4
          /\ (todo' = <<>> => FlagsTrail')
      BY <1>2, <1>9, <2>1, <2>4, TakenStoreClear
    <3> QED
      BY <2>1, <2>4, <3>1 DEF TakenInv, Busy
  <2> QED
    BY <2>1, <2>2, <2>3, <2>4, NextStatement
<1>10. CASE InterruptAdds
  <2>1. /\ todo' = todo /\ ~(Busy /\ op = "ADD") /\ op' = IF Busy THEN op ELSE "NONE"
        /\ ~(Busy' /\ op' = "ADD")
    BY <1>10 DEF InterruptAdds, Interrupts, Lost, Busy
  <2>2. ~Busy \/ op = "POP" \/ op = "CLEAR"
    BY <2>1, NextStatement
  <2>3. CASE ~buffer.full
    <3>1. CASE ~Busy \/ op = "POP"
      <4>1. TakenPop' /\ Agreed' /\ (todo \in {<<>>, Pop4} => FlagsTrail')
        BY <1>2, <1>10, <2>3, <3>1, TakenInterrupt
      <4>2. ~(op' = "CLEAR" /\ Busy')
        BY <2>1, <3>1 DEF Busy
      <4> QED
        BY <2>1, <4>1, <4>2 DEF TakenInv
    <3>2. CASE Busy /\ op = "CLEAR"
      <4>1. TakenClear' /\ todo \in {Clear1, Clear2, Clear3, Clear4, Clear5}
        BY <1>2, <1>10, <2>3, <3>2, ClearTakes, NextStatement
      <4>2. todo' \notin {<<>>, Pop1, Pop2, Pop3, Pop4}
        BY <2>1, <4>1, ClearsDiffer, ClearsTell
      <4>3. TakenPop' /\ Agreed'
        BY <1>2, <1>10, <4>2 DEF TakenPop, Agreed, InterruptAdds
      <4> QED
        BY <2>1, <4>1, <4>2, <4>3 DEF TakenInv
    <3> QED
      BY <2>2, <3>1, <3>2
  <2>4. CASE buffer.full
    <3>1. ~buffer.wrap
      <4>1. overrun' /\ buffer'.wrap = buffer.wrap
        BY <1>1, <1>10, <2>4, BaseStep DEF InterruptAdds, BaseInv, ControlInv
      <4> QED
        BY <4>1 DEF Lost
    <3>2. /\ buffer' = buffer /\ ideal' = ideal /\ loaded' = loaded /\ seen' = seen /\ moved' = moved
          /\ Busy => interrupts' = interrupts + 1
      <4>1. Refuses(buffer)
        BY <2>4, <3>1 DEF Refuses
      <4> QED
        BY <1>10, <4>1 DEF InterruptAdds, Interrupts, Added
    <3>3. TakenPop' /\ Agreed'
      <4>1. Agreed'
        BY <1>2, <3>2 DEF Agreed
      <4>2. todo = Pop2 => ~(~buffer'.full /\ interrupts' = 0)
        BY <2>4, <3>2
      <4> QED
        BY <1>2, <2>1, <3>2, <4>1, <4>2 DEF TakenPop, FullTells
    <3>4. (todo \in {<<>>, Pop4} => FlagsTrail')
      BY <1>2, <2>1, <3>2 DEF FlagsTrail, FullTells
    <3>5. op' = "CLEAR" /\ Busy' => TakenClear'
      <4>1. SUFFICES ASSUME op' = "CLEAR", Busy' PROVE TakenClear'
        OBVIOUS
      <4>2. TakenClear /\ interrupts' = interrupts + 1
        BY <1>2, <2>1, <3>2, <4>1 DEF Busy
      <4>3. interrupts \in Nat /\ Len(ideal) \in Nat
        BY TypesMean, SharedAssumption DEF SharedAssumption
      <4> QED
        BY <2>1, <3>2, <4>2, <4>3 DEF TakenClear
    <3> QED
      BY <2>1, <3>3, <3>4, <3>5 DEF TakenInv
  <2> QED
    BY <2>3, <2>4
<1>11. CASE InterruptPops \/ InterruptRests \/ StartTransmission \/ Owned
  BY <1>1, <1>11, UsesAre DEF InterruptPops, InterruptRests, Interrupts, StartTransmission, Owned
<1> QED
  BY <1>4, <1>5, <1>6, <1>7, <1>8, <1>9, <1>10, <1>11 DEF SharedNext

-------------------------------------------------------------------------------
(***************************************************************************)
(* Responses, which an interrupt takes.                                    *)
(***************************************************************************)

(* What the invariant says of a busy buffer, and of the positions.         *)
ResponsesBody ==
  /\ Agreed /\ Lies(buffer, buffer.head, ideal)
  /\ todo # Add2 => (buffer.empty <=> ideal = <<>>)
  /\ todo = <<>> /\ Len(ideal) = StorageSize => buffer.full
  /\ todo \in {Add3, Add4} => /\ Len(ideal) < StorageSize
                              /\ loaded => seen.tail = buffer.tail
  /\ todo = Add3 => buffer.storage[buffer.tail] = value
  /\ todo = Add2 => /\ ideal # <<>>
                    /\ ~buffer.empty /\ interrupts = 0 => Len(ideal) > 1
  /\ todo = Add1 /\ loaded /\ seen.tail # seen.head => Len(ideal) < StorageSize
  /\ todo # Add5

(* An initialized buffer of responses is an empty queue, and its flags say *)
(* so.                                                                     *)
LEMMA ResponsesInit == SharedInit => ResponsesInv
<1> SUFFICES ASSUME SharedInit PROVE ResponsesBody
  BY DEF ResponsesInv, ResponsesBody
<1> USE BufferAssumption DEF BufferAssumption
<1>1. /\ todo = <<>> /\ ideal = <<>> /\ moved = <<>>
      /\ buffer.head = 0 /\ buffer.tail = 0 /\ buffer.empty = TRUE /\ buffer.full = FALSE
  BY DEF SharedInit, Init
<1>2. Spot(0 + 0) = 0 /\ Len(<<>>) = 0 /\ DOMAIN <<>> = {} /\ StorageSize # 0
  BY DEF Spot
<1>3. Lies(buffer, buffer.head, ideal)
  BY <1>1, <1>2 DEF Lies
<1> QED
  BY <1>1, <1>2, <1>3, LeftsTell DEF ResponsesBody, Agreed

(* A character is taken, by an interrupt or to begin with.                 *)
LEMMA ResponseTaken ==
  ASSUME MaxInterrupts <= 1, BaseInv, ResponsesBody, Transmits, ~buffer.empty \/ todo # Add2,
         UNCHANGED <<todo, loaded, seen, value>>,
         Busy => interrupts < MaxInterrupts /\ interrupts' = interrupts + 1
  PROVE  ResponsesBody'
<1> DEFINE h == buffer.head
           q == ideal
<1>1. /\ buffer \in Rings(Values) /\ h \in Places /\ q \in Seq(Values) /\ Len(q) \in Nat
  BY TypesMean
<1>2. /\ Agreed /\ Lies(buffer, h, q)
      /\ todo # Add2 => (buffer.empty <=> q = <<>>)
      /\ todo = Add2 => q # <<>>
      /\ todo # Add5
  BY DEF ResponsesBody
<1>3. CASE buffer.empty
  <2>1. q = <<>> /\ todo # Add2
    BY <1>2, <1>3
  <2>2. buffer' = buffer /\ ideal' = ideal /\ moved' = moved
    BY <1>3, <2>1 DEF Transmits, Popped, Rest
  <2> QED
    BY <2>1, <2>2 DEF ResponsesBody, Agreed
<1>4. CASE ~buffer.empty
  <2>1. q # <<>>
    BY <1>2, <1>4
  <2>2. /\ buffer' = Popped(buffer) /\ ideal' = Tail(q)
        /\ moved' = <<buffer.storage[h], Head(q)>>
    BY <1>4, <2>1 DEF Transmits, Rest, Oldest
  <2>3. /\ Lies(buffer', buffer'.head, ideal') /\ buffer'.tail = buffer.tail
        /\ buffer'.storage = buffer.storage /\ (buffer'.empty <=> ideal' = <<>>)
        /\ buffer.storage[h] = Head(q)
    BY <1>1, <1>2, <1>4, <2>1, <2>2, PoppedLies
  <2>4. /\ Len(ideal') + 1 = Len(q) /\ Len(ideal') < StorageSize /\ Len(ideal') \in Nat
    BY <1>1, <1>2, <2>1, <2>2, LiesTail
  <2>5. Agreed'
    BY <2>2, <2>3 DEF Agreed
  <2>6. todo = Add2 => ideal' # <<>> /\ interrupts' # 0
    <3>1. SUFFICES ASSUME todo = Add2 PROVE ideal' # <<>> /\ interrupts' # 0
      OBVIOUS
    <3>2. Busy
      BY <3>1, LeftsTell DEF Busy
    <3>3. interrupts = 0 /\ interrupts' = 1
      BY <3>2, TypesMean, SharedAssumption DEF SharedAssumption
    <3>4. Len(q) > 1
      BY <1>4, <3>1, <3>3 DEF ResponsesBody
    <3>5. Len(ideal') # 0
      BY <1>1, <2>4, <3>4
    <3> QED
      BY <3>3, <3>5
  <2>7. Len(ideal') # StorageSize
    BY <2>4, BufferAssumption DEF BufferAssumption
  <2> QED
    BY <1>2, <2>3, <2>4, <2>5, <2>6, <2>7 DEF ResponsesBody
<1> QED
  BY <1>3, <1>4

(* A statement of the addition of a response.                              *)
LEMMA ResponseStored ==
  ASSUME BaseInv, ResponsesBody, Store, op = "ADD"
  PROVE  ResponsesBody'
<1> DEFINE h == buffer.head
           q == ideal
<1>1. /\ buffer \in Rings(Values) /\ h \in Places /\ q \in Seq(Values) /\ Len(q) \in Nat
      /\ value \in Values
  BY TypesMean
<1>2. buffer' \in Rings(Values)
  BY BaseStep, TypesMean DEF SharedNext, BaseInv, SharedTypeOK, Rings, Values
<1>3. /\ loaded /\ ~loaded' /\ todo' = Tail(todo) /\ Busy /\ value' = value /\ seen' = seen
      /\ interrupts' = interrupts
  BY DEF Store
<1>4. /\ todo \in {Add1, Add2, Add3, Add4} /\ Lies(buffer, h, q) /\ Agreed
      /\ todo # Add2 => (buffer.empty <=> q = <<>>)
  BY <1>3, NextStatement DEF ResponsesBody
<1>5. /\ Head(todo) # "copy" /\ moved' = moved
      /\ todo # Add3 => ideal' = q
  BY <1>4, StatementsLeft DEF Store
<1>6. todo' \in {<<>>, Add1, Add2, Add3}
  BY <1>3, <1>4, StatementsLeft
<1>7. Agreed' /\ todo' # Add5
  BY <1>4, <1>5, <1>6, LeftsTell DEF Agreed
<1>8. CASE todo = Add4
  <2>1. /\ todo' = Add3 /\ Head(todo) = "put" /\ ideal' = q /\ Len(q) < StorageSize
        /\ seen.tail = buffer.tail
    BY <1>3, <1>5, <1>8, StatementsLeft, LeftsTell DEF ResponsesBody
  <2>2. /\ buffer'.head = h /\ buffer'.tail = buffer.tail /\ buffer'.storage = AtTail(buffer, value)
        /\ buffer'.empty = buffer.empty
    BY <2>1, StoredParts DEF AtTail
  <2>3. Lies(buffer', h, q) /\ buffer'.storage[buffer'.tail] = value
    BY <1>1, <1>2, <1>4, <2>1, <2>2, LiesPut
  <2> QED
    BY <1>3, <1>4, <1>7, <1>8, <2>1, <2>2, <2>3, LeftsTell DEF ResponsesBody
<1>9. CASE todo = Add3
  <2>1. /\ todo' = Add2 /\ Head(todo) = "tail" /\ Len(q) < StorageSize
        /\ buffer.storage[buffer.tail] = value /\ seen.tail = buffer.tail
    BY <1>3, <1>9, StatementsLeft, LeftsTell DEF ResponsesBody
  <2>2. /\ ideal' = Append(q, value) /\ ideal' # <<>>
        /\ q # <<>> => Len(ideal') > 1
    <3>1. ideal' = Append(q, value)
      BY <2>1 DEF Store
    <3>2. Len(Append(q, value)) = Len(q) + 1 /\ (q # <<>> => Len(q) > 0)
      BY <1>1
    <3> QED
      BY <1>1, <3>1, <3>2
  <2>3. buffer'.head = h /\ buffer'.tail = Increased(buffer.tail) /\ buffer'.storage = buffer.storage
        /\ buffer'.empty = buffer.empty
    BY <2>1, StoredParts
  <2>4. Lies(buffer', h, ideal')
    BY <1>1, <1>2, <1>4, <2>1, <2>2, <2>3, LiesAppend
  <2>5. ~buffer'.empty => Len(ideal') > 1
    BY <1>4, <1>9, <2>2, <2>3, LeftsTell
  <2> QED
    BY <1>3, <1>7, <2>1, <2>2, <2>3, <2>4, <2>5, LeftsTell DEF ResponsesBody
<1>10. CASE todo = Add2
  <2>1. todo' = Add1 /\ Head(todo) = "notEmpty" /\ ideal' = q /\ q # <<>>
    BY <1>3, <1>5, <1>10, StatementsLeft, LeftsTell DEF ResponsesBody
  <2>2. buffer'.head = h /\ buffer'.tail = buffer.tail /\ buffer'.storage = buffer.storage
        /\ buffer'.empty = FALSE
    BY <2>1, StoredParts
  <2>3. Lies(buffer', h, ideal')
    BY <1>1, <1>2, <1>4, <2>1, <2>2, LiesSame
  <2> QED
    BY <1>3, <1>7, <2>1, <2>2, <2>3, LeftsTell DEF ResponsesBody
<1>11. CASE todo = Add1
  <2>1. /\ todo' = <<>> /\ Head(todo) = "fullIfEqual" /\ ideal' = q
        /\ (seen.tail # seen.head => Len(q) < StorageSize)
    BY <1>3, <1>5, <1>11, StatementsLeft, LeftsTell DEF ResponsesBody
  <2>2. buffer'.head = h /\ buffer'.tail = buffer.tail /\ buffer'.storage = buffer.storage
        /\ buffer'.full = (seen.tail = seen.head) /\ buffer'.empty = buffer.empty
    BY <2>1, StoredParts
  <2>3. Lies(buffer', h, ideal')
    BY <1>1, <1>2, <1>4, <2>1, <2>2, LiesSame
  <2>4. Len(ideal') = StorageSize => buffer'.full
    <3>1. ASSUME Len(q) = StorageSize PROVE seen.tail = seen.head
      <4>1. ~(Len(q) < StorageSize)
        BY <1>1, <3>1
      <4> QED
        BY <2>1, <4>1
    <3> QED
      BY <2>1, <2>2, <3>1
  <2> QED
    BY <1>3, <1>4, <1>7, <1>11, <2>1, <2>2, <2>3, <2>4, LeftsTell DEF ResponsesBody
<1> QED
  BY <1>4, <1>8, <1>9, <1>10, <1>11

(* Every step, of the main loop or the interrupt, keeps the invariant of   *)
(* responses.                                                              *)
LEMMA ResponsesStep ==
  ASSUME MaxInterrupts <= 1, BaseInv, ResponsesInv, [SharedNext]_sharedVars
  PROVE  ResponsesInv'
<1> SUFFICES ASSUME use' = "responses" PROVE ResponsesBody'
  BY DEF ResponsesInv, ResponsesBody
<1>1. use = "responses"
  BY DEF SharedNext, StartAdd, StartPop, StartClear, Start, Load, Store, InterruptAdds,
         InterruptPops, InterruptRests, Interrupts, StartTransmission, Owned
<1>2. ResponsesBody
  BY <1>1 DEF ResponsesInv, ResponsesBody
<1>3. ~Busy => ~loaded
  BY DEF BaseInv, ControlInv
<1>4. CASE UNCHANGED sharedVars
  BY <1>2, <1>4 DEF ResponsesBody, Agreed, vars
<1>5. CASE StartAdd
  <2>1. /\ buffer' = buffer /\ ~loaded' /\ moved' = moved /\ todo = <<>> /\ ~Refuses(buffer)
        /\ todo' = IF buffer.full THEN Add5 ELSE Add4
        /\ ideal' = IF buffer.full THEN Rest(ideal) ELSE ideal
    BY <1>3, <1>5, StatementsAre DEF StartAdd, Start, Busy
  <2>2. ~buffer.full
    BY <1>1, <2>1, UsesAre DEF BaseInv, ControlInv, Refuses
  <2>3. Len(ideal) < StorageSize
    <3>1. Len(ideal) # StorageSize /\ Len(ideal) <= StorageSize
      BY <1>2, <2>1, <2>2 DEF ResponsesBody, Lies
    <3>2. Len(ideal) \in Nat
      BY TypesMean
    <3> QED
      BY <3>1, <3>2, BufferAssumption DEF BufferAssumption
  <2>4. todo' = Add4 /\ ideal' = ideal
    BY <2>1, <2>2
  <2>5. Lies(buffer, buffer.head, ideal) /\ Agreed /\ (buffer.empty <=> ideal = <<>>)
    BY <1>2, <2>1, LeftsTell DEF ResponsesBody
  <2> QED
    BY <2>1, <2>3, <2>4, <2>5, LeftsTell DEF ResponsesBody, Agreed
<1>6. CASE Load
  <2>1. /\ buffer' = buffer /\ ideal' = ideal /\ todo' = todo /\ value' = value
        /\ moved' = moved /\ interrupts' = interrupts
        /\ seen'.head = buffer.head /\ seen'.tail = buffer.tail
    BY <1>6 DEF Load
  <2>2. buffer.tail # buffer.head => Len(ideal) < StorageSize
    <3>1. /\ buffer \in Rings(Values) /\ buffer.head \in Places /\ ideal \in Seq(Values)
          /\ Len(ideal) \in Nat
      BY TypesMean
    <3>2. /\ buffer.tail = buffer.head <=> Len(ideal) \in {0, StorageSize}
          /\ Len(ideal) \in 0..StorageSize
      BY <1>2, <3>1, LiesRound DEF ResponsesBody
    <3> QED
      BY <3>1, <3>2, BufferAssumption DEF BufferAssumption
  <2> QED
    BY <1>2, <2>1, <2>2 DEF ResponsesBody, Agreed
<1>7. CASE Store
  <2>1. Busy /\ op \in Sharing("responses").main
    BY <1>1, <1>7, NextStatement DEF Store, BaseInv, ControlInv
  <2>2. op = "ADD"
    BY <2>1, UsesAre
  <2> QED
    BY <1>2, <1>7, <2>2, ResponseStored
<1>8. CASE InterruptPops
  <2>1. /\ Transmits /\ ~buffer.empty /\ UNCHANGED <<todo, loaded, seen, value>>
        /\ Busy => interrupts < MaxInterrupts /\ interrupts' = interrupts + 1
    BY <1>8 DEF InterruptPops, Interrupts
  <2> QED
    BY <1>2, <2>1, ResponseTaken
<1>9. CASE InterruptRests
  <2>1. /\ UNCHANGED <<todo, loaded, seen, value, buffer, moved, ideal>>
        /\ interrupts' = 0 => interrupts = 0 \/ ~Busy
    <3>1. interrupts \in Nat
      BY TypesMean, SharedAssumption DEF SharedAssumption
    <3> QED
      BY <1>9, <3>1 DEF InterruptRests, Interrupts
  <2>2. todo = Add2 => Busy
    BY LeftsTell DEF Busy
  <2> QED
    BY <1>2, <2>1, <2>2 DEF ResponsesBody, Agreed
<1>10. CASE StartTransmission
  <2>1. /\ Transmits /\ UNCHANGED <<todo, loaded, seen, value>> /\ ~Busy /\ todo # Add2
    BY <1>10, LeftsTell DEF StartTransmission, Busy
  <2> QED
    BY <1>2, <2>1, ResponseTaken
<1>11. CASE StartPop \/ StartClear \/ InterruptAdds \/ Owned
  BY <1>1, <1>11, UsesAre DEF StartPop, StartClear, Start, InterruptAdds, Interrupts, Owned
<1> QED
  BY <1>4, <1>5, <1>6, <1>7, <1>8, <1>9, <1>10, <1>11 DEF SharedNext

(* Where the elements lie, in the terms of the property.                   *)
LEMMA LiesHolds ==
  ASSUME NEW V, NEW b \in Rings(V), NEW q \in Seq(V), Lies(b, b.head, q)
  PROVE  Holds(b, q)
<1> USE BufferAssumption DEF BufferAssumption
<1>1. /\ b.head \in Nat /\ b.head < StorageSize /\ Len(q) \in Nat /\ Len(q) <= StorageSize
      /\ b.tail = Spot(b.head + Len(q)) /\ DOMAIN q = 1..Len(q)
      /\ \A i \in 1..Len(q) : b.storage[Spot(b.head + i - 1)] = q[i]
  BY DEF Lies, Rings, Places
<1>2. ASSUME NEW x \in Nat, x < StorageSize + StorageSize
      PROVE  x % StorageSize = Spot(x)
  <2>1. CASE x < StorageSize
    BY <2>1 DEF Spot
  <2>2. CASE ~(x < StorageSize)
    BY <1>2, <2>2 DEF Spot
  <2> QED
    BY <2>1, <2>2
<1>3. (b.head + Len(q)) % StorageSize = b.tail
  <2> DEFINE x == b.head + Len(q)
  <2>1. x \in Nat /\ x < StorageSize + StorageSize /\ b.tail = Spot(x)
    BY <1>1
  <2> HIDE DEF x
  <2>2. x % StorageSize = Spot(x)
    BY <1>2, <2>1
  <2> QED
    BY <2>1, <2>2 DEF x
<1>4. ASSUME NEW i \in DOMAIN q PROVE At(b, i - 1) = q[i]
  <2>1. i \in 1..Len(q) /\ b.head + (i - 1) = b.head + i - 1
    BY <1>1
  <2>2. At(b, i - 1) = b.storage[Spot(b.head + (i - 1))]
    <3> DEFINE j == i - 1
    <3>1. j \in Nat
      BY <2>1
    <3> HIDE DEF j
    <3>2. At(b, j) = b.storage[Spot(b.head + j)]
      BY <1>1, <3>1 DEF At, Spot
    <3> QED
      BY <3>2 DEF j
  <2> QED
    BY <1>1, <2>1, <2>2
<1> QED
  BY <1>3, <1>4 DEF Holds

(* What the theorems below follow from.                                    *)
LEMMA TakenKept ==
  ASSUME MaxInterrupts <= 1, StorageSize > 1
  PROVE  SharedSpec => [](BaseInv /\ EventsInv /\ TakenInv /\ ResponsesInv)
<1> DEFINE Inv == BaseInv /\ EventsInv /\ TakenInv /\ ResponsesInv
<1>1. SharedInit => Inv
  BY BaseInit, EventsInit, TakenInit, ResponsesInit
<1>2. Inv /\ [SharedNext]_sharedVars => Inv'
  BY BaseStep, EventsStep, TakenStep, ResponsesStep
<1> QED
  BY <1>1, <1>2, PTL DEF SharedSpec

(* Commands, readings and responses, an interrupt in the middle of an      *)
(* operation, a clear among them, or not: between the operations the array *)
(* holds from its head to its tail what was added and not yet taken, in    *)
(* order and erased if that came within a clear, unless an interrupt has   *)
(* added within an addition or to a full buffer that wraps.  The buffers   *)
(* of the firmware hold more than one element.                             *)
THEOREM PositionsAlwaysTell ==
  ASSUME MaxInterrupts <= 1, StorageSize > 1
  PROVE  SharedSpec => []PositionsTell
<1>1. BaseInv /\ EventsInv /\ TakenInv /\ ResponsesInv => PositionsTell
  <2> SUFFICES ASSUME BaseInv, TakenInv, ResponsesInv, ~Busy, ~Lost,
                      use \in {"commands", "readings", "responses"}
               PROVE  Holds(buffer, ideal)
    BY DEF PositionsTell, Lost
  <2>1. Lies(buffer, buffer.head, ideal)
    <3>1. CASE use = "responses"
      BY <3>1 DEF ResponsesInv
    <3>2. CASE use # "responses"
      BY <3>2 DEF TakenInv, FlagsTrail, Busy
    <3> QED
      BY <3>1, <3>2
  <2>2. buffer \in Rings(Values) /\ ideal \in Seq(Values)
    BY TypesMean
  <2> QED
    BY <2>1, <2>2, LiesHolds
<1> QED
  BY <1>1, TakenKept, PTL

(* What was taken is the oldest element there was.                         *)
LEMMA TakenAgree ==
  ASSUME BaseInv, EventsInv, TakenInv, ResponsesInv, moved # <<>>,
         use \in {"events", "commands", "readings", "responses"},
         ~crossed, ~(use = "commands" /\ overrun)
  PROVE  moved[1] = moved[2]
<1>1. CASE use = "events"
  BY <1>1 DEF EventsInv, Agreed
<1>2. CASE use = "responses"
  BY <1>2 DEF ResponsesInv, Agreed
<1>3. CASE use \in {"commands", "readings"}
  <2>1. ~Lost
    BY <1>3, UsesAre DEF Lost, BaseInv, ControlInv
  <2> QED
    BY <1>3, <2>1 DEF TakenInv, Agreed
<1> QED
  BY <1>1, <1>2, <1>3

(* Whoever takes an element, the main loop or an interrupt, and whatever   *)
(* was cleared in between, takes what is in the place of the oldest there  *)
(* is: commands and the responses to them are not garbled, but where       *)
(* additions cross or commands overrun their buffer.                       *)
THEOREM OldestAlwaysTaken ==
  ASSUME MaxInterrupts <= 1, StorageSize > 1
  PROVE  SharedSpec => []OldestTaken
<1>1. BaseInv /\ EventsInv /\ TakenInv /\ ResponsesInv => OldestTaken
  BY TakenAgree DEF OldestTaken
<1> QED
  BY <1>1, TakenKept, PTL

-------------------------------------------------------------------------------
(***************************************************************************)
(* What is taken was added: no place of the array that was erased.         *)
(***************************************************************************)

(* Until a clear erases one, none of the elements is Zero.                 *)
GenuineInv ==
  /\ op = "ADD" => value # Zero
  /\ ~erased => ideal \in Seq(Numbers \ {Zero})

(* Where OldestTaken tells what is taken.                                  *)
Orderly ==
  /\ use \in {"events", "commands", "readings", "responses"}
  /\ ~crossed /\ ~(use = "commands" /\ overrun)

TakenGenuine == Orderly /\ ~erased /\ moved # <<>> => moved[2] # Zero

(* An element taken from such a queue is none.                             *)
LEMMA OldestGenuine ==
  ASSUME NEW q \in Seq(Numbers \ {Zero})
  PROVE  Rest(q) \in Seq(Numbers \ {Zero}) /\ (q # <<>> => Oldest(q) # Zero)
BY DEF Rest, Oldest

(* Both sides add numbers that are not Zero, and both erase them openly.   *)
LEMMA GenuineStep == BaseInv /\ GenuineInv /\ [SharedNext]_sharedVars => GenuineInv'
<1> SUFFICES ASSUME BaseInv, GenuineInv, [SharedNext]_sharedVars PROVE GenuineInv'
  OBVIOUS
<1> USE TypesMean DEF GenuineInv
<1>1. CASE UNCHANGED sharedVars
  BY <1>1
<1>2. CASE StartAdd
  <2>1. value' # Zero
    BY <1>2, SharedAssumption DEF StartAdd, SharedAssumption, Numbers
  <2>2. ~erased' => ideal' \in Seq(Numbers \ {Zero})
    BY <1>2, OldestGenuine DEF StartAdd, Start
  <2> QED
    BY <2>1, <2>2
<1>3. CASE StartPop \/ StartClear
  BY <1>3 DEF StartPop, StartClear, Start
<1>4. CASE Load
  BY <1>4 DEF Load
<1>5. CASE Store
  <2>1. /\ op' = op /\ value' = value /\ Busy /\ (~erased' => ~erased)
        /\ ~erased' /\ Head(todo) = "erase" => ideal = <<>>
    BY <1>5 DEF Store
  <2>2. Head(todo) = "tail" => op = "ADD"
    BY <2>1, NextStatement, StatementsLeft
  <2>3. ASSUME ~erased' PROVE ideal' \in Seq(Numbers \ {Zero})
    <3>1. ideal \in Seq(Numbers \ {Zero}) /\ Rest(ideal) \in Seq(Numbers \ {Zero})
      BY <2>1, <2>3, OldestGenuine
    <3>2. Head(todo) = "tail" => Append(ideal, value) \in Seq(Numbers \ {Zero})
      BY <2>1, <2>2, <3>1
    <3>3. Head(todo) = "erase" => [i \in DOMAIN ideal |-> Zero] \in Seq(Numbers \ {Zero})
      <4>1. [i \in {} |-> Zero] \in Seq(Numbers \ {Zero})
        <5>1. [i \in 1..0 |-> Zero] \in [1..0 -> Numbers \ {Zero}] /\ 1..0 = {}
          OBVIOUS
        <5> QED
          BY <5>1
      <4>2. DOMAIN <<>> = {}
        OBVIOUS
      <4> QED
        BY <2>1, <2>3, <4>1, <4>2
    <3>4. <<>> \in Seq(Numbers \ {Zero})
      OBVIOUS
    <3> QED
      BY <1>5, <3>1, <3>2, <3>3, <3>4 DEF Store
  <2> QED
    BY <2>1, <2>3
<1>6. CASE InterruptAdds
  <2>1. /\ erased' = erased /\ value' = value /\ op' \in {op, "NONE"}
    BY <1>6 DEF InterruptAdds, Interrupts
  <2>2. added + 1 \in Numbers \ {Zero}
    BY <1>6, SharedAssumption DEF InterruptAdds, SharedAssumption, Numbers
  <2>3. ASSUME ~erased PROVE ideal' \in Seq(Numbers \ {Zero})
    <3>1. ideal \in Seq(Numbers \ {Zero}) /\ Rest(ideal) \in Seq(Numbers \ {Zero})
      BY <2>3, OldestGenuine
    <3>2. /\ Append(ideal, added + 1) \in Seq(Numbers \ {Zero})
          /\ Append(Rest(ideal), added + 1) \in Seq(Numbers \ {Zero})
      BY <2>2, <3>1
    <3> QED
      BY <1>6, <3>1, <3>2 DEF InterruptAdds
  <2> QED
    BY <2>1, <2>3
<1>7. CASE InterruptPops \/ StartTransmission
  <2>1. /\ erased' = erased /\ value' = value /\ op' \in {op, "NONE"} /\ ideal' = Rest(ideal)
    BY <1>7 DEF InterruptPops, Interrupts, StartTransmission, Transmits
  <2> QED
    BY <2>1, OldestGenuine
<1>8. CASE InterruptRests \/ Owned
  <2>1. /\ erased' = erased /\ value' = value /\ op' \in {op, "NONE"} /\ ideal' = ideal
    BY <1>8 DEF InterruptRests, Interrupts, Owned
  <2> QED
    BY <2>1
<1> QED
  BY <1>1, <1>2, <1>3, <1>4, <1>5, <1>6, <1>7, <1>8 DEF SharedNext

(* What each use takes is there to be taken: an element of the queue.      *)
LEMMA TakesOldest ==
  ASSUME BaseInv, EventsInv, TakenInv, ResponsesInv, [SharedNext]_sharedVars, Orderly,
         moved' # moved
  PROVE  ideal # <<>> /\ moved'[2] = Oldest(ideal)
<1> USE TypesMean
<1>1. CASE Store
  <2>1. /\ Busy /\ Head(todo) = "copy" /\ moved' = <<buffer.storage[seen.head], Oldest(ideal)>>
    BY <1>1 DEF Store
  <2>2. todo = Pop4 /\ op = "POP"
    BY <2>1, NextStatement, StatementsLeft
  <2>3. use # "responses"
    BY <2>2, UsesAre DEF BaseInv, ControlInv
  <2>4. CASE use = "events"
    <3>1. PICK b \in Rings(Values), q \in Seq(Values) : Began(b, q)
      BY <2>4 DEF EventsInv
    <3>2. q # <<>> /\ ideal = q
      BY <2>1, <2>2, <3>1 DEF Began, Removing
    <3> QED
      BY <2>1, <3>2
  <2>5. CASE use \in {"commands", "readings"}
    <3>1. ~Lost
      BY <2>5, UsesAre DEF Orderly, Lost, BaseInv, ControlInv
    <3>2. ideal # <<>>
      BY <2>2, <2>5, <3>1 DEF TakenInv, TakenPop
    <3> QED
      BY <2>1, <3>2
  <2> QED
    BY <2>3, <2>4, <2>5 DEF Orderly
<1>2. CASE InterruptPops \/ StartTransmission
  <2>1. Transmits /\ use = "responses"
    BY <1>2, UsesAre DEF InterruptPops, Interrupts, StartTransmission
  <2>2. ~buffer.empty /\ moved' = <<buffer.storage[buffer.head], Oldest(ideal)>>
    BY <2>1 DEF Transmits
  <2>3. ideal # <<>>
    BY <2>1, <2>2 DEF ResponsesInv
  <2> QED
    BY <2>2, <2>3
<1>3. CASE ~(Store \/ InterruptPops \/ StartTransmission)
  BY <1>3 DEF SharedNext, StartAdd, StartPop, StartClear, Start, Load, InterruptAdds,
     InterruptRests, Interrupts, Owned, Orderly, vars
<1> QED
  BY <1>1, <1>2, <1>3

(* No character that nobody typed and no reading that nobody made is       *)
(* taken, nor an event or a response that nobody added, until an interrupt *)
(* has come within a clear: only there a place of the array that was       *)
(* erased comes to be between the positions.                               *)
THEOREM NothingIsInvented ==
  ASSUME MaxInterrupts <= 1, StorageSize > 1
  PROVE  SharedSpec => []NothingInvented
<1> DEFINE Inv == BaseInv /\ EventsInv /\ TakenInv /\ ResponsesInv
<1>1. SharedInit => GenuineInv /\ TakenGenuine
  <2>1. SharedInit => /\ op = "NONE" /\ ideal = <<>> /\ moved = <<>>
    BY DEF SharedInit, Init
  <2>2. <<>> \in Seq(Numbers \ {Zero})
    OBVIOUS
  <2> QED
    BY <2>1, <2>2 DEF GenuineInv, TakenGenuine
<1>2. Inv /\ GenuineInv /\ TakenGenuine /\ [SharedNext]_sharedVars => (GenuineInv /\ TakenGenuine)'
  <2> SUFFICES ASSUME Inv, GenuineInv, TakenGenuine, [SharedNext]_sharedVars,
                      Orderly', ~erased', moved' # <<>>
               PROVE  moved'[2] # Zero
    BY GenuineStep DEF TakenGenuine
  <2>1. use' = use /\ (crossed => crossed') /\ (overrun => overrun') /\ (erased => erased')
    <3>1. CASE InterruptAdds
      BY <3>1 DEF InterruptAdds, Interrupts
    <3>2. CASE Store
      BY <3>2 DEF Store
    <3>3. CASE ~InterruptAdds /\ ~Store
      BY <3>3 DEF SharedNext, StartAdd, StartPop, StartClear, Start, Load,
             InterruptPops, InterruptRests, Interrupts, StartTransmission, Transmits, Owned
    <3> QED
      BY <3>1, <3>2, <3>3
  <2>2. Orderly /\ ~erased
    BY <2>1 DEF Orderly
  <2>3. CASE moved' = moved
    BY <2>2, <2>3 DEF TakenGenuine
  <2>4. CASE moved' # moved
    <3>1. ideal # <<>> /\ moved'[2] = Oldest(ideal)
      BY <2>2, <2>4, TakesOldest
    <3> QED
      BY <2>2, <3>1, OldestGenuine DEF GenuineInv
  <2> QED
    BY <2>3, <2>4
<1>3. Inv /\ TakenGenuine => NothingInvented
  <2> SUFFICES ASSUME Inv, TakenGenuine, Orderly, ~erased, moved # <<>> PROVE moved[1] # Zero
    BY DEF NothingInvented, Orderly
  <2>1. moved[1] = moved[2]
    BY TakenAgree DEF Orderly
  <2> QED
    BY <2>1 DEF TakenGenuine
<1>4. SharedSpec => []Inv
  BY TakenKept
<1> QED
  BY <1>1, <1>2, <1>3, <1>4, PTL DEF SharedSpec

-------------------------------------------------------------------------------
(***************************************************************************)
(* The timers of TCP and UDP, whose queue is cleared with the interrupts   *)
(* enabled.                                                                *)
(***************************************************************************)

(* The timer has not come since the positions are zero, or it has.         *)
Untouched ==
  /\ buffer.tail = 0
  /\ todo # Clear3 => buffer.empty
  /\ todo \notin {Clear3, Clear2} => ~buffer.full

Touched ==
  /\ interrupts = 1 /\ buffer.tail = Increased(0)
  /\ todo \notin {Clear3, Clear2} /\ buffer.full => StorageSize = 1
  /\ todo = <<>> => buffer.storage[0] = Zero

(* The invariant of a clear, in these terms.                               *)
LEMMA ClearMeans ==
  ClearInv <=> (op = "CLEAR" /\ ~overrun =>
                  /\ todo # Clear5 => buffer.head = 0
                  /\ todo \in {<<>>, Clear1, Clear2, Clear3} => Untouched \/ Touched)
BY DEF ClearInv, Untouched, Touched

(* A statement of a clear keeps it.                                        *)
LEMMA ClearStored ==
  ASSUME BaseInv, ClearInv, op = "CLEAR", ~overrun, Store
  PROVE  /\ todo' # Clear5 => buffer'.head = 0
         /\ todo' \in {<<>>, Clear1, Clear2, Clear3} => Untouched' \/ Touched'
<1> USE BufferAssumption DEF BufferAssumption
<1>1. /\ todo' = Tail(todo) /\ Busy /\ interrupts' = interrupts /\ 0 \in Places
  BY DEF Store, Places
<1>2. /\ todo # Clear5 => buffer.head = 0
      /\ todo \in {Clear1, Clear2, Clear3} => Untouched \/ Touched
      /\ todo \in {Clear1, Clear2, Clear3, Clear4, Clear5}
  BY <1>1, ClearMeans, NextStatement
<1>3. CASE todo = Clear5
  <2>1. todo' = Clear4 /\ Head(todo) = "headZero"
    BY <1>1, <1>3, StatementsLeft
  <2>2. buffer'.head = 0
    BY <2>1, StoredParts
  <2> QED
    BY <2>1, <2>2, ClearsDiffer
<1>4. CASE todo = Clear4
  <2>1. todo' = Clear3 /\ Head(todo) = "tailZero" /\ buffer.head = 0
    BY <1>1, <1>2, <1>4, StatementsLeft, ClearsDiffer
  <2>2. buffer'.head = 0 /\ buffer'.tail = 0
    BY <2>1, StoredParts
  <2> QED
    BY <2>1, <2>2 DEF Untouched
<1>5. CASE todo = Clear3
  <2>1. todo' = Clear2 /\ Head(todo) = "setEmpty" /\ buffer.head = 0 /\ (Untouched \/ Touched)
    BY <1>1, <1>2, <1>5, StatementsLeft, ClearsDiffer
  <2>2. buffer'.head = 0 /\ buffer'.tail = buffer.tail /\ buffer'.empty = TRUE
    BY <2>1, StoredParts
  <2>3. Untouched => Untouched'
    BY <2>1, <2>2 DEF Untouched
  <2>4. Touched => Touched'
    BY <1>1, <2>1, <2>2, ClearsDiffer DEF Touched
  <2> QED
    BY <2>1, <2>2, <2>3, <2>4
<1>6. CASE todo = Clear2
  <2>1. todo' = Clear1 /\ Head(todo) = "notFull" /\ buffer.head = 0 /\ (Untouched \/ Touched)
    BY <1>1, <1>2, <1>6, StatementsLeft, ClearsDiffer
  <2>2. /\ buffer'.head = 0 /\ buffer'.tail = buffer.tail /\ buffer'.full = FALSE
        /\ buffer'.empty = buffer.empty
    BY <2>1, StoredParts
  <2>3. Untouched => Untouched'
    BY <1>6, <2>1, <2>2, ClearsDiffer DEF Untouched
  <2>4. Touched => Touched'
    BY <1>1, <2>1, <2>2, ClearsDiffer DEF Touched
  <2> QED
    BY <2>1, <2>2, <2>3, <2>4
<1>7. CASE todo = Clear1
  <2>1. todo' = <<>> /\ Head(todo) = "erase" /\ buffer.head = 0 /\ (Untouched \/ Touched)
    BY <1>1, <1>2, <1>7, StatementsLeft, ClearsDiffer
  <2>2. /\ buffer'.head = 0 /\ buffer'.tail = buffer.tail /\ buffer'.full = buffer.full
        /\ buffer'.empty = buffer.empty /\ buffer'.storage = [p \in Places |-> Zero]
    BY <2>1, StoredParts
  <2>3. Untouched => Untouched'
    BY <1>7, <2>1, <2>2, ClearsDiffer DEF Untouched
  <2>4. Touched => Touched'
    BY <1>1, <1>7, <2>1, <2>2, ClearsDiffer DEF Touched
  <2> QED
    BY <2>1, <2>2, <2>3, <2>4
<1> QED
  BY <1>2, <1>3, <1>4, <1>5, <1>6, <1>7

(* The timer, in the middle of a clear, finds room.                        *)
LEMMA ClearInterrupted ==
  ASSUME MaxInterrupts <= 1, BaseInv, ClearInv, op = "CLEAR", ~overrun, InterruptAdds, Busy,
         ~buffer.full
  PROVE  /\ todo # Clear5 => buffer'.head = 0
         /\ todo \in {Clear1, Clear2, Clear3} => Touched'
<1> USE BufferAssumption DEF BufferAssumption
<1>1. /\ todo' = todo /\ buffer' = Added(buffer, added + 1)
      /\ interrupts < MaxInterrupts /\ interrupts' = interrupts + 1
  BY DEF InterruptAdds, Interrupts
<1>2. interrupts = 0 /\ interrupts' = 1
  BY <1>1, TypesMean, SharedAssumption DEF SharedAssumption
<1>3. /\ buffer'.head = buffer.head /\ buffer'.tail = Increased(buffer.tail)
      /\ buffer'.full = (Increased(buffer.tail) = buffer.head)
  BY <1>1, TypesMean DEF Added, Refuses, Rings
<1>4. /\ todo # Clear5 => buffer.head = 0
      /\ todo \in {Clear1, Clear2, Clear3} => Untouched \/ Touched
  BY ClearMeans
<1>5. ASSUME todo \in {Clear1, Clear2, Clear3} PROVE Touched'
  <2>1. buffer.head = 0 /\ buffer.tail = 0 /\ todo # <<>>
    BY <1>2, <1>4, <1>5, ClearsDiffer DEF Untouched, Touched
  <2>2. Increased(0) = 0 => StorageSize = 1
    BY DEF Increased
  <2> QED
    BY <1>1, <1>2, <1>3, <2>1, <2>2 DEF Touched
<1> QED
  BY <1>3, <1>4, <1>5

(* Every step keeps it.                                                    *)
LEMMA ClearStep ==
  ASSUME MaxInterrupts <= 1, BaseInv, ClearInv, [SharedNext]_sharedVars
  PROVE  ClearInv'
<1> SUFFICES ASSUME op' = "CLEAR", ~overrun'
             PROVE  /\ todo' # Clear5 => buffer'.head = 0
                    /\ todo' \in {<<>>, Clear1, Clear2, Clear3} => Untouched' \/ Touched'
  BY DEF ClearInv, Untouched, Touched
<1>1. CASE UNCHANGED sharedVars
  BY <1>1, ClearMeans DEF Untouched, Touched, vars
<1>2. CASE StartClear
  <2>1. todo' = Clear5
    BY <1>2, StatementsAre DEF StartClear
  <2> QED
    BY <2>1, ClearsDiffer
<1>3. CASE Load
  <2>1. UNCHANGED <<buffer, todo, op, overrun, interrupts>>
    BY <1>3 DEF Load
  <2> QED
    BY <2>1, ClearMeans DEF Untouched, Touched
<1>4. CASE Store
  <2>1. op' = op /\ overrun' = overrun
    BY <1>4 DEF Store
  <2> QED
    BY <1>4, <2>1, ClearStored
<1>5. CASE InterruptAdds
  <2>1. /\ Busy /\ op = "CLEAR" /\ ~overrun /\ ~buffer.full /\ todo' = todo
    BY <1>5 DEF InterruptAdds, Interrupts
  <2>2. todo \in {Clear1, Clear2, Clear3, Clear4, Clear5}
    BY <2>1, NextStatement
  <2>3. /\ todo # Clear5 => buffer'.head = 0
        /\ todo \in {Clear1, Clear2, Clear3} => Touched'
    BY <1>5, <2>1, ClearInterrupted
  <2> QED
    BY <2>1, <2>2, <2>3, ClearsDiffer
<1>6. CASE StartAdd \/ StartPop
  BY <1>6 DEF StartAdd, StartPop, Start
<1>7. CASE InterruptPops \/ InterruptRests \/ StartTransmission \/ Owned
  <2>1. use \in {"responses", "owned"} /\ (op' = op \/ op' = "NONE")
    BY <1>7, TypesMean, UsesAre DEF InterruptPops, InterruptRests, Interrupts,
       StartTransmission, Owned
  <2>2. op # "CLEAR"
    BY <2>1, UsesAre DEF BaseInv, ControlInv
  <2> QED
    BY <2>1, <2>2
<1> QED
  BY <1>1, <1>2, <1>3, <1>4, <1>5, <1>6, <1>7 DEF SharedNext

(* circular_buffer_clear, interrupted by the timer at any of its           *)
(* statements, leaves an empty queue or the one event, erased, and never   *)
(* a queue that holds anything else.                                       *)
THEOREM ClearLeavesAtMostOne ==
  ASSUME MaxInterrupts <= 1
  PROVE  SharedSpec => []ClearLeavesOne
<1> USE BufferAssumption DEF BufferAssumption
<1>1. SharedInit => BaseInv /\ ClearInv
  BY BaseInit DEF SharedInit, ClearInv
<1>2. BaseInv /\ ClearInv /\ [SharedNext]_sharedVars => (BaseInv /\ ClearInv)'
  BY BaseStep, ClearStep
<1>3. BaseInv /\ ClearInv => ClearLeavesOne
  <2> SUFFICES ASSUME BaseInv, ClearInv, op = "CLEAR", ~Busy, ~overrun
               PROVE  \E elements \in {<<>>, <<added>>, <<Zero>>} :
                        /\ Holds(buffer, elements) /\ Contents(buffer) \in {<<>>, elements}
                        /\ interrupts = 0 => elements = <<>>
    BY DEF ClearLeavesOne
  <2>1. /\ todo = <<>> /\ buffer.head = 0 /\ (Untouched \/ Touched)
        /\ todo \notin {Clear2, Clear3}
    BY ClearMeans, ClearsDiffer DEF Busy
  <2>2. CASE Untouched
    <3>1. buffer.tail = 0 /\ buffer.empty
      BY <2>1, <2>2, ClearsDiffer DEF Untouched
    <3>2. (0 + 0) % StorageSize = 0
      OBVIOUS
    <3>3. Holds(buffer, <<>>)
      BY <2>1, <3>1, <3>2 DEF Holds
    <3>4. Contents(buffer) = <<>>
      BY <3>1 DEF Contents, Size
    <3> QED
      BY <3>3, <3>4
  <2>3. CASE Touched
    <3>1. /\ interrupts = 1 /\ buffer.tail = Increased(0) /\ buffer.storage[0] = Zero
          /\ buffer.full => StorageSize = 1
      BY <2>1, <2>3 DEF Touched
    <3>2. At(buffer, 0) = Zero /\ At(buffer, 1 - 1) = Zero
      BY <2>1, <3>1 DEF At
    <3>3. (0 + 1) % StorageSize = Increased(0)
      <4>1. CASE StorageSize = 1
        BY <4>1 DEF Increased
      <4>2. CASE StorageSize # 1
        BY <4>2 DEF Increased
      <4> QED
        BY <4>1, <4>2
    <3>4. Holds(buffer, <<Zero>>)
      BY <2>1, <3>1, <3>2, <3>3 DEF Holds
    <3>5. Size(buffer) \in {0, 1}
      <4>1. CASE StorageSize = 1
        BY <2>1, <3>1, <4>1 DEF Size, Increased
      <4>2. CASE StorageSize # 1
        BY <2>1, <3>1, <4>2 DEF Size, Increased
      <4> QED
        BY <4>1, <4>2
    <3>6. Contents(buffer) \in {<<>>, <<Zero>>}
      BY <3>2, <3>5 DEF Contents
    <3> QED
      BY <3>1, <3>4, <3>6
  <2> QED
    BY <2>1, <2>2, <2>3
<1> QED
  BY <1>1, <1>2, <1>3, PTL DEF SharedSpec

===============================================================================
