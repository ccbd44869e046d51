---------------------------- MODULE InputProofs -----------------------------
(***************************************************************************)
(* Proofs about Input, for every capacity of the ring, every keyboard and  *)
(* every buffer: the ring implements the queue of EventQueue, no modifier  *)
(* sticks and no repeat goes on without a reason.                          *)
(***************************************************************************)
EXTENDS Input, SequenceTheorems, TLAPS

-----------------------------------------------------------------------------
(* The ring.                                                               *)

RingInv ==
    /\ buffer \in [0 .. Capacity - 1 -> Events \cup {Empty}]
    /\ head \in 0 .. Capacity - 1 /\ count \in 0 .. Capacity
    /\ tail = (head + count) % Capacity
    /\ \A i \in 1 .. count : Queue[i] \in Events

(* The remainder of a place at most once around the ring.                  *)
LEMMA ModFacts ==
    \A a \in Nat : a < Capacity + Capacity =>
        a % Capacity = IF a < Capacity THEN a ELSE a - Capacity
  BY InputAssumption

(* What is in the queue.                                                   *)
LEMMA QueueFacts ==
    /\ DOMAIN Queue = 1 .. count
    /\ \A i \in 1 .. count : Queue[i] = buffer[(head + i - 1) % Capacity]
    /\ \A e : Queued(e) <=> \E i \in 1 .. count : Queue[i] = e
  BY DEF Queued, Queue, Range

(* push appends, or does nothing when the ring is full.                    *)
LEMMA PushFacts ==
    ASSUME RingInv, NEW e \in Events, Push(e)
    PROVE  /\ RingInv'
           /\ ~Fits => UNCHANGED ring /\ count' = count
           /\ Fits => count' = count + 1 /\ Queue'[count + 1] = e
           /\ \A i \in 1 .. count : Queue'[i] = Queue[i]
  <1>0. /\ Capacity \in Nat \ {0} /\ head \in Nat /\ count \in Nat
        /\ head < Capacity /\ count <= Capacity
    BY InputAssumption DEF RingInv
  <1>1. CASE ~Fits
    <2>1. UNCHANGED ring
      BY <1>1 DEF Push
    <2>2. Queue' = Queue /\ count' = count
      BY <2>1 DEF ring, Queue
    <2> QED BY <1>1, <2>1, <2>2 DEF RingInv, ring
  <1>2. CASE Fits
    <2>1. /\ buffer' = [buffer EXCEPT ![tail] = e] /\ head' = head
          /\ tail' = (tail + 1) % Capacity /\ count' = count + 1
      BY <1>2 DEF Push
    <2>2. count < Capacity
      BY <1>2 DEF Fits
    <2> DEFINE At(i) == (head + i - 1) % Capacity
    <2>3. \A i \in 1 .. count + 1 :
            At(i) = IF head + i - 1 < Capacity THEN head + i - 1
                    ELSE head + i - 1 - Capacity
      <3> SUFFICES ASSUME NEW i \in 1 .. count + 1
                   PROVE  At(i) = IF head + i - 1 < Capacity
                                  THEN head + i - 1
                                  ELSE head + i - 1 - Capacity
        OBVIOUS
      <3>1. head + i - 1 \in Nat /\ head + i - 1 < Capacity + Capacity
        BY <1>0, <2>2
      <3> QED BY <1>0, <3>1, ModFacts
    <2>4. tail = At(count + 1) /\ tail \in 0 .. Capacity - 1
      <3>1. tail = At(count + 1)
        BY <1>0 DEF RingInv
      <3> QED BY <1>0, <2>2, <2>3, <3>1
    <2> HIDE DEF At
    <2>5. \A i \in 1 .. count : At(i) # tail /\ At(i) \in 0 .. Capacity - 1
      BY <1>0, <2>2, <2>3, <2>4
    <2>6. Queue' = [i \in 1 .. count + 1 |-> buffer'[At(i)]]
      BY <2>1 DEF Queue, At
    <2>7. \A i \in 1 .. count : Queue'[i] = Queue[i]
      <3> SUFFICES ASSUME NEW i \in 1 .. count PROVE Queue'[i] = Queue[i]
        OBVIOUS
      <3>1. Queue'[i] = buffer'[At(i)]
        BY <1>0, <2>6
      <3>2. buffer'[At(i)] = buffer[At(i)]
        BY <2>1, <2>5 DEF RingInv
      <3> QED BY <3>1, <3>2, QueueFacts DEF At
    <2>8. Queue'[count + 1] = e
      <3>1. Queue'[count + 1] = buffer'[tail]
        BY <1>0, <2>4, <2>6
      <3> QED BY <2>1, <2>4, <3>1 DEF RingInv
    <2>9. buffer' \in [0 .. Capacity - 1 -> Events \cup {Empty}]
      BY <2>1 DEF RingInv
    <2>10. tail' = (head' + count') % Capacity
      <3>1. tail + 1 \in Nat /\ tail + 1 < Capacity + Capacity
        BY <1>0, <2>4
      <3>2. /\ head + count \in Nat /\ head + count < Capacity + Capacity
            /\ head + (count + 1) \in Nat
            /\ head + (count + 1) < Capacity + Capacity
        BY <1>0, <2>2
      <3>3. tail = IF head + count < Capacity THEN head + count
                   ELSE head + count - Capacity
        <4>1. (head + count) % Capacity =
                 IF head + count < Capacity THEN head + count
                 ELSE head + count - Capacity
          BY <1>0, <3>2, ModFacts
        <4> QED BY <4>1 DEF RingInv
      <3>4. (tail + 1) % Capacity = IF tail + 1 < Capacity THEN tail + 1
                                    ELSE tail + 1 - Capacity
        <4>1. tail \in Nat
          BY <2>4
        <4> QED BY <1>0, <3>1, <4>1, ModFacts
      <3>5. (head + (count + 1)) % Capacity =
               IF head + (count + 1) < Capacity THEN head + (count + 1)
               ELSE head + (count + 1) - Capacity
        BY <1>0, <3>2, ModFacts
      <3> QED BY <1>0, <2>1, <2>2, <3>3, <3>4, <3>5
    <2>11. count' \in 0 .. Capacity
      BY <1>0, <2>1, <2>2
    <2>12. \A i \in 1 .. count' : Queue'[i] \in Events
      <3>1. \A i \in 1 .. count' : i \in 1 .. count \/ i = count + 1
        BY <1>0, <2>1
      <3> QED BY <2>7, <2>8, <3>1 DEF RingInv
    <2> QED BY <1>2, <2>1, <2>7, <2>8, <2>9, <2>10, <2>11, <2>12 DEF RingInv
  <1> QED BY <1>1, <1>2

(* pop takes the oldest and leaves the others in their order.              *)
LEMMA PopFacts ==
    ASSUME RingInv, Pop
    PROVE  /\ RingInv'
           /\ count \in Nat /\ count > 0 /\ count' = count - 1
           /\ Oldest = Queue[1] /\ Oldest \in Events
           /\ \A i \in 1 .. count - 1 : Queue'[i] = Queue[i + 1]
  <1>0. /\ Capacity \in Nat \ {0} /\ head \in Nat /\ count \in Nat
        /\ head < Capacity /\ count <= Capacity
    BY InputAssumption DEF RingInv
  <1>1. /\ buffer' = [buffer EXCEPT ![head] = Empty] /\ tail' = tail
        /\ head' = (head + 1) % Capacity
        /\ count > 0 /\ count' = count - 1
    BY DEF Pop
  <1>2. head' = IF head + 1 < Capacity THEN head + 1 ELSE head + 1 - Capacity
    <2>1. head + 1 \in Nat /\ head + 1 < Capacity + Capacity
      BY <1>0
    <2> QED BY <1>0, <1>1, <2>1, ModFacts
  <1> DEFINE At(i) == (head + i - 1) % Capacity
  <1>3. \A i \in 1 .. count :
          At(i) = IF head + i - 1 < Capacity THEN head + i - 1
                  ELSE head + i - 1 - Capacity
    <2> SUFFICES ASSUME NEW i \in 1 .. count
                 PROVE  At(i) = IF head + i - 1 < Capacity
                                THEN head + i - 1
                                ELSE head + i - 1 - Capacity
      OBVIOUS
    <2>1. head + i - 1 \in Nat /\ head + i - 1 < Capacity + Capacity
      BY <1>0
    <2> QED BY <1>0, <2>1, ModFacts
  <1>4. \A i \in 1 .. count - 1 : (head' + i - 1) % Capacity = At(i + 1)
    <2> SUFFICES ASSUME NEW i \in 1 .. count - 1
                 PROVE  (head' + i - 1) % Capacity = At(i + 1)
      OBVIOUS
    <2>1. /\ head' \in Nat
          /\ head' + i - 1 \in Nat /\ head' + i - 1 < Capacity + Capacity
      BY <1>0, <1>2
    <2>2. (head' + i - 1) % Capacity =
             IF head' + i - 1 < Capacity THEN head' + i - 1
             ELSE head' + i - 1 - Capacity
      <3>1. PICK h \in Nat : h = head'
        BY <2>1
      <3>2. h + i - 1 \in Nat /\ h + i - 1 < Capacity + Capacity
        BY <2>1, <3>1
      <3>3. (h + i - 1) % Capacity =
              IF h + i - 1 < Capacity THEN h + i - 1
              ELSE h + i - 1 - Capacity
        BY ONLY <1>0, <3>2, ModFacts, h \in Nat, i \in 1 .. count - 1
      <3> QED BY <3>1, <3>3
    <2>3. i + 1 \in 1 .. count
      BY <1>0
    <2>4. At(i + 1) = IF head + (i + 1) - 1 < Capacity
                      THEN head + (i + 1) - 1
                      ELSE head + (i + 1) - 1 - Capacity
      BY <1>3, <2>3
    <2> HIDE DEF At
    <2> QED BY <1>0, <1>2, <2>2, <2>4
  <1>5. At(1) = head
    <2>1. 1 \in 1 .. count
      BY <1>0, <1>1
    <2> HIDE DEF At
    <2> QED BY <1>0, <1>3, <2>1
  <1>6. Oldest = Queue[1] /\ Queue[1] \in Events
    <2>1. 1 \in 1 .. count
      BY <1>0, <1>1
    <2> QED BY <1>5, <2>1, QueueFacts DEF Oldest, RingInv
  <1> HIDE DEF At
  <1>7. \A i \in 1 .. count - 1 : At(i + 1) # head
                                  /\ At(i + 1) \in 0 .. Capacity - 1
    <2> SUFFICES ASSUME NEW i \in 1 .. count - 1
                 PROVE  At(i + 1) # head /\ At(i + 1) \in 0 .. Capacity - 1
      OBVIOUS
    <2>1. i + 1 \in 1 .. count
      BY <1>0
    <2>2. At(i + 1) = IF head + (i + 1) - 1 < Capacity
                      THEN head + (i + 1) - 1
                      ELSE head + (i + 1) - 1 - Capacity
      BY <1>3, <2>1
    <2> QED BY <1>0, <2>2
  <1>8. \A i \in 1 .. count - 1 : Queue'[i] = Queue[i + 1]
    <2> SUFFICES ASSUME NEW i \in 1 .. count - 1
                 PROVE  Queue'[i] = Queue[i + 1]
      OBVIOUS
    <2>1. Queue'[i] = buffer'[(head' + i - 1) % Capacity]
      BY <1>1 DEF Queue
    <2>2. Queue'[i] = buffer'[At(i + 1)]
      BY <1>4, <2>1
    <2>3. buffer'[At(i + 1)] = buffer[At(i + 1)]
      BY <1>1, <1>7 DEF RingInv
    <2>4. i + 1 \in 1 .. count
      BY <1>0
    <2>5. Queue[i + 1] = buffer[At(i + 1)]
      BY <2>4, QueueFacts DEF At
    <2> QED BY <2>2, <2>3, <2>5
  <1>9. RingInv'
    <2>1. buffer' \in [0 .. Capacity - 1 -> Events \cup {Empty}]
      BY <1>1 DEF RingInv
    <2>2. head' \in 0 .. Capacity - 1 /\ count' \in 0 .. Capacity
      BY <1>0, <1>1, <1>2
    <2>3. tail' = (head' + count') % Capacity
      <3>1. /\ head + count \in Nat /\ head + count < Capacity + Capacity
            /\ head' \in Nat /\ count' \in Nat
            /\ head' + count' \in Nat /\ head' + count' < Capacity + Capacity
        BY <1>0, <1>1, <1>2
      <3>2. tail = IF head + count < Capacity THEN head + count
                   ELSE head + count - Capacity
        <4>1. (head + count) % Capacity =
                 IF head + count < Capacity THEN head + count
                 ELSE head + count - Capacity
          BY <1>0, <3>1, ModFacts
        <4> QED BY <4>1 DEF RingInv
      <3>3. (head' + count') % Capacity =
               IF head' + count' < Capacity THEN head' + count'
               ELSE head' + count' - Capacity
        <4>1. PICK h \in Nat, c \in Nat : h = head' /\ c = count'
          BY <3>1
        <4>2. h + c \in Nat /\ h + c < Capacity + Capacity
          BY <3>1, <4>1
        <4>3. (h + c) % Capacity =
                IF h + c < Capacity THEN h + c ELSE h + c - Capacity
          BY ONLY <1>0, <4>2, ModFacts, h \in Nat, c \in Nat
        <4> QED BY <4>1, <4>3
      <3> QED BY <1>0, <1>1, <1>2, <3>2, <3>3
    <2>4. \A i \in 1 .. count' : Queue'[i] \in Events
      <3>1. \A i \in 1 .. count' : i \in 1 .. count - 1 /\ i + 1 \in 1 .. count
        BY <1>0, <1>1
      <3> QED BY <1>8, <3>1 DEF RingInv
    <2> QED BY <2>1, <2>2, <2>3, <2>4 DEF RingInv
  <1> QED BY <1>0, <1>1, <1>6, <1>8, <1>9

-----------------------------------------------------------------------------
(* Keys.                                                                   *)

KeyTypes ==
    /\ user \in Users
    /\ ctrl \in [Consumers -> BOOLEAN]
    /\ missed \in [Consumers -> SUBSET Keys]
    /\ repeat \in [key : (Keys \ Modifier) \cup {None}, due : BOOLEAN]
    /\ ghost \in SUBSET (Keys \ Modifier)

(* The release of k comes after the i-th event of the queue.               *)
Followed(i, k) == \E j \in 1 .. count : j > i /\ Queue[j] = KeyRelease(k)

(* A key that the consumer c will find pressed at i is one it may take for *)
(* pressed.                                                                *)
PressInv ==
    \A i \in 1 .. count : \A k \in Keys : Queue[i] = KeyPress(k) =>
        /\ \/ k \in held \/ Followed(i, k)
           \/ k \in missed["shell"] \cup ghost
        /\ k \in Ctrl => \/ k \in held \/ Followed(i, k)
                         \/ k \in missed["desktop"]

IInv == RingInv /\ KeyTypes /\ PressInv /\ ModifiersAreReal /\ RepeatsEnd

(* Events tell a press, a release and a click apart.                       *)
LEMMA EventFacts ==
    /\ \A k, l : KeyPress(k) = KeyPress(l) => k = l
    /\ \A k, l : KeyRelease(k) = KeyRelease(l) => k = l
    /\ \A k, l : KeyPress(k) # KeyRelease(l) /\ KeyPress(k) # Click(l)
    /\ \A k, l : KeyRelease(k) # Click(l)
    /\ \A k : KeyPress(k).type = "press" /\ KeyPress(k).key = k
    /\ \A k : KeyRelease(k).type = "release" /\ KeyRelease(k).key = k
    /\ \A k : Click(k).type = "click" /\ Click(k).key = k
  <1>1. \A t, k : Event(t, k).type = t /\ Event(t, k).key = k
    BY DEF Event
  <1> QED BY <1>1 DEF KeyPress, KeyRelease, Click

(* The events there are.                                                   *)
LEMMA EventCases ==
    ASSUME NEW e \in Events
    PROVE  \/ \E k \in Keys : e = KeyPress(k)
           \/ \E k \in Keys : e = KeyRelease(k)
           \/ \E c \in Clicks : e = Click(c)
  BY DEF Events

(* What a push does to the events that wait.                               *)
LEMMA PushQueue ==
    ASSUME RingInv, NEW e \in Events, Push(e)
    PROVE  /\ RingInv'
           /\ \A r : Queued(r) => Queued(r)'
           /\ \A k : \A i \in 1 .. count : Followed(i, k) => Followed(i, k)'
           /\ \A k : \A i \in 1 .. count' : Queue'[i] = KeyPress(k) =>
                (i \in 1 .. count /\ Queue[i] = KeyPress(k)) \/ e = KeyPress(k)
           /\ Fits => \A k : e = KeyRelease(k) =>
                Queued(KeyRelease(k))' /\ \A i \in 1 .. count : Followed(i, k)'
           /\ ~Fits => count' = count /\ Queue' = Queue
  <1>0. count \in Nat
    BY InputAssumption DEF RingInv
  <1>1. /\ RingInv'
        /\ ~Fits => UNCHANGED ring /\ count' = count
        /\ Fits => count' = count + 1 /\ Queue'[count + 1] = e
        /\ \A i \in 1 .. count : Queue'[i] = Queue[i]
    BY PushFacts
  <1>2. 1 .. count \in SUBSET (1 .. count')
    BY <1>0, <1>1
  <1>3. \A r : Queued(r)' <=> \E i \in 1 .. count' : Queue'[i] = r
    BY DEF Queued, Queue, Range
  <1>4. \A r : Queued(r) => Queued(r)'
    BY <1>1, <1>2, <1>3, QueueFacts
  <1>5. \A k : \A i \in 1 .. count : Followed(i, k) => Followed(i, k)'
    BY <1>1, <1>2 DEF Followed
  <1>6. \A k : \A i \in 1 .. count' : Queue'[i] = KeyPress(k) =>
           (i \in 1 .. count /\ Queue[i] = KeyPress(k)) \/ e = KeyPress(k)
    <2>1. \A i \in 1 .. count' : i \in 1 .. count \/ (Fits /\ i = count + 1)
      BY <1>0, <1>1
    <2> QED BY <1>1, <2>1
  <1>7. ASSUME Fits, NEW k, e = KeyRelease(k)
        PROVE  Queued(KeyRelease(k))' /\ \A i \in 1 .. count : Followed(i, k)'
    <2>1. /\ count + 1 \in 1 .. count' /\ Queue'[count + 1] = KeyRelease(k)
          /\ \A i \in 1 .. count : count + 1 > i
      BY <1>0, <1>1, <1>7
    <2> QED BY <1>3, <2>1 DEF Followed
  <1>8. ~Fits => Queue' = Queue
    BY <1>1 DEF ring, Queue
  <1> QED BY <1>1, <1>4, <1>5, <1>6, <1>7, <1>8

(* What a pop does to the events that wait.                                *)
LEMMA PopQueue ==
    ASSUME RingInv, Pop
    PROVE  /\ RingInv' /\ Oldest \in Events
           /\ 1 \in 1 .. count /\ Oldest = Queue[1]
           /\ \A r : Queued(r) => r = Oldest \/ Queued(r)'
           /\ \A k : Followed(1, k) => Queued(KeyRelease(k))'
           /\ \A i \in 1 .. count' : /\ i + 1 \in 1 .. count
                                     /\ Queue'[i] = Queue[i + 1]
           /\ \A k : \A i \in 1 .. count' :
                Followed(i + 1, k) => Followed(i, k)'
  <1>1. /\ RingInv' /\ Oldest = Queue[1] /\ Oldest \in Events
        /\ count \in Nat /\ count > 0 /\ count' = count - 1
        /\ \A i \in 1 .. count - 1 : Queue'[i] = Queue[i + 1]
    BY PopFacts
  <1>2. \A i \in 1 .. count' : i + 1 \in 1 .. count /\ Queue'[i] = Queue[i + 1]
    BY <1>1
  <1>3. \A j \in 1 .. count : j = 1 \/ (/\ j - 1 \in 1 .. count'
                                        /\ Queue'[j - 1] = Queue[j])
    <2>1. \A j \in 1 .. count : j = 1 \/ (j - 1 \in 1 .. count'
                                          /\ (j - 1) + 1 = j)
      BY <1>1
    <2> QED BY <1>2, <2>1
  <1>4. \A r : Queued(r)' <=> \E i \in 1 .. count' : Queue'[i] = r
    BY DEF Queued, Queue, Range
  <1>5. \A r : Queued(r) => r = Oldest \/ Queued(r)'
    BY <1>1, <1>3, <1>4, QueueFacts
  <1>6. \A k : Followed(1, k) => Queued(KeyRelease(k))'
    <2> SUFFICES ASSUME NEW k, Followed(1, k) PROVE Queued(KeyRelease(k))'
      OBVIOUS
    <2>1. PICK j \in 1 .. count : j > 1 /\ Queue[j] = KeyRelease(k)
      BY DEF Followed
    <2>2. j # 1
      BY <2>1
    <2> QED BY <1>3, <1>4, <2>1, <2>2
  <1>7. \A k : \A i \in 1 .. count' : Followed(i + 1, k) => Followed(i, k)'
    <2> SUFFICES ASSUME NEW k, NEW i \in 1 .. count', Followed(i + 1, k)
                 PROVE  Followed(i, k)'
      OBVIOUS
    <2>1. PICK j \in 1 .. count : j > i + 1 /\ Queue[j] = KeyRelease(k)
      BY DEF Followed
    <2>2. j # 1 /\ j - 1 > i
      BY <1>1, <2>1
    <2>3. j - 1 \in 1 .. count' /\ Queue'[j - 1] = KeyRelease(k)
      BY <1>3, <2>1, <2>2
    <2> QED BY <2>2, <2>3 DEF Followed
  <1>8. 1 \in 1 .. count
    BY <1>1
  <1> QED BY <1>1, <1>2, <1>5, <1>6, <1>7, <1>8

(* A step that pushes what somebody holds or the kernel repeats, or that   *)
(* leaves the ring alone.                                                  *)
LEMMA PushInv ==
    ASSUME IInv, KeyTypes', NEW e,
           (e \in Events /\ Push(e)) \/ UNCHANGED ring,
           ctrl' = ctrl, repeat'.key = repeat.key, missed' = missed,
           held \in SUBSET held', ghost \in SUBSET ghost',
           \A k \in Keys : e = KeyPress(k) =>
               k \in held' \/ (k \in ghost' /\ k \notin Ctrl)
                 \/ UNCHANGED ring
    PROVE  IInv'
  <1>1. CASE UNCHANGED ring
    <2>1. Queue' = Queue /\ count' = count
      BY <1>1 DEF ring, Queue
    <2>2. RingInv'
      BY <1>1, <2>1 DEF IInv, RingInv, ring
    <2>3. PressInv'
      BY <2>1 DEF IInv, PressInv, Followed
    <2>4. ModifiersAreReal'
      BY <2>1 DEF IInv, ModifiersAreReal, Queued
    <2>5. RepeatsEnd'
      BY <2>1 DEF IInv, RepeatsEnd, Queued
    <2> QED BY <2>2, <2>3, <2>4, <2>5 DEF IInv
  <1>2. CASE e \in Events /\ Push(e) /\ ~UNCHANGED ring
    <2>1. /\ RingInv'
          /\ \A r : Queued(r) => Queued(r)'
          /\ \A k : \A i \in 1 .. count : Followed(i, k) => Followed(i, k)'
          /\ \A k : \A i \in 1 .. count' : Queue'[i] = KeyPress(k) =>
               (i \in 1 .. count /\ Queue[i] = KeyPress(k)) \/ e = KeyPress(k)
      BY <1>2, PushQueue DEF IInv
    <2>2. PressInv'
      <3> SUFFICES ASSUME NEW i \in 1 .. count', NEW k \in Keys,
                          Queue'[i] = KeyPress(k)
                   PROVE  /\ \/ k \in held' \/ Followed(i, k)'
                             \/ k \in missed'["shell"] \cup ghost'
                          /\ k \in Ctrl => \/ k \in held' \/ Followed(i, k)'
                                           \/ k \in missed'["desktop"]
        BY DEF PressInv
      <3>1. CASE e = KeyPress(k)
        BY <1>2, <3>1
      <3>2. CASE i \in 1 .. count /\ Queue[i] = KeyPress(k)
        BY <2>1, <3>2 DEF IInv, PressInv
      <3> QED BY <2>1, <3>1, <3>2
    <2>3. ModifiersAreReal'
      BY <2>1 DEF IInv, ModifiersAreReal
    <2>4. RepeatsEnd'
      BY <2>1 DEF IInv, RepeatsEnd
    <2> QED BY <2>1, <2>2, <2>3, <2>4 DEF IInv
  <1> QED BY <1>1, <1>2

(* Somebody lets a key go: the release waits, or is missed by all whom it  *)
(* concerns.                                                               *)
LEMMA KeyUpInv ==
    ASSUME IInv, NEW k \in Keys, KeyUp(k), UNCHANGED user
    PROVE  IInv'
  <1>1. KeyRelease(k) \in Events
    BY DEF Events
  <1>2. Push(KeyRelease(k)) /\ held' = held \ {k} /\ UNCHANGED <<ctrl, repeat>>
    BY DEF KeyUp
  <1>3. /\ RingInv'
        /\ \A r : Queued(r) => Queued(r)'
        /\ \A l : \A i \in 1 .. count : Followed(i, l) => Followed(i, l)'
        /\ \A l : \A i \in 1 .. count' : Queue'[i] = KeyPress(l) =>
             i \in 1 .. count /\ Queue[i] = KeyPress(l)
        /\ Fits => /\ Queued(KeyRelease(k))'
                   /\ \A i \in 1 .. count : Followed(i, k)'
    BY <1>1, <1>2, PushQueue, EventFacts DEF IInv
  <1>4. /\ missed' \in [Consumers -> SUBSET Keys]
        /\ \A c \in Consumers : \A l :
             l # k /\ l \in missed[c] => l \in missed'[c]
        /\ ~Fits => /\ k \in missed'["shell"]
                    /\ k \in Ctrl => k \in missed'["desktop"]
    BY DEF KeyUp, IInv, KeyTypes, Consumers
  <1>5. /\ ghost' \in SUBSET (Keys \ Modifier)
        /\ \A l : l # k /\ l \in ghost => l \in ghost'
    BY DEF KeyUp, IInv, KeyTypes
  <1>6. KeyTypes'
    BY <1>2, <1>4, <1>5 DEF IInv, KeyTypes
  <1>7. PressInv'
    <2> SUFFICES ASSUME NEW i \in 1 .. count', NEW l \in Keys,
                        Queue'[i] = KeyPress(l)
                 PROVE  /\ \/ l \in held' \/ Followed(i, l)'
                           \/ l \in missed'["shell"] \cup ghost'
                        /\ l \in Ctrl => \/ l \in held' \/ Followed(i, l)'
                                         \/ l \in missed'["desktop"]
      BY DEF PressInv
    <2>1. i \in 1 .. count /\ Queue[i] = KeyPress(l)
      BY <1>3
    <2>2. CASE l = k
      BY <1>3, <1>4, <2>1, <2>2
    <2>3. CASE l # k
      BY <1>2, <1>3, <1>4, <1>5, <2>1, <2>3 DEF IInv, PressInv, Consumers
    <2> QED BY <2>2, <2>3
  <1>8. ModifiersAreReal'
    <2> SUFFICES ASSUME NEW c \in Consumers, ctrl'[c]
                 PROVE  \E l \in Ctrl : \/ l \in held' \/ Queued(KeyRelease(l))'
                                        \/ l \in missed'[c]
      BY DEF ModifiersAreReal
    <2>1. PICK l \in Ctrl : \/ l \in held \/ Queued(KeyRelease(l))
                            \/ l \in missed[c]
      BY <1>2 DEF IInv, ModifiersAreReal
    <2>2. CASE l = k
      BY <1>3, <1>4, <2>2 DEF Consumers
    <2>3. CASE l # k
      BY <1>2, <1>3, <1>4, <2>1, <2>3
    <2> QED BY <2>2, <2>3
  <1>9. RepeatsEnd'
    <2> SUFFICES ASSUME NEW l, l = repeat'.key, l # None
                 PROVE  \/ l \in held' \/ Queued(KeyRelease(l))'
                        \/ l \in missed'["shell"] \cup ghost'
      BY DEF RepeatsEnd, Queued
    <2>1. \/ l \in held \/ Queued(KeyRelease(l))
          \/ l \in missed["shell"] \cup ghost
      BY <1>2 DEF IInv, RepeatsEnd
    <2>2. CASE l = k
      BY <1>3, <1>4, <2>2
    <2>3. CASE l # k
      BY <1>2, <1>3, <1>4, <1>5, <2>1, <2>3 DEF Consumers
    <2> QED BY <2>2, <2>3
  <1> QED BY <1>3, <1>6, <1>7, <1>8, <1>9 DEF IInv

(* A consumer that takes Ctrl for pressed after the event it has read may. *)
LEMMA UpdatedFacts ==
    ASSUME IInv, Pop, NEW c \in Consumers
    PROVE  /\ Updated(ctrl[c], Oldest) \in BOOLEAN
           /\ Updated(ctrl[c], Oldest) =>
                \E k \in Ctrl : \/ k \in held \/ Queued(KeyRelease(k))'
                                \/ k \in missed[c]
  <1> DEFINE e == Oldest
  <1>1. /\ e \in Events /\ 1 \in 1 .. count /\ e = Queue[1]
        /\ \A r : Queued(r) => r = e \/ Queued(r)'
        /\ \A k : Followed(1, k) => Queued(KeyRelease(k))'
    BY PopQueue DEF IInv
  <1> HIDE DEF e
  <1>2. ctrl[c] \in BOOLEAN
    BY DEF IInv, KeyTypes
  <1>3. Updated(ctrl[c], e) \in BOOLEAN
    BY <1>2 DEF Updated
  <1>4. ASSUME Updated(ctrl[c], e)
        PROVE  \E k \in Ctrl : \/ k \in held \/ Queued(KeyRelease(k))'
                               \/ k \in missed[c]
    <2>1. CASE e.key \in Ctrl /\ e.type = "press"
      <3>1. PICK k \in Keys : e = KeyPress(k)
        BY <1>1, <2>1, EventCases, EventFacts
      <3>2. k \in Ctrl
        BY <2>1, <3>1, EventFacts
      <3>3. /\ \/ k \in held \/ Followed(1, k)
               \/ k \in missed["shell"] \cup ghost
            /\ k \in held \/ Followed(1, k) \/ k \in missed["desktop"]
        BY <1>1, <3>1, <3>2 DEF IInv, PressInv
      <3>4. k \notin ghost
        BY <3>2 DEF IInv, KeyTypes, Modifier
      <3> QED BY <1>1, <3>2, <3>3, <3>4 DEF Consumers
    <2>2. CASE ~(e.key \in Ctrl /\ e.type = "press")
      <3>1. ctrl[c] /\ ~(e.key \in Ctrl /\ e.type = "release")
        BY <1>4, <2>2 DEF Updated
      <3>2. PICK k \in Ctrl : \/ k \in held \/ Queued(KeyRelease(k))
                              \/ k \in missed[c]
        BY <3>1 DEF IInv, ModifiersAreReal
      <3>3. e # KeyRelease(k)
        BY <3>1, EventFacts
      <3> QED BY <1>1, <3>2, <3>3
    <2> QED BY <2>1, <2>2
  <1> QED BY <1>3, <1>4 DEF e

(* What a pop leaves true of the presses that wait.                        *)
LEMMA PopPress ==
    ASSUME IInv, Pop, held' = held, ghost' = ghost,
           \A c \in Consumers : missed[c] \in SUBSET missed'[c]
    PROVE  PressInv'
  <1>1. /\ \A i \in 1 .. count' : /\ i + 1 \in 1 .. count
                                  /\ Queue'[i] = Queue[i + 1]
        /\ \A k : \A i \in 1 .. count' :
             Followed(i + 1, k) => Followed(i, k)'
    BY PopQueue DEF IInv
  <1> SUFFICES ASSUME NEW i \in 1 .. count', NEW k \in Keys,
                      Queue'[i] = KeyPress(k)
               PROVE  /\ \/ k \in held' \/ Followed(i, k)'
                         \/ k \in missed'["shell"] \cup ghost'
                      /\ k \in Ctrl => \/ k \in held' \/ Followed(i, k)'
                                       \/ k \in missed'["desktop"]
    BY DEF PressInv
  <1>2. i + 1 \in 1 .. count /\ Queue[i + 1] = KeyPress(k)
    BY <1>1
  <1>3. /\ k \in held \/ Followed(i + 1, k) \/ k \in missed["shell"] \cup ghost
        /\ k \in Ctrl => \/ k \in held \/ Followed(i + 1, k)
                         \/ k \in missed["desktop"]
    BY <1>2 DEF IInv, PressInv
  <1>4. missed["shell"] \in SUBSET missed'["shell"]
        /\ missed["desktop"] \in SUBSET missed'["desktop"]
    BY DEF Consumers
  <1> QED BY <1>1, <1>3, <1>4

(* One turn of drain_ascii.                                                *)
LEMMA ReadEventInv == ASSUME IInv, ReadEvent, UNCHANGED user PROVE IInv'
  <1> DEFINE e == Oldest
             shell == Updated(ctrl["shell"], e)
             other == IF HandedOn(e) THEN Updated(ctrl["desktop"], e)
                      ELSE ctrl["desktop"]
  <1>1. /\ Pop /\ NoteKeyForRepeat(e) /\ held' = held /\ ghost' = ghost
        /\ ctrl' = [c \in Consumers |-> IF c = "shell" THEN shell ELSE other]
        /\ missed' = IF e.type = "release" /\ e.key \in Ctrl
                     THEN [missed EXCEPT !["desktop"] = @ \cup {e.key}]
                     ELSE missed
    BY DEF ReadEvent
  <1>2. /\ RingInv' /\ e \in Events /\ 1 \in 1 .. count /\ e = Queue[1]
        /\ \A r : Queued(r) => r = e \/ Queued(r)'
        /\ \A k : Followed(1, k) => Queued(KeyRelease(k))'
    BY <1>1, PopQueue DEF IInv
  <1>3. e.type \in {"press", "release"} => e.key \in Keys
    <2> HIDE DEF e
    <2> QED BY <1>2, EventCases, EventFacts
  <1>4. /\ \A c \in Consumers : missed[c] \in SUBSET missed'[c]
        /\ missed' \in [Consumers -> SUBSET Keys]
        /\ \A k \in Ctrl : e = KeyRelease(k) => k \in missed'["desktop"]
    <2> HIDE DEF e
    <2>1. CASE e.type = "release" /\ e.key \in Ctrl
      <3>1. /\ missed \in [Consumers -> SUBSET Keys] /\ e.key \in Keys
            /\ missed' = [missed EXCEPT !["desktop"] = @ \cup {e.key}]
        BY <1>1, <1>3, <2>1 DEF IInv, KeyTypes
      <3> QED BY <3>1, EventFacts DEF Consumers
    <2>2. CASE ~(e.type = "release" /\ e.key \in Ctrl)
      BY <1>1, <2>2, EventFacts DEF IInv, KeyTypes
    <2> QED BY <2>1, <2>2
  <1>5. PressInv'
    BY <1>1, <1>4, PopPress
  <1>6. ctrl'["shell"] = shell /\ ctrl'["desktop"] = other
    BY <1>1 DEF Consumers
  <1>7. /\ shell \in BOOLEAN
        /\ shell => \E k \in Ctrl : \/ k \in held \/ Queued(KeyRelease(k))'
                                    \/ k \in missed["shell"]
    BY <1>1, UpdatedFacts DEF Consumers
  <1>8. /\ other \in BOOLEAN
        /\ other => \E k \in Ctrl : \/ k \in held \/ Queued(KeyRelease(k))'
                                    \/ k \in missed'["desktop"]
    <2>1. "desktop" \in Consumers
      BY DEF Consumers
    <2>2. CASE HandedOn(e)
      BY <1>1, <1>4, <2>1, <2>2, UpdatedFacts
    <2>3. CASE ~HandedOn(e)
      <3>1. other = ctrl["desktop"] /\ other \in BOOLEAN
        BY <2>1, <2>3 DEF IInv, KeyTypes
      <3>2. ASSUME other
            PROVE  \E k \in Ctrl : \/ k \in held \/ Queued(KeyRelease(k))'
                                   \/ k \in missed'["desktop"]
        <4>1. PICK k \in Ctrl : \/ k \in held \/ Queued(KeyRelease(k))
                                \/ k \in missed["desktop"]
          BY <2>1, <3>1, <3>2 DEF IInv, ModifiersAreReal
        <4> HIDE DEF e
        <4> QED BY <1>2, <1>4, <2>1, <4>1
      <3> QED BY <3>1, <3>2
    <2> QED BY <2>2, <2>3
  <1> HIDE DEF shell, other
  <1>9. ModifiersAreReal'
    <2> SUFFICES ASSUME NEW c \in Consumers, ctrl'[c]
                 PROVE  \E k \in Ctrl : \/ k \in held' \/ Queued(KeyRelease(k))'
                                        \/ k \in missed'[c]
      BY DEF ModifiersAreReal
    <2>1. CASE c = "shell"
      BY <1>1, <1>4, <1>6, <1>7, <2>1
    <2>2. CASE c = "desktop"
      BY <1>1, <1>6, <1>8, <2>2
    <2> QED BY <2>1, <2>2 DEF Consumers
  <1> HIDE DEF e
  <1>10. /\ repeat' \in [key : (Keys \ Modifier) \cup {None}, due : BOOLEAN]
         /\ \/ repeat'.key = None
            \/ repeat'.key = repeat.key /\ e # KeyRelease(repeat.key)
            \/ e = KeyPress(repeat'.key) /\ repeat'.key \in Keys
    <2>0. repeat \in [key : (Keys \ Modifier) \cup {None}, due : BOOLEAN]
      BY DEF IInv, KeyTypes
    <2>1. CASE e.type = "press" /\ e.key \notin Modifier /\ repeat.key # e.key
      <3>1. repeat' = [key |-> e.key, due |-> FALSE]
        BY <1>1, <2>1 DEF NoteKeyForRepeat
      <3>2. e = KeyPress(e.key)
        BY <1>2, <2>1, EventCases, EventFacts
      <3> QED BY <1>3, <2>1, <3>1, <3>2
    <2>2. CASE /\ ~(e.type = "press" /\ e.key \notin Modifier
                    /\ repeat.key # e.key)
               /\ e.type = "release" /\ repeat.key = e.key
      <3>1. repeat' = [key |-> None, due |-> FALSE]
        BY <1>1, <2>2 DEF NoteKeyForRepeat
      <3> QED BY <3>1
    <2>3. CASE /\ ~(e.type = "press" /\ e.key \notin Modifier
                    /\ repeat.key # e.key)
               /\ ~(e.type = "release" /\ repeat.key = e.key)
      <3>1. repeat' = repeat
        BY <1>1, <2>3 DEF NoteKeyForRepeat
      <3>2. e # KeyRelease(repeat.key)
        BY <2>3, EventFacts
      <3> QED BY <2>0, <3>1, <3>2
    <2> QED BY <2>1, <2>2, <2>3
  <1>11. RepeatsEnd'
    <2> SUFFICES ASSUME NEW l, l = repeat'.key, l # None
                 PROVE  \/ l \in held' \/ Queued(KeyRelease(l))'
                        \/ l \in missed'["shell"] \cup ghost'
      BY DEF RepeatsEnd, Queued
    <2>1. missed["shell"] \in SUBSET missed'["shell"]
      BY <1>4 DEF Consumers
    <2>2. CASE l = repeat.key /\ e # KeyRelease(l)
      <3>1. \/ l \in held \/ Queued(KeyRelease(l))
            \/ l \in missed["shell"] \cup ghost
        BY <2>2 DEF IInv, RepeatsEnd
      <3> QED BY <1>1, <1>2, <2>1, <2>2, <3>1
    <2>3. CASE e = KeyPress(l) /\ l \in Keys
      <3>1. \/ l \in held \/ Followed(1, l)
            \/ l \in missed["shell"] \cup ghost
        BY <1>2, <2>3 DEF IInv, PressInv
      <3> QED BY <1>1, <1>2, <2>1, <3>1
    <2> QED BY <1>10, <2>2, <2>3
  <1>12. KeyTypes'
    <2>1. ctrl' \in [Consumers -> BOOLEAN]
      BY <1>1, <1>7, <1>8
    <2> QED BY <1>1, <1>4, <1>10, <2>1 DEF IInv, KeyTypes
  <1> QED BY <1>2, <1>5, <1>9, <1>11, <1>12 DEF IInv

(* One turn of dispatch_pending_inputs.                                    *)
LEMMA DispatchEventInv ==
    ASSUME IInv, DispatchEvent, UNCHANGED user
    PROVE  IInv'
  <1> DEFINE e == Oldest
             new == Updated(ctrl["desktop"], e)
  <1>1. /\ Pop /\ held' = held /\ ghost' = ghost /\ repeat' = repeat
        /\ ctrl' = [ctrl EXCEPT !["desktop"] = new]
        /\ missed' = IF e.type = "release"
                     THEN [missed EXCEPT !["shell"] = @ \cup {e.key}]
                     ELSE missed
    BY DEF DispatchEvent
  <1>2. /\ RingInv' /\ e \in Events
        /\ \A r : Queued(r) => r = e \/ Queued(r)'
    BY <1>1, PopQueue DEF IInv
  <1>3. /\ new \in BOOLEAN
        /\ new => \E k \in Ctrl : \/ k \in held \/ Queued(KeyRelease(k))'
                                  \/ k \in missed["desktop"]
    BY <1>1, UpdatedFacts DEF Consumers
  <1> HIDE DEF e, new
  <1>4. e.type \in {"press", "release"} => e.key \in Keys
    BY <1>2, EventCases, EventFacts
  <1>5. /\ \A c \in Consumers : missed[c] \in SUBSET missed'[c]
        /\ missed' \in [Consumers -> SUBSET Keys]
        /\ \A k : e = KeyRelease(k) => k \in missed'["shell"]
    <2>1. CASE e.type = "release"
      <3>1. /\ missed \in [Consumers -> SUBSET Keys] /\ e.key \in Keys
            /\ missed' = [missed EXCEPT !["shell"] = @ \cup {e.key}]
        BY <1>1, <1>4, <2>1 DEF IInv, KeyTypes
      <3> QED BY <3>1, EventFacts DEF Consumers
    <2>2. CASE e.type # "release"
      BY <1>1, <2>2, EventFacts DEF IInv, KeyTypes
    <2> QED BY <2>1, <2>2
  <1>6. PressInv'
    BY <1>1, <1>5, PopPress
  <1>7. /\ ctrl' \in [Consumers -> BOOLEAN]
        /\ ctrl'["shell"] = ctrl["shell"] /\ ctrl'["desktop"] = new
    BY <1>1, <1>3 DEF IInv, KeyTypes, Consumers
  <1>8. ModifiersAreReal'
    <2> SUFFICES ASSUME NEW c \in Consumers, ctrl'[c]
                 PROVE  \E k \in Ctrl : \/ k \in held' \/ Queued(KeyRelease(k))'
                                        \/ k \in missed'[c]
      BY DEF ModifiersAreReal
    <2>1. CASE c = "shell"
      <3>1. PICK k \in Ctrl : \/ k \in held \/ Queued(KeyRelease(k))
                              \/ k \in missed[c]
        BY <1>7, <2>1 DEF IInv, ModifiersAreReal
      <3> QED BY <1>1, <1>2, <1>5, <2>1, <3>1
    <2>2. CASE c = "desktop"
      BY <1>1, <1>3, <1>5, <1>7, <2>2
    <2> QED BY <2>1, <2>2 DEF Consumers
  <1>9. RepeatsEnd'
    <2> SUFFICES ASSUME NEW l, l = repeat'.key, l # None
                 PROVE  \/ l \in held' \/ Queued(KeyRelease(l))'
                        \/ l \in missed'["shell"] \cup ghost'
      BY DEF RepeatsEnd, Queued
    <2>1. missed["shell"] \in SUBSET missed'["shell"]
      BY <1>5 DEF Consumers
    <2>2. \/ l \in held \/ Queued(KeyRelease(l))
          \/ l \in missed["shell"] \cup ghost
      BY <1>1 DEF IInv, RepeatsEnd
    <2> QED BY <1>1, <1>2, <1>5, <2>1, <2>2
  <1>10. KeyTypes'
    BY <1>1, <1>5, <1>7 DEF IInv, KeyTypes
  <1> QED BY <1>2, <1>6, <1>8, <1>9, <1>10 DEF IInv

(* service_auto_repeat pushes a press of the key it repeats or nothing.    *)
LEMMA ServiceFacts ==
    ASSUME IInv, ServiceAutoRepeat
    PROVE  /\ repeat' \in [key : (Keys \ Modifier) \cup {None}, due : BOOLEAN]
           /\ ghost' \in SUBSET (Keys \ Modifier)
           /\ repeat'.key = repeat.key /\ ghost \in SUBSET ghost'
           /\ \/ UNCHANGED ring
              \/ /\ KeyPress(repeat.key) \in Events /\ Push(KeyPress(repeat.key))
                 /\ repeat.key \in held \cup ghost' /\ repeat.key \notin Ctrl
  <1>0. /\ repeat \in [key : (Keys \ Modifier) \cup {None}, due : BOOLEAN]
        /\ ghost \in SUBSET (Keys \ Modifier)
    BY DEF IInv, KeyTypes
  <1>1. CASE repeat.key # None /\ repeat.due
    <2>1. /\ Push(KeyPress(repeat.key))
          /\ repeat' = [repeat EXCEPT !.due = FALSE]
          /\ ghost' = IF repeat.key \in held THEN ghost
                      ELSE ghost \cup {repeat.key}
      BY <1>1 DEF ServiceAutoRepeat
    <2>2. repeat.key \in Keys \ Modifier
      BY <1>0, <1>1
    <2>3. KeyPress(repeat.key) \in Events /\ repeat.key \notin Ctrl
      BY <2>2 DEF Events, Modifier
    <2>4. /\ repeat' \in [key : (Keys \ Modifier) \cup {None}, due : BOOLEAN]
          /\ repeat'.key = repeat.key
      BY <1>0, <2>1
    <2> QED BY <1>0, <2>1, <2>2, <2>3, <2>4
  <1>2. CASE ~(repeat.key # None /\ repeat.due)
    BY <1>0, <1>2 DEF ServiceAutoRepeat
  <1> QED BY <1>1, <1>2

(* Nothing is pressed when the kernel starts.                              *)
LEMMA InvInit == InputInit => IInv
  <1> SUFFICES ASSUME InputInit PROVE IInv
    OBVIOUS
  <1>1. Capacity \in Nat \ {0}
    BY InputAssumption
  <1>2. RingInv
    <2>1. 0 < Capacity + Capacity /\ 0 \in Nat /\ 0 < Capacity
      BY <1>1
    <2>2. 0 % Capacity = 0
      BY <2>1, ModFacts
    <2>3. buffer \in [0 .. Capacity - 1 -> Events \cup {Empty}]
      BY DEF InputInit
    <2>4. head \in 0 .. Capacity - 1 /\ count \in 0 .. Capacity
      BY <1>1 DEF InputInit
    <2>5. tail = (head + count) % Capacity
      BY <2>2 DEF InputInit
    <2> QED BY <2>3, <2>4, <2>5 DEF InputInit, RingInv
  <1>3. KeyTypes
    <2>1. repeat \in [key : (Keys \ Modifier) \cup {None}, due : BOOLEAN]
      BY DEF InputInit
    <2> QED BY <2>1 DEF InputInit, KeyTypes
  <1>4. PressInv
    BY DEF InputInit, PressInv
  <1>5. ModifiersAreReal
    BY DEF InputInit, ModifiersAreReal
  <1>6. RepeatsEnd
    BY DEF InputInit, RepeatsEnd
  <1> QED BY <1>2, <1>3, <1>4, <1>5, <1>6 DEF IInv

(* Every step of a device, a consumer or the clock keeps the invariant.    *)
LEMMA InvStep == IInv /\ [InputNext]_inputVars => IInv'
  <1> SUFFICES ASSUME IInv, [InputNext]_inputVars PROVE IInv'
    OBVIOUS
  <1>0. user.keys \in SUBSET Keys /\ user.clicks \in SUBSET Clicks
    BY DEF IInv, KeyTypes, Keys, Clicks
  <1>1. ASSUME NEW k \in user.keys, KeyDown(k), UNCHANGED user PROVE IInv'
    <2>1. k \in Keys /\ KeyPress(k) \in Events
      BY <1>0 DEF Events
    <2>2. /\ Push(KeyPress(k)) /\ held' = held \cup {k}
          /\ UNCHANGED <<ctrl, repeat, missed, ghost>>
      BY <1>1 DEF KeyDown
    <2>3. KeyTypes'
      BY <1>1, <2>2 DEF IInv, KeyTypes
    <2>4. \A l \in Keys : KeyPress(k) = KeyPress(l) => l \in held'
      BY <2>2, EventFacts
    <2> QED BY <2>1, <2>2, <2>3, <2>4, PushInv
  <1>2. ASSUME NEW k \in user.keys, KeyUp(k), UNCHANGED user PROVE IInv'
    BY <1>0, <1>2, KeyUpInv
  <1>3. ASSUME NEW c \in user.clicks, ClickAt(c), UNCHANGED user PROVE IInv'
    <2>1. Click(c) \in Events
      BY <1>0 DEF Events
    <2>2. Push(Click(c)) /\ UNCHANGED <<ctrl, repeat, held, missed, ghost>>
      BY <1>3 DEF ClickAt
    <2>3. KeyTypes'
      BY <1>3, <2>2 DEF IInv, KeyTypes
    <2>4. \A l \in Keys : Click(c) # KeyPress(l)
      BY EventFacts
    <2> QED BY <2>1, <2>2, <2>3, <2>4, PushInv
  <1>4. ASSUME ServiceAutoRepeat, UNCHANGED <<ctrl, held, missed, user>>
        PROVE  IInv'
    <2>1. KeyTypes'
      BY <1>4, ServiceFacts DEF IInv, KeyTypes
    <2>2. \A l : KeyPress(repeat.key) = KeyPress(l) => l = repeat.key
      BY EventFacts
    <2> QED BY <1>4, <2>1, <2>2, ServiceFacts, PushInv
  <1>5. ASSUME UNCHANGED <<ring, ctrl, held, missed, ghost, user>>,
               repeat'.key = repeat.key,
               repeat' \in [key : (Keys \ Modifier) \cup {None},
                            due : BOOLEAN]
        PROVE  IInv'
    <2>1. KeyTypes'
      BY <1>5 DEF IInv, KeyTypes
    <2> QED BY <1>5, <2>1, PushInv
  <1>6. CASE Due /\ UNCHANGED user
    <2>1. /\ UNCHANGED <<ring, ctrl, held, missed, ghost>>
          /\ repeat' = [repeat EXCEPT !.due = TRUE]
      BY <1>6 DEF Due
    <2>2. repeat \in [key : (Keys \ Modifier) \cup {None}, due : BOOLEAN]
      BY DEF IInv, KeyTypes
    <2>3. /\ repeat' \in [key : (Keys \ Modifier) \cup {None}, due : BOOLEAN]
          /\ repeat'.key = repeat.key
      BY <2>1, <2>2
    <2> QED BY <1>5, <1>6, <2>1, <2>3
  <1>7. CASE (\E n \in ReadSizes : Read(n)) /\ UNCHANGED user
    BY <1>4, <1>7 DEF Read
  <1>8. CASE HaltLoop /\ UNCHANGED user
    BY <1>4, <1>8 DEF HaltLoop
  <1>9. CASE (ReadEnd \/ Yield \/ DispatchEnd \/ LaunchDesktop)
             /\ UNCHANGED user
    <2>1. UNCHANGED <<ring, ctrl, repeat, held, missed, ghost>>
      BY <1>9 DEF ReadEnd, Yield, DispatchEnd, LaunchDesktop
    <2> QED BY <1>5, <1>9, <2>1 DEF IInv, KeyTypes
  <1>10. CASE UNCHANGED inputVars
    <2>1. UNCHANGED <<ring, ctrl, repeat, held, missed, ghost, user>>
      BY <1>10 DEF inputVars
    <2> QED BY <1>5, <2>1 DEF IInv, KeyTypes
  <1>11. CASE ReadEvent /\ UNCHANGED user
    BY <1>11, ReadEventInv
  <1>12. CASE DispatchEvent /\ UNCHANGED user
    BY <1>12, DispatchEventInv
  <1> QED BY <1>1, <1>2, <1>3, <1>6, <1>7, <1>8, <1>9, <1>10, <1>11, <1>12
          DEF InputNext, Step

(* It is an invariant.                                                     *)
LEMMA InvCorrect == InputSpec => []IInv
  BY InvInit, InvStep, PTL DEF InputSpec

(* No modifier sticks, for any ring, keyboard and order of the consumers:  *)
(* a consumer takes Ctrl for pressed only while a Ctrl key is down, its    *)
(* release waits, or that release was one it could not see.                *)
THEOREM ModifiersCorrect == InputSpec => []ModifiersAreReal
  <1>1. IInv => ModifiersAreReal
    BY DEF IInv
  <1> QED BY <1>1, InvCorrect, PTL

(* A key that came up stops repeating once its release is read, unless the *)
(* shell missed it or a repeat was pushed behind it.                       *)
THEOREM RepeatsCorrect == InputSpec => []RepeatsEnd
  <1>1. IInv => RepeatsEnd
    BY DEF IInv
  <1> QED BY <1>1, InvCorrect, PTL

-----------------------------------------------------------------------------
(* The ring implements the queue.                                          *)

(* A step leaves the ring alone, pushes an event or pops one.              *)
LEMMA RingSteps ==
    ASSUME IInv, [InputNext]_inputVars
    PROVE  UNCHANGED ring \/ (\E e \in Events : Push(e)) \/ Pop
  <1>0. user.keys \in SUBSET Keys /\ user.clicks \in SUBSET Clicks
    BY DEF IInv, KeyTypes, Keys, Clicks
  <1>1. ASSUME NEW k \in user.keys, KeyDown(k) \/ KeyUp(k)
        PROVE  \E e \in Events : Push(e)
    <2>1. KeyPress(k) \in Events /\ KeyRelease(k) \in Events
      BY <1>0 DEF Events
    <2> QED BY <1>1, <2>1 DEF KeyDown, KeyUp
  <1>2. ASSUME NEW c \in user.clicks, ClickAt(c)
        PROVE  \E e \in Events : Push(e)
    <2>1. Click(c) \in Events
      BY <1>0 DEF Events
    <2> QED BY <1>2, <2>1 DEF ClickAt
  <1>3. ASSUME ServiceAutoRepeat
        PROVE  UNCHANGED ring \/ (\E e \in Events : Push(e))
    BY <1>3, ServiceFacts
  <1>4. CASE Due \/ ReadEnd \/ Yield \/ DispatchEnd \/ LaunchDesktop
    BY <1>4 DEF Due, ReadEnd, Yield, DispatchEnd, LaunchDesktop
  <1>5. CASE ReadEvent \/ DispatchEvent
    BY <1>5 DEF ReadEvent, DispatchEvent
  <1>6. CASE (\E n \in ReadSizes : Read(n)) \/ HaltLoop
    BY <1>3, <1>6 DEF Read, HaltLoop
  <1>7. CASE UNCHANGED inputVars
    BY <1>7 DEF inputVars
  <1> QED BY <1>1, <1>2, <1>4, <1>5, <1>6, <1>7 DEF InputNext, Step

(* Queue is a sequence of count events.                                    *)
LEMMA QueueIsSeq ==
    RingInv => Queue \in Seq(Events) /\ Len(Queue) = count /\ count \in Nat
  <1> SUFFICES ASSUME RingInv
               PROVE  Queue \in Seq(Events) /\ Len(Queue) = count
                      /\ count \in Nat
    OBVIOUS
  <1>1. count \in Nat /\ \A i \in 1 .. count : Queue[i] \in Events
    BY InputAssumption DEF RingInv
  <1>2. Queue = [i \in 1 .. count |-> Queue[i]]
    BY DEF Queue
  <1> QED BY <1>1, <1>2

(* A step of the program is a step of the queue or leaves it as it is.     *)
LEMMA QueueStep ==
    ASSUME IInv, [InputNext]_inputVars
    PROVE  [AbstractQueue!Next]_Queue
  <1>0. RingInv /\ Queue \in Seq(Events) /\ Len(Queue) = count /\ count \in Nat
    BY QueueIsSeq DEF IInv
  <1>1. CASE UNCHANGED ring
    BY <1>1 DEF ring, Queue
  <1>2. ASSUME NEW e \in Events, Push(e) PROVE [AbstractQueue!Next]_Queue
    <2>1. CASE ~Fits
      BY <1>0, <1>2, <2>1, PushQueue
    <2>2. CASE Fits
      <3>1. /\ RingInv' /\ count' = count + 1 /\ Queue'[count + 1] = e
            /\ \A i \in 1 .. count : Queue'[i] = Queue[i]
        BY <1>0, <1>2, <2>2, PushFacts
      <3>2. Queue' \in Seq(Events) /\ Len(Queue') = count + 1
        <4>1. (RingInv => Queue \in Seq(Events) /\ Len(Queue) = count
                          /\ count \in Nat)'
          BY QueueIsSeq, PTL
        <4> QED BY <3>1, <4>1
      <3> DEFINE q == Append(Queue, e)
      <3>3. /\ q \in Seq(Events) /\ Len(q) = count + 1 /\ q[count + 1] = e
            /\ \A i \in 1 .. count : q[i] = Queue[i]
        BY <1>0, AppendProperties
      <3> HIDE DEF q
      <3>4. \A i \in 1 .. count + 1 : Queue'[i] = q[i]
        <4>1. \A i \in 1 .. count + 1 : i \in 1 .. count \/ i = count + 1
          BY <1>0
        <4> QED BY <3>1, <3>3, <4>1
      <3>5. Queue' = q
        BY <3>2, <3>3, <3>4, SeqEqual
      <3>6. Len(Queue) < Capacity
        BY <1>0, <2>2 DEF Fits
      <3> QED BY <3>5, <3>6 DEF AbstractQueue!Next, AbstractQueue!Put, q
    <2> QED BY <2>1, <2>2
  <1>3. CASE Pop
    <2>1. /\ RingInv' /\ count > 0 /\ count' = count - 1
          /\ \A i \in 1 .. count - 1 : Queue'[i] = Queue[i + 1]
      BY <1>0, <1>3, PopFacts
    <2>2. Queue' \in Seq(Events) /\ Len(Queue') = count - 1
      <3>1. (RingInv => Queue \in Seq(Events) /\ Len(Queue) = count
                        /\ count \in Nat)'
        BY QueueIsSeq, PTL
      <3> QED BY <2>1, <3>1
    <2>3. Queue # <<>>
      BY <1>0, <2>1, EmptySeq
    <2> DEFINE q == Tail(Queue)
    <2>4. /\ q \in Seq(Events) /\ Len(q) = count - 1
          /\ \A i \in 1 .. count - 1 : q[i] = Queue[i + 1]
      BY <1>0, <2>3, HeadTailProperties
    <2> HIDE DEF q
    <2>5. Queue' = q
      BY <2>1, <2>2, <2>4, SeqEqual
    <2> QED BY <2>3, <2>5 DEF AbstractQueue!Next, AbstractQueue!Take, q
  <1> QED BY <1>1, <1>2, <1>3, RingSteps

(* "push", "pop" and "len" of queue.rs, for every capacity: around its end *)
(* and back again, with two consumers and the kernel's own repeats among   *)
(* the producers, the ring is the queue of EventQueue.                     *)
THEOREM QueueCorrect == InputSpec => ImplementsQueue
  <1>1. InputInit => AbstractQueue!Init
    <2> SUFFICES ASSUME InputInit PROVE Queue = <<>>
      BY DEF AbstractQueue!Init
    <2>1. RingInv /\ count = 0
      BY InvInit DEF IInv, InputInit
    <2>2. Queue \in Seq(Events) /\ Len(Queue) = 0
      BY <2>1, QueueIsSeq
    <2> QED BY <2>2, EmptySeq
  <1>2. IInv /\ [InputNext]_inputVars => [AbstractQueue!Next]_Queue
    BY QueueStep
  <1> QED BY <1>1, <1>2, InvCorrect, PTL
          DEF InputSpec, ImplementsQueue, AbstractQueue!Spec
=============================================================================
