-------------------------- MODULE MetricRingProofs --------------------------
(***************************************************************************)
(* Proofs about MetricRing, for every capacity, every set of readings and  *)
(* any number of pages.                                                    *)
(***************************************************************************)
EXTENDS MetricRing, SequenceTheorems, TLAPS

(***************************************************************************)
(* The ring                                                                *)
(***************************************************************************)

(* Headers that enqueues alone can reach. *)
HeaderOK(h) == h \in Header /\ h.tail \in {0, Mod(h.head + 1)}

Full(h) == h \in Header /\ h.head # -1 /\ h.tail = Mod(h.head + 1)

(* An index below the capacity is its own remainder. *)
LEMMA ModSmall == ASSUME NEW p \in Index PROVE Mod(p) = p
BY CapacityAssumption DEF Mod, Index

(* An index past the end wraps once. *)
LEMMA ModLarge ==
  ASSUME NEW p \in Capacity .. 2 * Capacity - 1 PROVE Mod(p) = p - Capacity
BY CapacityAssumption DEF Mod

(* Every position is an index of the array. *)
LEMMA ModRange == ASSUME NEW p \in Nat PROVE Mod(p) \in Index
BY CapacityAssumption DEF Mod, Index

(* Slots of a ring, without the remainder. *)
LEMMA SlotIs ==
  ASSUME NEW h \in Header, NEW i \in 0..Capacity
  PROVE  Slot(h, i) = IF h.tail + i < Capacity THEN h.tail + i ELSE h.tail + i - Capacity
<1>1. h.tail \in Index  BY DEF Header
<1>2. CASE h.tail + i < Capacity
  BY <1>1, <1>2, ModSmall, CapacityAssumption DEF Slot, Index
<1>3. CASE h.tail + i >= Capacity
  BY <1>1, <1>3, ModLarge, CapacityAssumption DEF Slot, Index
<1>4. QED  BY <1>1, <1>2, <1>3, CapacityAssumption DEF Index

(* Where the next entry is written, without the remainder. *)
LEMMA NextIs ==
  ASSUME NEW h \in Header
  PROVE  Mod(h.head + 1) = IF h.head + 1 < Capacity THEN h.head + 1 ELSE 0
<1>1. h.head \in Index \cup {-1}  BY DEF Header
<1>2. CASE h.head + 1 < Capacity
  BY <1>1, <1>2, ModSmall, CapacityAssumption DEF Index
<1>3. CASE h.head + 1 >= Capacity
  BY <1>1, <1>3, ModLarge, CapacityAssumption DEF Index
<1>4. QED  BY <1>1, <1>2, <1>3, CapacityAssumption DEF Index

(* The header after an enqueue, without the remainders. *)
LEMMA AdvancedIs ==
  ASSUME NEW h, HeaderOK(h)
  PROVE  /\ Advanced(h) \in Header
         /\ Advanced(h).head = (IF h.head + 1 < Capacity THEN h.head + 1 ELSE 0)
         /\ Full(h) => /\ Advanced(h).tail = (IF h.tail + 1 < Capacity THEN h.tail + 1 ELSE 0)
                       /\ Full(Advanced(h))
         /\ ~ Full(h) => h.tail = 0 /\ Advanced(h).tail = 0 /\ h.head + 1 < Capacity
<1> DEFINE n == Mod(h.head + 1)
           t == Mod(h.tail + 1)
<1>1. /\ h \in Header /\ h.head \in Index \cup {-1} /\ h.tail \in Index
      /\ h.tail \in {0, n}
  BY DEF HeaderOK, Header
<1>2. n = IF h.head + 1 < Capacity THEN h.head + 1 ELSE 0
  BY <1>1, NextIs
<1>3. t = IF h.tail + 1 < Capacity THEN h.tail + 1 ELSE 0
  <2> DEFINE g == [head |-> h.tail, tail |-> 0]
  <2>1. g \in Header  BY <1>1, CapacityAssumption DEF Header, Index
  <2>2. Mod(g.head + 1) = IF g.head + 1 < Capacity THEN g.head + 1 ELSE 0
    BY <2>1, NextIs
  <2>3. QED  BY <2>2
<1>4. n \in Index /\ t \in Index
  BY <1>1, <1>2, <1>3, CapacityAssumption DEF Index
<1>5. Advanced(h) = [head |-> n, tail |-> IF h.head # -1 /\ n = h.tail THEN t ELSE h.tail]
  BY DEF Advanced
<1>6. Advanced(h) \in Header /\ Advanced(h).head = n
  BY <1>1, <1>4, <1>5 DEF Header
<1>7. ASSUME Full(h)
      PROVE  Advanced(h).tail = t /\ Full(Advanced(h))
  <2>1. Advanced(h).tail = t  BY <1>5, <1>7 DEF Full
  <2>2. n = h.tail  BY <1>7 DEF Full
  <2>3. Advanced(h).head # -1  BY <1>4, <1>6, CapacityAssumption DEF Index
  <2>4. QED  BY <1>6, <2>1, <2>2, <2>3 DEF Full
<1>8. ASSUME ~ Full(h)
      PROVE  h.tail = 0 /\ Advanced(h).tail = 0 /\ h.head + 1 < Capacity
  <2>1. h.head = -1 \/ n # h.tail  BY <1>1, <1>8 DEF Full
  <2>2. h.tail = 0  BY <1>1, <1>2, <2>1, CapacityAssumption
  <2>3. h.head + 1 < Capacity
    BY <1>1, <1>2, <2>1, <2>2, CapacityAssumption DEF Index
  <2>4. QED  BY <1>5, <2>1, <2>2, <2>3
<1>9. QED  BY <1>2, <1>3, <1>6, <1>7, <1>8

(* A header stays one that enqueues reach. *)
LEMMA AdvancedOK == ASSUME NEW h, HeaderOK(h) PROVE HeaderOK(Advanced(h))
BY AdvancedIs DEF HeaderOK, Full

(* How many entries there are: all of them when the ring is full. *)
LEMMA SizeIs ==
  ASSUME NEW h, HeaderOK(h)
  PROVE  /\ Size(h) = IF Full(h) THEN Capacity ELSE h.head + 1
         /\ Size(h) \in 0..Capacity
         /\ Size(h) = Capacity <=> Full(h)
         /\ Size(h) = 0 <=> h.head = -1
<1>1. /\ h.head \in Index \cup {-1} /\ h.tail \in Index
      /\ h.tail \in {0, Mod(h.head + 1)}
  BY DEF HeaderOK, Header
<1>2. Mod(h.head + 1) = IF h.head + 1 < Capacity THEN h.head + 1 ELSE 0
  BY NextIs DEF HeaderOK
<1>3. Full(h) <=> h.head # -1 /\ h.tail = Mod(h.head + 1)
  BY DEF Full, HeaderOK
<1>4. QED  BY <1>1, <1>2, <1>3, CapacityAssumption DEF Size, Index

(* An enqueue adds an entry, or replaces one when the ring is full. *)
LEMMA SizeAdvanced ==
  ASSUME NEW h, HeaderOK(h)
  PROVE  Size(Advanced(h)) = IF Full(h) THEN Capacity ELSE Size(h) + 1
<1>1. HeaderOK(Advanced(h))  BY AdvancedOK
<1>2. CASE Full(h)  BY <1>1, <1>2, AdvancedIs, SizeIs
<1>3. CASE ~ Full(h)
  <2>1. /\ Advanced(h).head = h.head + 1 /\ Advanced(h).tail = 0
        /\ h.head + 1 < Capacity
    BY <1>3, AdvancedIs
  <2>2. h.head \in Index \cup {-1}  BY DEF HeaderOK, Header
  <2>3. Size(Advanced(h)) = h.head + 2
    BY <2>1, <2>2, CapacityAssumption DEF Size, Index
  <2>4. QED  BY <1>3, <2>2, <2>3, SizeIs DEF Index
<1>4. QED  BY <1>2, <1>3

(* Two entries of a ring are in two slots. *)
LEMMA SlotsDiffer ==
  ASSUME NEW h \in Header, NEW i \in 0..Capacity - 1, NEW j \in 0..Capacity - 1,
         Slot(h, i) = Slot(h, j)
  PROVE  i = j
<1>1. h.tail \in Index  BY DEF Header
<1>2. QED  BY <1>1, SlotIs, CapacityAssumption DEF Index

(* The slots of a full ring: the first is at its tail, the last is its     *)
(* head, and advancing the ring moves each entry down by one.              *)
LEMMA FullSlots ==
  ASSUME NEW h, Full(h), NEW i \in 0..Capacity - 1
  PROVE  /\ Slot(h, i) \in Index
         /\ Slot(h, i) = h.head <=> i = Capacity - 1
         /\ i + 1 < Capacity => Slot(Advanced(h), i) = Slot(h, i + 1)
         /\ i + 1 = Capacity => Slot(Advanced(h), i) = h.tail
         /\ Slot(h, 0) = h.tail
         /\ Mod(h.head + 1) = h.tail
<1>1. HeaderOK(h)  BY DEF Full, HeaderOK
<1>2. /\ h \in Header /\ h.head \in Index /\ h.tail \in Index
      /\ h.tail = IF h.head + 1 < Capacity THEN h.head + 1 ELSE 0
  BY NextIs DEF Full, Header
<1>3. /\ Advanced(h) \in Header
      /\ Advanced(h).tail = IF h.tail + 1 < Capacity THEN h.tail + 1 ELSE 0
  BY <1>1, AdvancedIs
<1>4. \A j \in 0..Capacity :
        Slot(h, j) = IF h.tail + j < Capacity THEN h.tail + j ELSE h.tail + j - Capacity
  BY <1>2, SlotIs
<1>5. Slot(Advanced(h), i) =
        IF Advanced(h).tail + i < Capacity THEN Advanced(h).tail + i
                                           ELSE Advanced(h).tail + i - Capacity
  BY <1>3, SlotIs, CapacityAssumption
<1>6. Slot(h, i) \in Index /\ (Slot(h, i) = h.head <=> i = Capacity - 1)
  BY <1>2, <1>4, CapacityAssumption DEF Index
<1>7. /\ i + 1 < Capacity => Slot(Advanced(h), i) = Slot(h, i + 1)
      /\ i + 1 = Capacity => Slot(Advanced(h), i) = h.tail
  BY <1>2, <1>3, <1>4, <1>5, CapacityAssumption DEF Index
<1>8. Slot(h, 0) = h.tail  BY <1>2, <1>4, CapacityAssumption DEF Index
<1>9. QED  BY <1>6, <1>7, <1>8 DEF Full

(* The values of a ring, one by one. *)
LEMMA ValuesAre ==
  ASSUME NEW b, NEW h, HeaderOK(h)
  PROVE  /\ Len(Values(b, h)) = Size(h)
         /\ \A i \in 1..Size(h) : Values(b, h)[i] = b[Slot(h, i - 1)]
         /\ \A i \in 1..Size(h) : Slot(h, i - 1) \in Index
<1>1. Size(h) \in 0..Capacity  BY SizeIs
<1>2. ASSUME NEW i \in 1..Size(h) PROVE Slot(h, i - 1) \in Index
  <2>1. h.tail + (i - 1) \in Nat  BY <1>1 DEF HeaderOK, Header, Index
  <2>2. i - 1 + h.tail = h.tail + (i - 1)
    BY <1>1 DEF HeaderOK, Header, Index
  <2>3. QED  BY <2>1, <2>2, ModRange DEF Slot
<1>3. Values(b, h) = [i \in 1..Size(h) |-> b[Slot(h, i - 1)]]  BY DEF Values
<1>4. QED  BY <1>1, <1>2, <1>3, CapacityAssumption

(* The values are a sequence over whatever the array holds. *)
LEMMA ValuesSeq ==
  ASSUME NEW b, NEW h, HeaderOK(h), NEW S,
         \A i \in 1..Size(h) : b[Slot(h, i - 1)] \in S
  PROVE  Values(b, h) \in Seq(S)
<1>1. Size(h) \in 0..Capacity  BY SizeIs
<1>2. Values(b, h) = [i \in 1..Size(h) |-> b[Slot(h, i - 1)]]  BY DEF Values
<1>3. QED  BY <1>1, <1>2, CapacityAssumption

(* An enqueue appends to the values, and drops the oldest one when the     *)
(* ring is full.                                                           *)
LEMMA EnqueuePushes ==
  ASSUME NEW S, NEW b \in [Index -> S], NEW v \in S, NEW h, HeaderOK(h)
  PROVE  Values(Written(b, h, v), Advanced(h)) = W!Pushed(Values(b, h), v)
<1> DEFINE old == Values(b, h)
           wb  == Written(b, h, v)
           new == Values(wb, Advanced(h))
           to  == W!Pushed(old, v)
<1>1. /\ HeaderOK(Advanced(h)) /\ h \in Header /\ Advanced(h) \in Header
      /\ h.head \in Index \cup {-1} /\ h.tail \in Index
  BY AdvancedOK DEF HeaderOK, Header
<1>2. wb = [b EXCEPT ![Mod(h.head + 1)] = v] /\ wb \in [Index -> S]
  BY DEF Written
<1>3. /\ old \in Seq(S) /\ Len(old) = Size(h) /\ Size(h) \in 0..Capacity
      /\ \A i \in 1..Size(h) : old[i] = b[Slot(h, i - 1)]
  BY SizeIs, ValuesAre, ValuesSeq
<1>4. /\ new \in Seq(S) /\ Len(new) = Size(Advanced(h))
      /\ \A i \in 1..Size(Advanced(h)) : new[i] = wb[Slot(Advanced(h), i - 1)]
  BY <1>1, <1>2, ValuesAre, ValuesSeq
<1>5. CASE Full(h)
  <2>1. Size(h) = Capacity /\ Size(Advanced(h)) = Capacity
    BY <1>5, SizeIs, SizeAdvanced
  <2>2. to = Append(Tail(old), v)
    BY <1>3, <2>1, CapacityAssumption DEF W!Pushed
  <2>3. /\ Tail(old) \in Seq(S) /\ Len(Tail(old)) = Capacity - 1
        /\ \A i \in 1..Capacity - 1 : Tail(old)[i] = old[i + 1]
    <3>1. old # <<>>  BY <1>3, <2>1, CapacityAssumption
    <3>2. QED  BY <1>3, <2>1, <3>1, HeadTailProperties
  <2>4. /\ to \in Seq(S) /\ Len(to) = Capacity - 1 + 1
        /\ \A i \in 1..Capacity - 1 : to[i] = old[i + 1]
        /\ to[Capacity - 1 + 1] = v
    BY <2>2, <2>3, AppendProperties
  <2>5. ASSUME NEW i \in 1..Capacity - 1 PROVE new[i] = to[i]
    <3>1. i - 1 \in 0..Capacity - 1 /\ i \in 0..Capacity - 1 /\ i - 1 + 1 < Capacity
          /\ i - 1 + 1 = i /\ i + 1 - 1 = i /\ i + 1 \in 1..Capacity /\ i \in 1..Capacity
      BY CapacityAssumption
    <3>2. Slot(Advanced(h), i - 1) = Slot(h, i)
      <4>1. Slot(Advanced(h), i - 1) = Slot(h, i - 1 + 1)
        BY <1>5, <3>1, FullSlots
      <4>2. QED  BY <3>1, <4>1
    <3>3. Slot(h, i) \in Index /\ Slot(h, 0) = h.tail /\ Mod(h.head + 1) = h.tail
      BY <1>5, <3>1, FullSlots
    <3>4. Slot(h, i) # h.tail
      <4>1. 0 \in 0..Capacity - 1 /\ i # 0  BY CapacityAssumption
      <4>2. QED  BY <1>1, <3>1, <3>3, <4>1, SlotsDiffer
    <3>5. old[i + 1] = b[Slot(h, i)]
      <4>1. old[i + 1] = b[Slot(h, i + 1 - 1)]  BY <1>3, <2>1, <3>1
      <4>2. QED  BY <3>1, <4>1
    <3>6. QED  BY <1>2, <1>4, <2>1, <2>4, <3>1, <3>2, <3>3, <3>4, <3>5
  <2>6. new[Capacity] = v
    <3>1. /\ Capacity \in 1..Capacity /\ Capacity - 1 \in 0..Capacity - 1
          /\ Capacity - 1 + 1 = Capacity
      BY CapacityAssumption
    <3>2. Slot(Advanced(h), Capacity - 1) = h.tail /\ Mod(h.head + 1) = h.tail
      BY <1>5, <3>1, FullSlots
    <3>3. QED  BY <1>1, <1>2, <1>4, <2>1, <3>1, <3>2
  <2>7. \A i \in 1..Capacity : new[i] = to[i]
    BY <2>4, <2>5, <2>6, CapacityAssumption
  <2>8. Len(new) = Capacity /\ Len(to) = Capacity
    BY <1>4, <2>1, <2>4, CapacityAssumption
  <2>9. QED  BY <1>4, <2>4, <2>7, <2>8, SeqEqual
<1>6. CASE ~ Full(h)
  <2> DEFINE n == Size(h)
  <2>1. h.tail = 0 /\ Advanced(h).tail = 0 /\ h.head + 1 < Capacity
    BY <1>6, AdvancedIs
  <2>2. /\ n = h.head + 1 /\ Size(Advanced(h)) = n + 1
        /\ n \in Index /\ Mod(h.head + 1) = n
    <3>1. n = h.head + 1 /\ Size(Advanced(h)) = n + 1
      BY <1>6, SizeIs, SizeAdvanced
    <3>2. Mod(h.head + 1) = n  BY <1>1, <2>1, <3>1, NextIs
    <3>3. QED  BY <1>1, <2>1, <3>1, <3>2, CapacityAssumption DEF Index
  <2>3. \A i \in 0..Capacity - 1 : Slot(h, i) = i /\ Slot(Advanced(h), i) = i
    BY <1>1, <2>1, SlotIs, CapacityAssumption
  <2>4. to = Append(old, v)
    BY <1>3, <2>1, <2>2, CapacityAssumption DEF W!Pushed
  <2>5. /\ to \in Seq(S) /\ Len(to) = n + 1
        /\ \A i \in 1..n : to[i] = old[i]
        /\ to[n + 1] = v
    BY <1>3, <2>4, AppendProperties
  <2>6. ASSUME NEW i \in 1..n + 1
        PROVE  new[i] = wb[i - 1] /\ (i <= n => old[i] = b[i - 1] /\ i - 1 # n)
    <3>1. i - 1 \in 0..Capacity - 1 /\ (i <= n => i \in 1..n /\ i - 1 # n)
      BY <1>3, <2>1, <2>2, CapacityAssumption DEF Index
    <3>2. QED  BY <1>3, <1>4, <2>2, <2>3, <3>1
  <2>7. \A i \in 1..n + 1 : new[i] = to[i]
    <3>1. \A i \in 1..n + 1 : (i \in 1..n /\ i <= n /\ i - 1 \in Index) \/ (i = n + 1 /\ i - 1 = n)
      BY <2>2, CapacityAssumption DEF Index
    <3>2. QED  BY <1>2, <2>2, <2>5, <2>6, <3>1
  <2>8. QED  BY <1>4, <2>2, <2>5, <2>7, SeqEqual
<1>7. QED  BY <1>5, <1>6

(* Pushing keeps a window a sequence of recorded values that fits. *)
LEMMA PushedOK ==
  ASSUME NEW w \in Seq(Recorded), Len(w) <= Capacity, NEW v \in Recorded
  PROVE  W!Pushed(w, v) \in Seq(Recorded)
<1>1. CASE Len(w) < Capacity  BY <1>1 DEF W!Pushed
<1>2. CASE Len(w) = Capacity
  <2>1. w # <<>>  BY <1>2, CapacityAssumption
  <2>2. Tail(w) \in Seq(Recorded)  BY <2>1
  <2>3. QED  BY <1>2, <2>2, CapacityAssumption DEF W!Pushed
<1>3. QED  BY <1>1, <1>2, CapacityAssumption

(***************************************************************************)
(* The inductive invariant                                                 *)
(***************************************************************************)

(* The newest header of the ring: the poller's while it works on a copy. *)
Current == IF pc = "idle" THEN stored ELSE copy

(* A ring in the map or in the file is full; the copy is in step with the  *)
(* map, or one entry ahead, and then only the oldest entry differs from    *)
(* what was published.                                                     *)
PollerInv ==
  /\ stored = EmptyRing \/ Full(stored)
  /\ HeaderOK(copy)
  /\ cache = <<>> \/ Len(cache) = Capacity
  /\ Window \in Seq(Recorded)
  /\ Values(buff, stored) \in Seq(Recorded)
  /\ pc \in {"filling", "loading"} => stored = EmptyRing
  /\ pc \in {"query", "enqueued"} => Full(copy)
  /\ pc = "query" => stored \in {EmptyRing, copy}
  /\ pc = "enqueued" => stored = EmptyRing \/ copy = Advanced(stored)
  /\ pc = "loading" => /\ cache # <<>>
                       /\ Values(buff, copy) = SubSeq(cache, 1, Size(copy))
  /\ Len(published) = Size(stored)
  /\ \A i \in 1..Size(stored) :
        i > 1 \/ pc # "enqueued" => Values(buff, stored)[i] = published[i]

(* What a page has still to read is what the ring held, except for the     *)
(* entries written since; the next entry to be written is the first of     *)
(* the others.  With the lock held, one entry at most was written.         *)
PageInv(pg) ==
  /\ pg.pc = "closed" => pg = Closed
  /\ pg.pc # "closed" =>
       /\ stored # EmptyRing
       /\ Full(pg.header)
       /\ Len(pg.seen) = Capacity
       /\ \A i \in DOMAIN pg.series : i > pg.stale => pg.series[i] = pg.seen[i]
       /\ pg.locks => pg.stale <= (IF pc = "enqueued" THEN 1 ELSE 0)
  /\ pg.pc = "reading" =>
       /\ Len(pg.series) < Capacity
       /\ \A i \in 1..Capacity :
            LET entry == buff[Slot(pg.header, i - 1)]
            IN  entry \in Recorded /\ (i > pg.stale => entry = pg.seen[i])
       /\ pg.stale < Capacity => Current.tail = Slot(pg.header, pg.stale)
  /\ pg.pc = "drawn" => Len(pg.series) = Capacity

Inv ==
  /\ TypeOK
  /\ PollerInv
  /\ \A p \in Pages : PageInv(page[p])


(***************************************************************************)
(* Facts for the steps                                                     *)
(***************************************************************************)

(* The empty ring has no values. *)
LEMMA Empty ==
  ASSUME NEW b
  PROVE  /\ HeaderOK(EmptyRing) /\ EmptyRing \in Header /\ ~ Full(EmptyRing)
         /\ Size(EmptyRing) = 0
         /\ Values(b, EmptyRing) = <<>>
<1>1. EmptyRing = [head |-> -1, tail |-> 0]  BY DEF EmptyRing
<1>2. HeaderOK(EmptyRing) /\ EmptyRing \in Header /\ ~ Full(EmptyRing)
  BY <1>1, CapacityAssumption DEF HeaderOK, Header, Index, Full
<1>3. Size(EmptyRing) = 0  BY <1>1 DEF Size
<1>4. QED  BY <1>2, <1>3 DEF Values

(* A full ring has Capacity entries. *)
LEMMA FullIs ==
  ASSUME NEW h, Full(h)
  PROVE  h \in Header /\ HeaderOK(h) /\ Size(h) = Capacity /\ h # EmptyRing
<1>1. HeaderOK(h)  BY DEF Full, HeaderOK
<1>2. QED  BY <1>1, SizeIs, Empty DEF Full

(* The slots of a ring follow each other. *)
LEMMA SlotNext ==
  ASSUME NEW h \in Header, NEW i \in 0..Capacity - 1
  PROVE  Slot(h, i + 1) = IF Slot(h, i) + 1 < Capacity THEN Slot(h, i) + 1 ELSE 0
<1>1. h.tail \in Index  BY DEF Header
<1>2. /\ Slot(h, i) = IF h.tail + i < Capacity THEN h.tail + i ELSE h.tail + i - Capacity
      /\ Slot(h, i + 1) = IF h.tail + i + 1 < Capacity THEN h.tail + i + 1
                                                      ELSE h.tail + i + 1 - Capacity
  BY <1>1, SlotIs, CapacityAssumption DEF Index
<1>3. QED  BY <1>1, <1>2, CapacityAssumption DEF Index

(* An array with one more recorded value. *)
LEMMA WrittenType ==
  ASSUME NEW b \in [Index -> Recorded \cup {NIL}], NEW h \in Header, NEW v \in Recorded
  PROVE  /\ Written(b, h, v) \in [Index -> Recorded \cup {NIL}]
         /\ Mod(h.head + 1) \in Index
         /\ \A x \in Index : Written(b, h, v)[x] = IF x = Mod(h.head + 1) THEN v ELSE b[x]
<1>1. Mod(h.head + 1) \in Index
  <2>1. h.head + 1 \in Nat  BY DEF Header, Index
  <2>2. QED  BY <2>1, ModRange
<1>2. QED  BY <1>1 DEF Written

(* A window that fits. *)
LEMMA ValuesFit ==
  ASSUME NEW b, NEW h, HeaderOK(h)
  PROVE  Len(Values(b, h)) <= Capacity
BY ValuesAre, SizeIs, CapacityAssumption

(* The initial state satisfies the invariant. *)
LEMMA InitInv == ASSUME Init PROVE Inv
<1>1. /\ stored = EmptyRing /\ copy = EmptyRing /\ buff = FreshBuff /\ pc = "idle"
      /\ cache = <<>> /\ page = [p \in Pages |-> Closed] /\ published = <<>>
  BY DEF Init
<1>2. Values(buff, stored) = <<>> /\ Window = <<>>
  BY <1>1, Empty DEF Window
<1>3. Closed \in PageOK
  BY Empty, CapacityAssumption DEF Closed, PageOK
<1>4. TypeOK
  BY <1>1, <1>3, Empty DEF TypeOK, FreshBuff
<1>5. PollerInv
  BY <1>1, <1>2, Empty DEF PollerInv
<1>6. \A p \in Pages : PageInv(page[p])
  BY <1>1 DEF PageInv, Closed
<1>7. QED  BY <1>4, <1>5, <1>6 DEF Inv


(***************************************************************************)
(* One step: the poller's part of the invariant, and the step of Window    *)
(***************************************************************************)

WindowStep == [W!Next]_<<Window, cache>>

(* Taking a copy changes nothing that was recorded. *)
LEMMA StepGetCopy == ASSUME Inv, GetCopy PROVE PollerInv' /\ WindowStep
<1>1. /\ pc = "idle" /\ copy' = stored
      /\ stored' = stored /\ cache' = cache /\ published' = published
      /\ IF stored = EmptyRing THEN pc' = "filling" /\ buff' = FreshBuff
                               ELSE pc' = "query" /\ buff' = buff
  BY DEF GetCopy
<1>2. PollerInv  BY DEF Inv
<1>3. Window = Values(buff, stored) /\ Window' = Values(buff', copy')
  BY <1>1 DEF Window
<1>4. Values(buff', stored') = Values(buff, stored)
  BY <1>1, Empty
<1>5. Window' = Window  BY <1>1, <1>3, <1>4
<1>6. HeaderOK(copy') /\ (pc' = "query" => Full(copy'))
  BY <1>1, <1>2, Empty, FullIs DEF PollerInv
<1>7. PollerInv'
  BY <1>1, <1>2, <1>3, <1>4, <1>5, <1>6 DEF PollerInv
<1>8. QED  BY <1>1, <1>5, <1>7 DEF WindowStep

(* An enqueue on the poller's copy is a push. *)
LEMMA Enqueue ==
  ASSUME Inv, pc \in {"filling", "query"}, NEW v \in Recorded,
         buff' = Written(buff, copy, v)
  PROVE  /\ HeaderOK(Advanced(copy))
         /\ Values(buff', Advanced(copy)) = W!Pushed(Window, v)
         /\ Values(buff', Advanced(copy)) \in Seq(Recorded)
<1>1. /\ HeaderOK(copy) /\ Window \in Seq(Recorded)
      /\ buff \in [Index -> Recorded \cup {NIL}]
  BY DEF Inv, PollerInv, TypeOK
<1>2. Window = Values(buff, copy)  BY DEF Window
<1>3. HeaderOK(Advanced(copy))  BY <1>1, AdvancedOK
<1>4. Values(buff', Advanced(copy)) = W!Pushed(Window, v)
  BY <1>1, <1>2, EnqueuePushes
<1>5. QED  BY <1>1, <1>2, <1>3, <1>4, ValuesFit, PushedOK

(* It leaves recorded values where the ring in the map has them. *)
LEMMA EnqueueKeepsStored ==
  ASSUME Inv, NEW v \in Recorded, buff' = Written(buff, copy, v)
  PROVE  Values(buff', stored) \in Seq(Recorded)
<1>1. /\ HeaderOK(stored) /\ copy \in Header /\ Values(buff, stored) \in Seq(Recorded)
      /\ buff \in [Index -> Recorded \cup {NIL}]
  BY Empty, FullIs DEF Inv, PollerInv, TypeOK
<1>2. ASSUME NEW i \in 1..Size(stored) PROVE buff'[Slot(stored, i - 1)] \in Recorded
  <2>1. /\ Slot(stored, i - 1) \in Index
        /\ Values(buff, stored)[i] = buff[Slot(stored, i - 1)]
        /\ Len(Values(buff, stored)) = Size(stored)
    BY <1>1, ValuesAre
  <2>2. Values(buff, stored)[i] \in Recorded  BY <1>1, <2>1
  <2>3. QED  BY <1>1, <2>1, <2>2, WrittenType
<1>3. QED  BY <1>1, <1>2, ValuesSeq

(* Filling a new Metric pushes a value without a reading. *)
LEMMA StepFill == ASSUME Inv, Fill PROVE PollerInv' /\ WindowStep
<1>1. /\ pc = "filling" /\ buff' = Written(buff, copy, UNPOLLED) /\ copy' = Advanced(copy)
      /\ pc' = IF Size(copy') = Capacity THEN "query" ELSE "filling"
      /\ stored' = stored /\ cache' = cache /\ published' = published
  BY DEF Fill
<1>2. PollerInv  BY DEF Inv
<1>3. UNPOLLED \in Recorded  BY DEF Recorded
<1>4. /\ HeaderOK(copy') /\ Values(buff', copy') = W!Pushed(Window, UNPOLLED)
      /\ Values(buff', copy') \in Seq(Recorded)
  BY <1>1, <1>3, Enqueue
<1>5. Window' = Values(buff', copy')  BY <1>1 DEF Window
<1>6. stored' = EmptyRing /\ Values(buff', stored') = <<>> /\ Size(stored') = 0
  BY <1>1, <1>2, Empty DEF PollerInv
<1>7. pc' = "query" => Full(copy')  BY <1>1, <1>4, SizeIs
<1>8. PollerInv'
  BY <1>1, <1>2, <1>4, <1>5, <1>6, <1>7 DEF PollerInv
<1>9. QED  BY <1>1, <1>3, <1>4, <1>5, <1>8 DEF WindowStep, W!Next, W!Push

(* A failed query pushes a value without a reading, and stores it. *)
LEMMA StepQueryFails == ASSUME Inv, QueryFails PROVE PollerInv' /\ WindowStep
<1>1. /\ pc = "query" /\ buff' = Written(buff, copy, UNPOLLED)
      /\ stored' = Advanced(copy) /\ published' = Values(buff', stored')
      /\ pc' = "idle" /\ copy' = copy /\ cache' = cache
  BY DEF QueryFails, Publish
<1>2. PollerInv  BY DEF Inv
<1>3. UNPOLLED \in Recorded  BY DEF Recorded
<1>4. /\ HeaderOK(stored') /\ Values(buff', stored') = W!Pushed(Window, UNPOLLED)
      /\ Values(buff', stored') \in Seq(Recorded)
  BY <1>1, <1>3, Enqueue
<1>5. Window' = Values(buff', stored')  BY <1>1 DEF Window
<1>6. Full(stored')  BY <1>1, <1>2, AdvancedIs DEF PollerInv
<1>7. Len(published') = Size(stored')  BY <1>1, <1>4, ValuesAre
<1>8. PollerInv'
  BY <1>1, <1>2, <1>4, <1>5, <1>6, <1>7 DEF PollerInv
<1>9. QED  BY <1>1, <1>3, <1>4, <1>5, <1>8 DEF WindowStep, W!Next, W!Push

(* A reading is pushed when the array is written; what the map's header    *)
(* shows differs from then on in its oldest entry.                         *)
LEMMA StepQuerySucceeds ==
  ASSUME Inv, NEW v \in Readings, QuerySucceeds(v)
  PROVE  PollerInv' /\ WindowStep
<1>1. /\ pc = "query" /\ buff' = Written(buff, copy, v) /\ copy' = Advanced(copy)
      /\ pc' = "enqueued" /\ stored' = stored /\ cache' = cache /\ published' = published
  BY DEF QuerySucceeds
<1>2. PollerInv  BY DEF Inv
<1>3. v \in Recorded  BY DEF Recorded
<1>4. /\ HeaderOK(copy') /\ Values(buff', copy') = W!Pushed(Window, v)
      /\ Values(buff', copy') \in Seq(Recorded)
  BY <1>1, <1>3, Enqueue
<1>5. Window' = Values(buff', copy')  BY <1>1 DEF Window
<1>6. Full(copy')  BY <1>1, <1>2, AdvancedIs DEF PollerInv
<1>7. Values(buff', stored') \in Seq(Recorded)
  BY <1>1, <1>3, EnqueueKeepsStored
<1>8. \A i \in 1..Size(stored') : i > 1 => Values(buff', stored')[i] = published'[i]
  <2>1. CASE stored = EmptyRing  BY <1>1, <2>1, Empty
  <2>2. CASE stored # EmptyRing
    <3>1. stored = copy /\ Full(stored) /\ HeaderOK(stored) /\ Size(stored) = Capacity
          /\ stored \in Header
      BY <1>1, <1>2, <2>2, FullIs DEF PollerInv
    <3>2. ASSUME NEW i \in 1..Capacity, i > 1
          PROVE  Values(buff', stored)[i] = published[i]
      <4>1. /\ Values(buff, stored)[i] = buff[Slot(stored, i - 1)]
            /\ Values(buff', stored)[i] = buff'[Slot(stored, i - 1)]
            /\ Slot(stored, i - 1) \in Index
        BY <3>1, ValuesAre
      <4>2. Slot(stored, i - 1) # Mod(copy.head + 1)
        <5>1. i - 1 \in 0..Capacity - 1 /\ 0 \in 0..Capacity - 1 /\ i - 1 # 0
          BY <3>2, CapacityAssumption
        <5>2. Slot(stored, 0) = stored.tail /\ Mod(stored.head + 1) = stored.tail
          BY <3>1, <5>1, FullSlots
        <5>3. Slot(stored, i - 1) # Slot(stored, 0)
          BY <3>1, <5>1, SlotsDiffer
        <5>4. QED  BY <3>1, <5>2, <5>3
      <4>3. buff'[Slot(stored, i - 1)] = buff[Slot(stored, i - 1)]
        BY <1>1, <4>1, <4>2 DEF Written
      <4>4. Values(buff, stored)[i] = published[i]
        BY <1>1, <1>2, <3>1 DEF PollerInv
      <4>5. QED  BY <4>1, <4>3, <4>4
    <3>3. QED  BY <1>1, <3>1, <3>2
  <2>3. QED  BY <2>1, <2>2
<1>9. stored' = EmptyRing \/ copy' = Advanced(stored')
  BY <1>1, <1>2 DEF PollerInv
<1>10. PollerInv'
  BY <1>1, <1>2, <1>4, <1>5, <1>6, <1>7, <1>8, <1>9 DEF PollerInv
<1>11. QED  BY <1>1, <1>3, <1>4, <1>5, <1>10 DEF WindowStep, W!Next, W!Push

(* Storing the copy changes nothing that was recorded. *)
LEMMA StepStore == ASSUME Inv, Store PROVE PollerInv' /\ WindowStep
<1>1. /\ pc = "enqueued" /\ buff' = buff
      /\ stored' = copy /\ published' = Values(buff', stored')
      /\ pc' = "idle" /\ copy' = copy /\ cache' = cache
  BY DEF Store, Publish
<1>2. PollerInv  BY DEF Inv
<1>3. Window = Values(buff, copy) /\ Window' = Values(buff', stored')
  BY <1>1 DEF Window
<1>4. Window' = Window  BY <1>1, <1>3
<1>5. Full(stored') /\ HeaderOK(stored')  BY <1>1, <1>2, FullIs DEF PollerInv
<1>6. Len(published') = Size(stored')  BY <1>1, <1>5, ValuesAre
<1>7. PollerInv'
  BY <1>1, <1>2, <1>3, <1>4, <1>5, <1>6 DEF PollerInv
<1>8. QED  BY <1>1, <1>4, <1>7 DEF WindowStep


(* Writing the cache saves the window. *)
LEMMA StepWriteCache == ASSUME Inv, WriteCache PROVE PollerInv' /\ WindowStep
<1>1. /\ pc = "idle" /\ stored # EmptyRing /\ cache' = Values(buff, stored)
      /\ stored' = stored /\ buff' = buff /\ copy' = copy /\ pc' = pc
      /\ published' = published
  BY DEF WriteCache
<1>2. PollerInv  BY DEF Inv
<1>3. Window = Values(buff, stored) /\ Window' = Window  BY <1>1 DEF Window
<1>4. Len(cache') = Capacity
  <2>1. HeaderOK(stored) /\ Size(stored) = Capacity
    BY <1>1, <1>2, FullIs DEF PollerInv
  <2>2. QED  BY <1>1, <2>1, ValuesAre
<1>5. PollerInv'
  BY <1>1, <1>2, <1>3, <1>4 DEF PollerInv
<1>6. QED  BY <1>1, <1>3, <1>5 DEF WindowStep, W!Next, W!Save

(* A restart goes back to what was saved, or to nothing. *)
LEMMA StepStart == ASSUME Inv, Start PROVE PollerInv' /\ WindowStep
<1>1. /\ stored' = EmptyRing /\ copy' = EmptyRing /\ cache' = cache /\ published' = <<>>
      /\ pc' \in {"idle", "loading"} /\ (pc' = "loading" => cache # <<>>)
  BY DEF Start
<1>2. PollerInv  BY DEF Inv
<1>3. /\ Values(buff', stored') = <<>> /\ Values(buff', copy') = <<>>
      /\ Size(stored') = 0 /\ Size(copy') = 0 /\ HeaderOK(copy')
  BY <1>1, Empty
<1>4. Window' = IF pc' = "loading" THEN cache ELSE <<>>
  BY <1>1, <1>3 DEF Window
<1>5. cache \in Seq(Recorded)  BY DEF Inv, TypeOK
<1>6. SubSeq(cache, 1, 0) = <<>>  BY <1>5
<1>7. PollerInv'
  BY <1>1, <1>2, <1>3, <1>4, <1>5, <1>6 DEF PollerInv
<1>8. QED  BY <1>1, <1>4, <1>7 DEF WindowStep, W!Next, W!Restart

(* While the file is read, the ring holds what was read so far. *)
LEMMA StepLoad == ASSUME Inv, Load PROVE PollerInv' /\ WindowStep
<1> DEFINE n == Size(copy)
           v == cache[n + 1]
<1>1. /\ pc = "loading" /\ n < Len(cache) /\ buff' = Written(buff, copy, v)
      /\ copy' = Advanced(copy)
      /\ stored' = stored /\ pc' = pc /\ cache' = cache /\ published' = published
  BY DEF Load
<1>2. PollerInv  BY DEF Inv
<1>3. /\ cache \in Seq(Recorded) /\ Len(cache) = Capacity
      /\ HeaderOK(copy) /\ stored = EmptyRing
      /\ Values(buff, copy) = SubSeq(cache, 1, n)
      /\ buff \in [Index -> Recorded \cup {NIL}]
  BY <1>1, <1>2 DEF PollerInv, Inv, TypeOK
<1>4. n \in 0..Capacity /\ n < Capacity /\ ~ Full(copy)
  BY <1>1, <1>3, SizeIs, CapacityAssumption
<1>5. v \in Recorded  BY <1>3, <1>4, CapacityAssumption
<1>6. HeaderOK(copy') /\ Size(copy') = n + 1
  BY <1>1, <1>3, <1>4, AdvancedOK, SizeAdvanced
<1>7. Values(buff', copy') = SubSeq(cache, 1, n + 1)
  <2>1. Values(buff', copy') = W!Pushed(Values(buff, copy), v)
    BY <1>1, <1>3, <1>5, EnqueuePushes
  <2>2. Len(SubSeq(cache, 1, n)) = n  BY <1>3, <1>4, CapacityAssumption
  <2>3. W!Pushed(SubSeq(cache, 1, n), v) = Append(SubSeq(cache, 1, n), v)
    BY <1>4, <2>2 DEF W!Pushed
  <2>4. SubSeq(cache, 1, n + 1) = Append(SubSeq(cache, 1, n), v)
    BY <1>3, <1>4, CapacityAssumption
  <2>5. QED  BY <1>3, <2>1, <2>3, <2>4
<1>8. Window' = cache /\ Window = cache  BY <1>1 DEF Window
<1>9. Values(buff', stored') = <<>> /\ Size(stored') = 0
  BY <1>1, <1>3, Empty
<1>10. PollerInv'
  <2>1. cache' # <<>> /\ Values(buff', copy') = SubSeq(cache', 1, Size(copy'))
    BY <1>1, <1>2, <1>6, <1>7 DEF PollerInv
  <2>2. Window' \in Seq(Recorded) /\ Values(buff', stored') \in Seq(Recorded)
    BY <1>3, <1>8, <1>9
  <2>3. \A i \in 1..Size(stored') : Values(buff', stored')[i] = published'[i]
    BY <1>9
  <2>4. Len(published') = Size(stored')
    BY <1>1, <1>2 DEF PollerInv
  <2>5. QED
    BY <1>1, <1>3, <1>6, <2>1, <2>2, <2>3, <2>4 DEF PollerInv
<1>11. QED  BY <1>1, <1>8, <1>10 DEF WindowStep

(* The ring that was read holds what the file says. *)
LEMMA StepRegister == ASSUME Inv, Register PROVE PollerInv' /\ WindowStep
<1>1. /\ pc = "loading" /\ Size(copy) = Len(cache) /\ buff' = buff
      /\ stored' = copy /\ published' = Values(buff', stored')
      /\ pc' = "idle" /\ copy' = copy /\ cache' = cache
  BY DEF Register, Publish
<1>2. PollerInv  BY DEF Inv
<1>3. /\ cache \in Seq(Recorded) /\ Len(cache) = Capacity /\ HeaderOK(copy)
      /\ Values(buff, copy) = SubSeq(cache, 1, Len(cache))
  BY <1>1, <1>2 DEF PollerInv, Inv, TypeOK
<1>4. Full(copy)  BY <1>1, <1>3, SizeIs
<1>5. Values(buff, copy) = cache  BY <1>3
<1>6. Window = cache /\ Window' = cache  BY <1>1, <1>5 DEF Window
<1>7. Len(published') = Size(stored')  BY <1>1, <1>3, ValuesAre
<1>8. PollerInv'
  BY <1>1, <1>2, <1>3, <1>4, <1>5, <1>6, <1>7 DEF PollerInv
<1>9. QED  BY <1>1, <1>6, <1>8 DEF WindowStep

(* Pages change nothing of the poller's. *)
LEMMA StepPageKeeps ==
  ASSUME Inv, UNCHANGED <<stored, buff, copy, pc, cache, published>>
  PROVE  PollerInv' /\ WindowStep
<1>1. Window' = Window  BY DEF Window
<1>2. QED  BY <1>1 DEF Inv, PollerInv, WindowStep

(***************************************************************************)
(* One step: the pages' part of the invariant                              *)
(***************************************************************************)

(* Without a ring in the map there is no page. *)
LEMMA NoRingNoPage ==
  ASSUME Inv, stored = EmptyRing, NEW p \in Pages
  PROVE  page[p] = Closed
BY DEF Inv, PageInv

(* A closed page satisfies its part. *)
LEMMA ClosedOK ==
  ASSUME NEW p \in Pages, page'[p] = Closed
  PROVE  PageInv(page[p])'
BY DEF PageInv, Closed

(* A page that does not move keeps its part of the invariant when nothing  *)
(* is enqueued.                                                            *)
LEMMA PageKept ==
  ASSUME NEW p \in Pages, page[p] \in PageOK, PageInv(page[p]),
         page'[p] = page[p], buff' = buff, Current'.tail = Current.tail,
         stored # EmptyRing => stored' # EmptyRing,
         page[p].locks => pc # "enqueued" \/ pc' = "enqueued"
  PROVE  PageInv(page[p])'
<1> DEFINE pg == page[p]
<1>1. pg.stale \in 0..Capacity  BY DEF PageOK
<1>2. pg.pc # "closed" /\ pg.locks => pg.stale <= IF pc' = "enqueued" THEN 1 ELSE 0
  BY <1>1, CapacityAssumption DEF PageInv
<1>3. CASE pg.pc = "reading"
  <2>1. \A i \in 1..Capacity : buff'[Slot(pg.header, i - 1)] = buff[Slot(pg.header, i - 1)]
    OBVIOUS
  <2>2. QED  BY <1>2, <1>3, <2>1 DEF PageInv
<1>4. CASE pg.pc # "reading"
  BY <1>2, <1>4 DEF PageInv, Closed
<1>5. QED  BY <1>3, <1>4

(* An enqueue ages the pages that read. *)
LEMMA PageAged ==
  ASSUME Inv, pc = "query", NEW v \in Recorded, buff' = Written(buff, copy, v), Age,
         Current' = Advanced(copy), stored # EmptyRing => stored' # EmptyRing,
         NEW p \in Pages, pc' = "enqueued" \/ ~ page[p].locks
  PROVE  PageInv(page[p])'
<1> DEFINE pg == page[p]
<1>1. /\ page \in [Pages -> PageOK] /\ pg \in PageOK /\ PageInv(pg)
      /\ buff \in [Index -> Recorded \cup {NIL}]
      /\ copy \in Header /\ Full(copy)
  BY DEF Inv, TypeOK, PollerInv
<1>2. page'[p] = IF pg.pc = "reading" /\ pg.stale < Capacity
                 THEN [pg EXCEPT !.stale = @ + 1] ELSE pg
  BY DEF Age
<1>3. CASE pg.pc # "reading"
  <2>1. page'[p] = pg  BY <1>2, <1>3
  <2>2. pg.stale \in 0..Capacity  BY <1>1 DEF PageOK
  <2>3. pg.pc # "closed" /\ pg.locks => pg.stale <= IF pc' = "enqueued" THEN 1 ELSE 0
    BY <1>1, <2>2, CapacityAssumption DEF PageInv
  <2>4. QED  BY <1>1, <1>3, <2>1, <2>3 DEF PageInv, Closed
<1>4. CASE pg.pc = "reading"
  <2> DEFINE h == pg.header
             t == page'[p].stale
  <2>1. /\ Full(h) /\ h \in Header /\ stored # EmptyRing /\ Len(pg.seen) = Capacity
        /\ \A i \in DOMAIN pg.series : i > pg.stale => pg.series[i] = pg.seen[i]
        /\ Len(pg.series) < Capacity
        /\ pg.locks => pg.stale = 0
        /\ pg.stale \in 0..Capacity
    BY <1>1, <1>4, FullIs, CapacityAssumption DEF PageInv, PageOK
  <2>2. \A i \in 1..Capacity : /\ buff[Slot(h, i - 1)] \in Recorded
                               /\ i > pg.stale => buff[Slot(h, i - 1)] = pg.seen[i]
    BY <1>1, <1>4 DEF PageInv
  <2>3. pg.stale < Capacity => copy.tail = Slot(h, pg.stale)
    BY <1>1, <1>4 DEF PageInv, Current
  <2>4. /\ page'[p].pc = "reading" /\ page'[p].header = h /\ page'[p].seen = pg.seen
        /\ page'[p].series = pg.series /\ page'[p].locks = pg.locks
        /\ t = IF pg.stale < Capacity THEN pg.stale + 1 ELSE pg.stale
    BY <1>1, <1>2, <1>4 DEF PageOK
  <2>5. Mod(copy.head + 1) = copy.tail /\ copy.tail \in Index
    BY <1>1 DEF Full, Header
  <2>6. ASSUME NEW i \in 1..Capacity
        PROVE  /\ buff'[Slot(h, i - 1)] \in Recorded
               /\ i > t => buff'[Slot(h, i - 1)] = pg.seen[i]
    <3>1. i - 1 \in 0..Capacity - 1 /\ Slot(h, i - 1) \in Index
      BY <2>1, FullSlots, CapacityAssumption
    <3>2. buff'[Slot(h, i - 1)] = IF Slot(h, i - 1) = copy.tail THEN v
                                  ELSE buff[Slot(h, i - 1)]
      BY <1>1, <2>5, <3>1, WrittenType
    <3>3. ASSUME i > t PROVE Slot(h, i - 1) # copy.tail /\ i > pg.stale
      <4>1. /\ i > pg.stale /\ pg.stale \in 0..Capacity - 1 /\ pg.stale < Capacity
            /\ i - 1 # pg.stale
        BY <2>1, <2>4, <3>3, CapacityAssumption
      <4>2. QED  BY <2>1, <2>3, <3>1, <4>1, SlotsDiffer
    <3>4. QED  BY <2>2, <3>2, <3>3
  <2>7. t < Capacity => Current'.tail = Slot(h, t)
    <3>1. SUFFICES ASSUME t < Capacity PROVE Current'.tail = Slot(h, t)
      OBVIOUS
    <3>2. pg.stale \in 0..Capacity - 1 /\ pg.stale < Capacity /\ t = pg.stale + 1
      BY <2>1, <2>4, <3>1, CapacityAssumption
    <3>3. Current'.tail = IF copy.tail + 1 < Capacity THEN copy.tail + 1 ELSE 0
      BY <1>1, FullIs, AdvancedIs
    <3>4. QED  BY <2>1, <2>3, <3>2, <3>3, SlotNext
  <2>8. \A i \in DOMAIN pg.series : i > t => pg.series[i] = pg.seen[i]
    <3>1. pg.series \in Seq(Recorded)  BY <1>1 DEF PageOK
    <3>2. QED  BY <2>1, <2>4, <3>1, CapacityAssumption
  <2>9. pg.locks => t <= IF pc' = "enqueued" THEN 1 ELSE 0
    BY <2>1, <2>4, CapacityAssumption
  <2>10. QED
    BY <2>1, <2>4, <2>6, <2>7, <2>8, <2>9 DEF PageInv
<1>5. QED  BY <1>3, <1>4


(* A page that takes the header. *)
LEMMA PageOpens ==
  ASSUME Inv, NEW p \in Pages, NEW locks \in BOOLEAN, Open(p, locks)
  PROVE  PageInv(page[p])' /\ page'[p] \in PageOK
<1> DEFINE new == page'[p]
<1>1. /\ pc # "loading" /\ stored # EmptyRing
      /\ new = [pc |-> "reading", locks |-> locks, header |-> stored,
                series |-> <<>>, seen |-> published,
                stale |-> IF pc = "enqueued" THEN 1 ELSE 0]
      /\ stored' = stored /\ buff' = buff /\ copy' = copy /\ pc' = pc
  BY DEF Open, Inv, TypeOK
<1>2. PollerInv /\ TypeOK  BY DEF Inv
<1>3. /\ Full(stored) /\ HeaderOK(stored) /\ stored \in Header /\ Size(stored) = Capacity
      /\ Len(published) = Capacity /\ published \in Seq(Recorded)
  BY <1>1, <1>2, FullIs DEF PollerInv, TypeOK
<1>4. /\ new.pc = "reading" /\ new.locks = locks /\ new.header = stored
      /\ new.series = <<>> /\ new.seen = published
      /\ new.stale = IF pc = "enqueued" THEN 1 ELSE 0
  BY <1>1
<1>5. ASSUME NEW i \in 1..Capacity
      PROVE  /\ buff[Slot(stored, i - 1)] \in Recorded
             /\ i > new.stale => buff[Slot(stored, i - 1)] = published[i]
  <2>1. /\ Values(buff, stored)[i] = buff[Slot(stored, i - 1)]
        /\ Len(Values(buff, stored)) = Capacity
    BY <1>3, ValuesAre
  <2>2. Values(buff, stored)[i] \in Recorded
    BY <1>2, <2>1 DEF PollerInv
  <2>3. i > new.stale => Values(buff, stored)[i] = published[i]
    BY <1>2, <1>3, <1>4 DEF PollerInv
  <2>4. QED  BY <2>1, <2>2, <2>3
<1>6. new.stale < Capacity => Current'.tail = Slot(stored, new.stale)
  <2>1. 0 \in 0..Capacity - 1  BY CapacityAssumption
  <2>2. Slot(stored, 0) = stored.tail /\ stored.tail \in Index
    BY <1>3, <2>1, FullSlots DEF Header
  <2>3. CASE pc = "enqueued"
    <3>1. copy = Advanced(stored)  BY <1>1, <1>2, <2>3 DEF PollerInv
    <3>2. copy.tail = IF stored.tail + 1 < Capacity THEN stored.tail + 1 ELSE 0
      BY <1>3, <3>1, AdvancedIs
    <3>3. Slot(stored, 0 + 1) = IF stored.tail + 1 < Capacity THEN stored.tail + 1 ELSE 0
      BY <1>3, <2>1, <2>2, SlotNext
    <3>4. QED  BY <1>1, <1>4, <2>3, <3>2, <3>3 DEF Current
  <2>4. CASE pc # "enqueued"
    <3>1. pc \in {"idle", "query"}
      BY <1>1, <1>2, <2>4 DEF PollerInv, TypeOK
    <3>2. Current' = stored  BY <1>1, <1>2, <3>1 DEF PollerInv, Current
    <3>3. QED  BY <1>4, <2>2, <2>4, <3>2
  <2>5. QED  BY <2>3, <2>4
<1>7. PageInv(page[p])'
  BY <1>1, <1>3, <1>4, <1>5, <1>6, CapacityAssumption DEF PageInv
<1>8. page'[p] \in PageOK
  BY <1>1, <1>3, CapacityAssumption DEF PageOK
<1>9. QED  BY <1>7, <1>8

(* A page that reads one entry. *)
LEMMA PageReads ==
  ASSUME Inv, NEW p \in Pages, Read(p)
  PROVE  PageInv(page[p])' /\ page'[p] \in PageOK
<1> DEFINE pg   == page[p]
           i    == Len(pg.series)
           idx  == Slot(pg.header, i)
           last == idx = pg.header.head \/ i + 1 = Capacity
           new  == page'[p]
<1>1. pg \in PageOK /\ page \in [Pages -> PageOK] /\ PageInv(pg)
  BY DEF Inv, TypeOK
<1>2. /\ pg.pc = "reading"
      /\ page' = [page EXCEPT ![p].series = Append(@, buff[idx]),
                              ![p].pc     = IF last THEN "drawn" ELSE @]
      /\ stored' = stored /\ buff' = buff /\ copy' = copy /\ pc' = pc
  BY DEF Read
<1>3. /\ new.pc = (IF last THEN "drawn" ELSE "reading")
      /\ new.locks = pg.locks
      /\ new.series = Append(pg.series, buff[idx])
      /\ new.header = pg.header /\ new.seen = pg.seen /\ new.stale = pg.stale
  BY <1>1, <1>2 DEF PageOK
<1>4. /\ Full(pg.header) /\ i < Capacity /\ Len(pg.seen) = Capacity /\ i \in Nat
      /\ pg.series \in Seq(Recorded) /\ stored # EmptyRing
      /\ pg.stale \in 0..Capacity
  BY <1>1, <1>2 DEF PageInv, PageOK
<1>5. i \in 0..Capacity - 1  BY <1>4, CapacityAssumption
<1>6. last <=> i + 1 = Capacity
  BY <1>4, <1>5, FullSlots, CapacityAssumption
<1>7. buff[idx] \in Recorded /\ (i + 1 > pg.stale => buff[idx] = pg.seen[i + 1])
  <2>1. i + 1 \in 1..Capacity /\ i + 1 - 1 = i  BY <1>5, CapacityAssumption
  <2>2. LET entry == buff[Slot(pg.header, i + 1 - 1)]
        IN  entry \in Recorded /\ (i + 1 > pg.stale => entry = pg.seen[i + 1])
    BY <1>1, <1>2, <2>1 DEF PageInv
  <2>3. QED  BY <2>1, <2>2
<1>8. /\ new.series \in Seq(Recorded) /\ Len(new.series) = i + 1
      /\ \A j \in 1..i : new.series[j] = pg.series[j]
      /\ new.series[i + 1] = buff[idx]
  BY <1>3, <1>4, <1>7, AppendProperties
<1>9. \A j \in DOMAIN new.series : j > new.stale => new.series[j] = new.seen[j]
  <2>1. ASSUME NEW j \in 1..i + 1, j > new.stale PROVE new.series[j] = new.seen[j]
    <3>1. CASE j = i + 1  BY <1>3, <1>7, <1>8, <2>1, <3>1
    <3>2. CASE j # i + 1
      <4>1. j \in 1..i /\ j \in DOMAIN pg.series
        BY <1>4, <2>1, <3>2
      <4>2. pg.series[j] = pg.seen[j]
        BY <1>1, <1>2, <1>3, <2>1, <4>1 DEF PageInv
      <4>3. QED  BY <1>3, <1>8, <4>1, <4>2
    <3>3. QED  BY <3>1, <3>2
  <2>2. DOMAIN new.series = 1..i + 1  BY <1>4, <1>8
  <2>3. QED  BY <2>1, <2>2
<1>10. page'[p] \in PageOK
  <2>1. new = [pg EXCEPT !.series = Append(@, buff[idx]),
                         !.pc     = IF last THEN "drawn" ELSE @]
    BY <1>1, <1>2
  <2>2. pg.locks \in BOOLEAN /\ pg.header \in Header /\ pg.seen \in Seq(Recorded)
    BY <1>1 DEF PageOK
  <2>3. QED  BY <1>1, <1>3, <1>8, <2>1, <2>2 DEF PageOK
<1>11. Current' = Current  BY <1>2 DEF Current
<1>12. PageInv(page[p])'
  <2>1. new.pc # "closed"  BY <1>3
  <2>2. /\ stored' # EmptyRing /\ Full(new.header) /\ Len(new.seen) = Capacity
        /\ new.locks => new.stale <= (IF pc' = "enqueued" THEN 1 ELSE 0)
    BY <1>1, <1>2, <1>3, <1>4 DEF PageInv
  <2>3. new.pc = "reading" =>
          /\ Len(new.series) < Capacity
          /\ new.stale < Capacity => Current'.tail = Slot(new.header, new.stale)
    <3>1. pg.stale < Capacity => Current.tail = Slot(pg.header, pg.stale)
      BY <1>1, <1>2 DEF PageInv
    <3>2. new.stale < Capacity => Current'.tail = Slot(new.header, new.stale)
      BY <1>3, <1>11, <3>1
    <3>3. i + 1 # Capacity => i + 1 < Capacity  BY <1>5, CapacityAssumption
    <3>4. QED  BY <1>3, <1>6, <1>8, <3>2, <3>3
  <2>4. \A j \in 1..Capacity :
          LET entry == buff'[Slot(new.header, j - 1)]
          IN  entry \in Recorded /\ (j > new.stale => entry = new.seen[j])
    BY <1>1, <1>2, <1>3 DEF PageInv
  <2>5. new.pc = "drawn" => Len(new.series) = Capacity
    BY <1>3, <1>6, <1>8
  <2>6. QED  BY <1>9, <2>1, <2>2, <2>3, <2>4, <2>5 DEF PageInv
<1>13. QED  BY <1>10, <1>12


(* Every step keeps the pages' part, and their type. *)
LEMMA StepPages ==
  ASSUME Inv, Next, NEW p \in Pages
  PROVE  PageInv(page[p])' /\ page'[p] \in PageOK
<1>1. /\ page \in [Pages -> PageOK] /\ page[p] \in PageOK /\ PageInv(page[p])
      /\ PollerInv /\ Closed \in PageOK
  <2>1. Closed \in PageOK
    BY Empty, CapacityAssumption DEF Closed, PageOK
  <2>2. QED  BY <2>1 DEF Inv, TypeOK
<1>2. ASSUME stored = EmptyRing, page' = page
      PROVE  PageInv(page[p])' /\ page'[p] \in PageOK
  BY <1>1, <1>2, NoRingNoPage, ClosedOK
<1>3. ASSUME page' = page, buff' = buff, Current' = Current,
             stored # EmptyRing => stored' # EmptyRing,
             page[p].locks => pc # "enqueued" \/ pc' = "enqueued"
      PROVE  PageInv(page[p])' /\ page'[p] \in PageOK
  BY <1>1, <1>3, PageKept
<1>4. ASSUME Age PROVE page'[p] \in PageOK
  <2>1. page'[p] = IF page[p].pc = "reading" /\ page[p].stale < Capacity
                   THEN [page[p] EXCEPT !.stale = @ + 1] ELSE page[p]
    BY <1>4 DEF Age
  <2>2. page[p].stale < Capacity => page[p].stale + 1 \in 0..Capacity
    BY <1>1, CapacityAssumption DEF PageOK
  <2>3. QED  BY <1>1, <2>1, <2>2 DEF PageOK
<1>5. CASE GetCopy
  <2>1. page' = page /\ stored' = stored /\ pc = "idle" /\ pc' \in {"filling", "query"}
        /\ copy' = stored /\ (stored = EmptyRing \/ buff' = buff)
    BY <1>5 DEF GetCopy
  <2>2. CASE stored = EmptyRing  BY <1>2, <2>1, <2>2
  <2>3. CASE stored # EmptyRing
    <3>1. Current' = Current  BY <2>1 DEF Current
    <3>2. QED  BY <1>3, <2>1, <2>3, <3>1
  <2>4. QED  BY <2>2, <2>3
<1>6. CASE Fill
  BY <1>1, <1>2, <1>6 DEF Fill, PollerInv
<1>7. CASE QueryFails
  <2>1. /\ pc = "query" /\ buff' = Written(buff, copy, UNPOLLED) /\ Age
        /\ stored' = Advanced(copy) /\ pc' = "idle" /\ ~ page[p].locks
    BY <1>7 DEF QueryFails, Publish, CanLock
  <2>2. UNPOLLED \in Recorded /\ Current' = Advanced(copy)
    BY <2>1 DEF Recorded, Current
  <2>3. stored' # EmptyRing
    <3>1. Full(copy) /\ HeaderOK(copy)  BY <1>1, <2>1 DEF PollerInv
    <3>2. QED  BY <2>1, <3>1, AdvancedIs, FullIs
  <2>4. PageInv(page[p])'  BY <2>1, <2>2, <2>3, PageAged
  <2>5. QED  BY <1>4, <2>1, <2>4
<1>8. ASSUME NEW v \in Readings, QuerySucceeds(v)
      PROVE  PageInv(page[p])' /\ page'[p] \in PageOK
  <2>1. /\ pc = "query" /\ buff' = Written(buff, copy, v) /\ Age
        /\ stored' = stored /\ pc' = "enqueued" /\ copy' = Advanced(copy)
    BY <1>8 DEF QuerySucceeds
  <2>2. v \in Recorded /\ Current' = Advanced(copy)
    BY <2>1 DEF Recorded, Current
  <2>3. PageInv(page[p])'  BY <2>1, <2>2, PageAged
  <2>4. QED  BY <1>4, <2>1, <2>3
<1>9. CASE Store
  <2>1. /\ pc = "enqueued" /\ pc' = "idle" /\ stored' = copy /\ buff' = buff
        /\ page' = page /\ ~ page[p].locks
    BY <1>9 DEF Store, Publish, CanLock
  <2>2. Current' = Current  BY <2>1 DEF Current
  <2>3. stored' # EmptyRing  BY <1>1, <2>1, FullIs DEF PollerInv
  <2>4. QED  BY <1>3, <2>1, <2>2, <2>3
<1>10. CASE WriteCache
  <2>1. /\ pc = "idle" /\ pc' = pc /\ stored' = stored /\ copy' = copy /\ buff' = buff
        /\ page' = page
    BY <1>10 DEF WriteCache
  <2>2. Current' = Current  BY <2>1 DEF Current
  <2>3. QED  BY <1>3, <2>1, <2>2
<1>11. CASE Start
  <2>1. page'[p] = Closed  BY <1>11 DEF Start
  <2>2. QED  BY <1>1, <2>1, ClosedOK
<1>12. CASE Load
  BY <1>1, <1>2, <1>12 DEF Load, PollerInv
<1>13. CASE Register
  BY <1>1, <1>2, <1>13 DEF Register, PollerInv
<1>14. ASSUME NEW q \in Pages, ApiDisk(q) \/ ApiCpu(q) \/ Read(q) \/ Respond(q)
       PROVE  PageInv(page[p])' /\ page'[p] \in PageOK
  <2>1. /\ stored' = stored /\ buff' = buff /\ copy' = copy /\ pc' = pc
        /\ q # p => page'[p] = page[p]
    BY <1>1, <1>14 DEF ApiDisk, ApiCpu, Open, Read, Respond
  <2>2. Current' = Current  BY <2>1 DEF Current
  <2>3. CASE q # p
    BY <1>1, <2>1, <2>2, <2>3, PageKept
  <2>4. CASE q = p /\ Respond(q)
    <3>1. page'[p] = Closed  BY <1>1, <2>4 DEF Respond
    <3>2. QED  BY <1>1, <3>1, ClosedOK
  <2>5. CASE q = p /\ Read(q)  BY <2>5, PageReads
  <2>6. CASE q = p /\ (ApiDisk(q) \/ ApiCpu(q))
    BY <2>6, PageOpens DEF ApiDisk, ApiCpu
  <2>7. QED  BY <1>14, <2>3, <2>4, <2>5, <2>6
<1>15. QED
  BY <1>5, <1>6, <1>7, <1>8, <1>9, <1>10, <1>11, <1>12, <1>13, <1>14
  DEF Next, Poller, Cache, Page

(* Every step keeps the poller's part, and is a step of Window or none. *)
LEMMA StepPoller == ASSUME Inv, Next PROVE PollerInv' /\ WindowStep
<1>1. CASE GetCopy  BY <1>1, StepGetCopy
<1>2. CASE Fill  BY <1>2, StepFill
<1>3. CASE QueryFails  BY <1>3, StepQueryFails
<1>4. CASE \E v \in Readings : QuerySucceeds(v)  BY <1>4, StepQuerySucceeds
<1>5. CASE Store  BY <1>5, StepStore
<1>6. CASE WriteCache  BY <1>6, StepWriteCache
<1>7. CASE Start  BY <1>7, StepStart
<1>8. CASE Load  BY <1>8, StepLoad
<1>9. CASE Register  BY <1>9, StepRegister
<1>10. CASE Page
  <2>1. UNCHANGED <<stored, buff, copy, pc, cache, published>>
    BY <1>10 DEF Page, ApiDisk, ApiCpu, Open, Read, Respond
  <2>2. QED  BY <2>1, StepPageKeeps
<1>11. QED
  BY <1>1, <1>2, <1>3, <1>4, <1>5, <1>6, <1>7, <1>8, <1>9, <1>10
  DEF Next, Poller, Cache

(* Every step keeps the types. *)
LEMMA StepType == ASSUME Inv, Next PROVE TypeOK'
<1>1. TypeOK /\ PollerInv /\ PollerInv'  BY StepPoller DEF Inv
<1>2. stored' \in Header /\ copy' \in Header
  BY <1>1, Empty, FullIs DEF PollerInv, HeaderOK
<1>3. \A v \in Recorded : Written(buff, copy, v) \in [Index -> Recorded \cup {NIL}]
  BY <1>1, WrittenType DEF TypeOK
<1>4. FreshBuff \in [Index -> Recorded \cup {NIL}]  BY DEF FreshBuff
<1>5. pc = "loading" => \A n \in 0..Len(cache) - 1 : cache[n + 1] \in Recorded
  BY <1>1, CapacityAssumption DEF TypeOK
<1>6. Size(copy) \in 0..Capacity  BY <1>1, SizeIs DEF PollerInv
<1>7. /\ buff' \in [Index -> Recorded \cup {NIL}]
      /\ pc' \in {"idle", "filling", "query", "enqueued", "loading"}
  <2>1. UNPOLLED \in Recorded /\ Readings \subseteq Recorded  BY DEF Recorded
  <2>2. CASE Poller
    BY <1>1, <1>3, <1>4, <2>1, <2>2
    DEF Poller, GetCopy, Fill, QueryFails, QuerySucceeds, Store, Publish, TypeOK
  <2>3. CASE Load
    <3>1. cache[Size(copy) + 1] \in Recorded
      BY <1>1, <1>5, <1>6, <2>3, CapacityAssumption DEF Load, TypeOK
    <3>2. QED  BY <1>1, <1>3, <2>3, <3>1 DEF Load, TypeOK
  <2>4. CASE WriteCache \/ Start \/ Register
    BY <1>1, <1>4, <2>4 DEF WriteCache, Start, Register, Publish, TypeOK
  <2>5. CASE Page
    BY <1>1, <2>5 DEF Page, ApiDisk, ApiCpu, Open, Read, Respond, TypeOK
  <2>6. QED  BY <2>2, <2>3, <2>4, <2>5 DEF Next, Cache
<1>8. cache' \in Seq(Recorded)
  <2>1. WriteCache => Values(buff, stored) \in Seq(Recorded)
    BY <1>1 DEF PollerInv
  <2>2. QED
    BY <1>1, <2>1
    DEF Next, Poller, Cache, Page, GetCopy, Fill, QueryFails, QuerySucceeds, Store, Publish,
        WriteCache, Start, Load, Register, ApiDisk, ApiCpu, Open, Read, Respond, TypeOK
<1>9. published' \in Seq(Recorded)
  <2>1. Values(buff', stored') \in Seq(Recorded)  BY <1>1 DEF PollerInv
  <2>2. published' \in {published, <<>>, Values(buff', stored')}
    BY DEF Next, Poller, Cache, Page, GetCopy, Fill, QueryFails, QuerySucceeds, Store, Publish,
           WriteCache, Start, Load, Register, ApiDisk, ApiCpu, Open, Read, Respond
  <2>3. published \in Seq(Recorded) /\ <<>> \in Seq(Recorded)
    BY <1>1 DEF TypeOK
  <2>4. QED  BY <2>1, <2>2, <2>3
<1>10. page' \in [Pages -> PageOK]
  <2>1. page' = [p \in Pages |-> page'[p]]
    BY <1>1
    DEF Next, Poller, Cache, Page, GetCopy, Fill, QueryFails, QuerySucceeds, Store, Age,
        WriteCache, Start, Load, Register, ApiDisk, ApiCpu, Open, Read, Respond, TypeOK
  <2>2. QED  BY <2>1, StepPages
<1>11. QED  BY <1>2, <1>7, <1>8, <1>9, <1>10 DEF TypeOK

(* The invariant is inductive. *)
LEMMA StepInv == ASSUME Inv, [Next]_vars PROVE Inv'
<1>1. CASE Next  BY <1>1, StepType, StepPoller, StepPages DEF Inv
<1>2. CASE UNCHANGED vars
  <2>1. Window' = Window /\ Current' = Current  BY <1>2 DEF vars, Window, Current
  <2>2. TypeOK'  BY <1>2 DEF Inv, TypeOK, vars
  <2>3. PollerInv'  BY <1>2, <2>1 DEF Inv, PollerInv, vars
  <2>4. \A p \in Pages : PageInv(page[p])'
    BY <1>2, <2>1, PageKept DEF Inv, TypeOK, vars
  <2>5. QED  BY <2>2, <2>3, <2>4 DEF Inv
<1>3. QED  BY <1>1, <1>2

(***************************************************************************)
(* Theorems                                                                *)
(***************************************************************************)

(* Every variable has its type, and no page meets a nil entry. *)
THEOREM TypeCorrect == Spec => []TypeOK
<1>1. Inv => TypeOK  BY DEF Inv
<1>2. QED  BY InitInv, StepInv, <1>1, PTL DEF Spec

(* The ring with its copies and its cache file implements a window of the  *)
(* last Capacity values.                                                   *)
THEOREM Implements == Spec => IsWindow
<1>1. Init => W!Init
  <2>1. SUFFICES ASSUME Init PROVE W!Init
    OBVIOUS
  <2>2. Window = <<>> /\ cache = <<>>
    BY <2>1, Empty DEF Init, Window
  <2>3. QED  BY <2>2 DEF W!Init
<1>2. Inv /\ [Next]_vars => [W!Next]_<<Window, cache>>
  <2>1. SUFFICES ASSUME Inv, [Next]_vars PROVE [W!Next]_<<Window, cache>>
    OBVIOUS
  <2>2. CASE Next  BY <2>1, <2>2, StepPoller DEF WindowStep
  <2>3. CASE UNCHANGED vars  BY <2>3 DEF vars, Window
  <2>4. QED  BY <2>1, <2>2, <2>3
<1>3. QED  BY InitInv, StepInv, <1>1, <1>2, PTL DEF Spec, IsWindow, W!Spec

(* A page draws the ring it found, but for the oldest entries that were    *)
(* replaced since.                                                         *)
THEOREM PagesCorrect == Spec => []OnlyOldestReplaced
<1>1. Inv => OnlyOldestReplaced
  <2>1. SUFFICES ASSUME Inv, NEW p \in Pages
                 PROVE  /\ page[p].pc = "drawn" => Len(page[p].series) = Len(page[p].seen)
                        /\ \A i \in DOMAIN page[p].series :
                             i > page[p].stale => page[p].series[i] = page[p].seen[i]
    BY DEF OnlyOldestReplaced
  <2>2. PageInv(page[p])  BY <2>1 DEF Inv
  <2>3. CASE page[p].pc = "closed"
    BY <2>2, <2>3 DEF PageInv, Closed
  <2>4. CASE page[p].pc # "closed"
    BY <2>2, <2>4 DEF PageInv
  <2>5. QED  BY <2>3, <2>4
<1>2. QED  BY InitInv, StepInv, <1>1, PTL DEF Spec

(* A page that keeps the lock is wrong in its oldest entry at most. *)
THEOREM LockCorrect == Spec => []LockLimitsDamage
<1>1. Inv => LockLimitsDamage
  <2>1. SUFFICES ASSUME Inv, NEW p \in Pages, page[p].locks,
                        NEW i \in DOMAIN page[p].series, i > 1
                 PROVE  page[p].series[i] = page[p].seen[i]
    BY DEF LockLimitsDamage
  <2>2. PageInv(page[p]) /\ page[p] \in PageOK  BY <2>1 DEF Inv, TypeOK
  <2>3. page[p].pc # "closed"  BY <2>1, <2>2 DEF PageInv, Closed
  <2>4. page[p].stale <= 1 /\ page[p].stale \in 0..Capacity /\ i \in Nat
    <3>1. DOMAIN page[p].series \subseteq Nat  BY <2>2 DEF PageOK
    <3>2. page[p].stale <= IF pc = "enqueued" THEN 1 ELSE 0
      BY <2>1, <2>2, <2>3 DEF PageInv
    <3>3. QED  BY <2>1, <2>2, <3>1, <3>2, CapacityAssumption DEF PageOK
  <2>5. i > page[p].stale  BY <2>1, <2>4
  <2>6. QED  BY <2>1, <2>2, <2>3, <2>5 DEF PageInv
<1>2. QED  BY InitInv, StepInv, <1>1, PTL DEF Spec

=============================================================================
