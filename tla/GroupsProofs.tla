----------------------------- MODULE GroupsProofs -----------------------------
(***************************************************************************)
(* Theorems about the map of availability groups, for any groups and       *)
(* servers, any time after which a group expires and any time for which it *)
(* is healthy that is not too short.  The argument follows the minutes     *)
(* after the last failover or failure.  In the second, every poll in       *)
(* progress began after it; in the third, every poll began after the last  *)
(* one of those from before had ended; by the fourth, each has set its     *)
(* groups.                                                                 *)
(***************************************************************************)
EXTENDS Groups, TLAPS

USE GroupsAssumption DEF GroupsAssumption

(* The poll's result is right.                                             *)
Fresh(s) == left[s] \subseteq PrimaryOf(s)

(* The server is about to set the group.                                   *)
Due(g, s) == pc[s] = "set" /\ g \in left[s]

(* The group is as the server set it, at most n minutes ago.               *)
SetBy(g, s, n) ==
  /\ groups[g] # NONE /\ groups[g].source = s /\ groups[g].age <= n
  /\ \/ groups[g].latencies = s
     \/ groups[g].latencies = NONE /\ (pc[s] = "set") = (g \notin left[s])

Minutes(s) ==
  /\ quiet >= 1 /\ ~late[s] => Fresh(s) /\ age[s] = 0
  /\ quiet >= 2 => Fresh(s) /\ (pc[s] = "set" /\ left[s] # {} => age[s] <= 1)

Shown(g, s) ==
  /\ quiet >= 2 /\ ~late[s] => Due(g, s) \/ SetBy(g, s, 0)
  /\ quiet >= 3 /\ late[s]  => Due(g, s) \/ SetBy(g, s, 1)
  /\ quiet >= 3 /\ ~late[s] => SetBy(g, s, 1)
  /\ quiet >= 4 => SetBy(g, s, 2)

(* A group without a primary gets older, and then the next Set removes it. *)
Old(g) == quiet >= 1 /\ groups[g] # NONE => groups[g].age >= quiet - 1 \/ groups[g].age > Expire

Gone(g, h, s) ==
  /\ quiet >= Expire + 2 /\ ~late[s] => Due(h, s) \/ groups[g] = NONE
  /\ quiet >= Expire + 3 /\ late[s]  => Due(h, s) \/ groups[g] = NONE
  /\ quiet >= Expire + 3 /\ ~late[s] => groups[g] = NONE
  /\ quiet >= Expire + 4 => groups[g] = NONE

Facts ==
  /\ \A s \in Servers : Minutes(s)
  /\ \A s \in Servers : \A g \in PrimaryOf(s) : Shown(g, s)
  /\ \A g \in PrimaryOf(NONE) : Old(g)
  /\ \A g \in PrimaryOf(NONE), s \in Servers : \A h \in PrimaryOf(s) : Gone(g, h, s)

GInv == TypeOK /\ Facts

(* A poll of every minute keeps a group healthy, and in the map.           *)
Long == Healthy >= 3 /\ Expire >= 2
-----------------------------------------------------------------------------
LEMMA OlderIs ==
  ASSUME NEW a \in Ages
  PROVE  Older(a) \in Ages /\ Older(a) <= a + 1 /\ (Older(a) >= a + 1 \/ Older(a) > Expire)
  BY DEF Older, Ages

(* What a Set leaves in the map.                                           *)
LEMMA SetIs ==
  ASSUME TypeOK, NEW s \in Servers, NEW g \in AGs, Set(s, g)
  PROVE  /\ pc[s] = "set" /\ g \in left[s] /\ UNCHANGED <<primary, quiet, pc, age, late>>
         /\ left' = [left EXCEPT ![s] = left[s] \ {g}]
         /\ groups'[g] = IF age[s] > Expire THEN NONE
                         ELSE [source |-> s, age |-> age[s], latencies |-> NONE]
         /\ \A h \in AGs \ {g} :
              groups'[h] = IF groups[h] # NONE /\ groups[h].age > Expire THEN NONE ELSE groups[h]
         /\ groups' \in [AGs -> Group \cup {NONE}]
  <1> DEFINE new == [source |-> s, age |-> age[s], latencies |-> NONE]
             set == [groups EXCEPT ![g] = new]
  <1>1. new \in Group /\ new # NONE BY DEF TypeOK, Group
  <1>2. set \in [AGs -> Group \cup {NONE}] BY <1>1 DEF TypeOK
  <1>3. groups' = [h \in AGs |-> IF set[h] # NONE /\ set[h].age > Expire THEN NONE ELSE set[h]]
    BY DEF Set
  <1>4. set[g] = new /\ \A h \in AGs \ {g} : set[h] = groups[h] BY DEF TypeOK
  <1>5. groups' \in [AGs -> Group \cup {NONE}]
    <2> HIDE DEF set
    <2> QED BY <1>2, <1>3
  <1>6. new.age = age[s] OBVIOUS
  <1>7. /\ groups'[g] = IF age[s] > Expire THEN NONE ELSE new
        /\ \A h \in AGs \ {g} :
              groups'[h] = IF groups[h] # NONE /\ groups[h].age > Expire THEN NONE ELSE groups[h]
    <2> HIDE DEF set, new
    <2> QED BY <1>1, <1>3, <1>4, <1>6
  <1> QED BY <1>5, <1>7 DEF Set

LEMMA TypeStep == ASSUME TypeOK, [Next]_vars PROVE TypeOK'
  <1> USE DEF TypeOK
  <1>1. ASSUME NEW g \in AGs, NEW s \in Servers \cup {NONE}, Failover(g, s) PROVE TypeOK'
    BY <1>1 DEF Failover, pollVars
  <1>2. CASE Tick
    <2>1. groups' \in [AGs -> Group \cup {NONE}]
      <3>1. ASSUME NEW g \in AGs, groups[g] # NONE
            PROVE  [groups[g] EXCEPT !.age = Older(@)] \in Group
        BY <3>1, OlderIs DEF Group
      <3> QED BY <1>2, <3>1 DEF Tick
    <2>2. age' \in [Servers -> Ages]
      <3>1. 0 \in Ages BY DEF Ages
      <3> QED BY <1>2, <3>1, OlderIs DEF Tick
    <2> QED BY <1>2, <2>1, <2>2 DEF Tick
  <1>3. ASSUME NEW s \in Servers, GetAGList(s) \/ GetAGListFails(s) \/ SetLatency(s) PROVE TypeOK'
    <2>1. PrimaryOf(s) \subseteq AGs /\ 0 \in Ages /\ 0 \in 0..Quiet BY DEF PrimaryOf, Ages
    <2>2. CASE GetAGList(s) BY <2>1, <2>2 DEF GetAGList
    <2>3. CASE GetAGListFails(s) BY <2>1, <2>3 DEF GetAGListFails
    <2>4. CASE SetLatency(s) BY <2>1, <2>4 DEF SetLatency
    <2> QED BY <1>3, <2>2, <2>3, <2>4
  <1>4. ASSUME NEW s \in Servers, NEW g \in AGs, Set(s, g) PROVE TypeOK'
    <2>1. left' \in [Servers -> SUBSET AGs] BY <1>4 DEF Set
    <2> QED BY <1>4, <2>1, SetIs
  <1>5. ASSUME NEW s \in Servers, NEW g \in AGs, SetLatencies(s, g) PROVE TypeOK'
    <2>1. groups' \in [AGs -> Group \cup {NONE}]
      <3> DEFINE new == IF groups[g] = NONE THEN NONE ELSE [groups[g] EXCEPT !.latencies = s]
      <3>1. CASE groups[g] = NONE BY <1>5, <3>1 DEF SetLatencies
      <3>2. CASE groups[g] # NONE
        <4>1. groups[g] \in Group BY <3>2
        <4>2. new \in Group BY <4>1, <3>2 DEF Group
        <4>3. groups' = [groups EXCEPT ![g] = new] BY <1>5 DEF SetLatencies
        <4> HIDE DEF new
        <4> QED BY <4>2, <4>3
      <3> QED BY <3>1, <3>2
    <2>2. left' \in [Servers -> SUBSET AGs] BY <1>5 DEF SetLatencies
    <2> QED BY <1>5, <2>1, <2>2 DEF SetLatencies
  <1>6. CASE UNCHANGED vars BY <1>6 DEF vars, pollVars
  <1> QED BY <1>1, <1>2, <1>3, <1>4, <1>5, <1>6 DEF Next, PollAG
-----------------------------------------------------------------------------
(* Nothing is claimed of the minute of a failover or a failure.            *)
LEMMA QuietStep == ASSUME TypeOK, quiet' = 0 PROVE Facts'
  BY DEF Facts, Minutes, Shown, Old, Gone, TypeOK

LEMMA TickStep == ASSUME GInv, TypeOK', Long, Tick PROVE Facts'
  <1> USE DEF GInv, TypeOK
  <1>1. CASE \E s \in Servers : late[s]
    <2>1. quiet' = 0 BY <1>1 DEF Tick
    <2> QED BY <2>1, QuietStep
  <1>2. CASE \A s \in Servers : ~late[s]
    <2>1. /\ quiet' \in Nat /\ quiet \in Nat /\ quiet' <= quiet + 1
          /\ UNCHANGED <<primary, pc, left>> /\ \A s \in Servers : late'[s] /\ ~late[s]
      BY <1>2 DEF Tick
    <2>2. ASSUME NEW g \in AGs
          PROVE  IF groups[g] = NONE THEN groups'[g] = NONE
                 ELSE /\ groups'[g] # NONE /\ groups'[g].source = groups[g].source
                      /\ groups'[g].latencies = groups[g].latencies
                      /\ groups'[g].age <= groups[g].age + 1
                      /\ groups'[g].age >= groups[g].age + 1 \/ groups'[g].age > Expire
      <3>1. CASE groups[g] = NONE BY <3>1 DEF Tick
      <3>2. CASE groups[g] # NONE
        <4>1. groups[g] \in Group /\ groups[g].age \in Ages BY <3>2 DEF Group
        <4>2. groups'[g] = [groups[g] EXCEPT !.age = Older(groups[g].age)] BY <3>2 DEF Tick
        <4>3. /\ groups'[g] \in Group /\ groups'[g].age = Older(groups[g].age)
              /\ groups'[g].source = groups[g].source
              /\ groups'[g].latencies = groups[g].latencies
          BY <4>1, <4>2, OlderIs DEF Group
        <4> QED BY <3>2, <4>1, <4>3, OlderIs
      <3> QED BY <3>1, <3>2
    <2>3. ASSUME NEW s \in Servers PROVE Minutes(s)'
      <3>1. age'[s] = IF pc[s] = "set" /\ left[s] # {} THEN Older(age[s]) ELSE 0
        BY DEF Tick
      <3>2. Minutes(s) BY DEF Facts
      <3>3. 0 \in Ages /\ Older(0) <= 1 BY OlderIs DEF Ages
      <3> QED BY <2>1, <3>1, <3>2, <3>3 DEF Minutes, Fresh, PrimaryOf
    <2>4. ASSUME NEW s \in Servers, NEW g \in PrimaryOf(s) PROVE Shown(g, s)'
      <3>1. g \in AGs /\ Shown(g, s) BY DEF Facts, PrimaryOf
      <3>2. Due(g, s)' = Due(g, s) BY <2>1 DEF Due
      <3>3. ASSUME NEW n \in 0..1, SetBy(g, s, n) PROVE SetBy(g, s, n + 1)'
        <4>1. groups[g] \in Group /\ groups[g].age \in Nat BY <3>1, <3>3 DEF SetBy, Group, Ages
        <4>2. groups'[g] # NONE /\ groups'[g].age \in Nat BY <2>2, <3>1, <3>3 DEF SetBy, Group, Ages
        <4> QED BY <2>1, <2>2, <3>1, <3>3, <4>1, <4>2 DEF SetBy
      <3>4. SetBy(g, s, 0) => SetBy(g, s, 1)' BY <3>3
      <3>5. SetBy(g, s, 1) => SetBy(g, s, 2)' BY <3>3
      <3> QED BY <2>1, <3>1, <3>2, <3>4, <3>5 DEF Shown
    <2>5. ASSUME NEW g \in PrimaryOf(NONE) PROVE Old(g)'
      <3>1. g \in AGs /\ Old(g) BY DEF Facts, PrimaryOf
      <3>2. groups[g] # NONE => groups[g].age \in Nat BY <3>1 DEF Group, Ages
      <3>3. groups'[g] # NONE => groups'[g].age \in Nat BY <3>1 DEF Group, Ages
      <3> QED BY <2>1, <2>2, <3>1, <3>2, <3>3 DEF Old
    <2>6. ASSUME NEW g \in PrimaryOf(NONE), NEW s \in Servers, NEW h \in PrimaryOf(s)
          PROVE  Gone(g, h, s)'
      <3>1. g \in AGs /\ Gone(g, h, s) BY DEF Facts, PrimaryOf
      <3> QED BY <2>1, <2>2, <3>1 DEF Gone, Due
    <2>7. \A s : PrimaryOf(s)' = PrimaryOf(s) BY <2>1 DEF PrimaryOf
    <2> QED BY <2>3, <2>4, <2>5, <2>6, <2>7 DEF Facts
  <1> QED BY <1>1, <1>2
(* The facts about one server's poll, and those about groups, that a step  *)
(* of server s does not touch when it leaves the map alone.                *)
LEMMA PollStep ==
  ASSUME GInv, TypeOK', NEW s \in Servers, UNCHANGED <<primary, quiet, groups>>,
         \A t \in Servers \ {s} : UNCHANGED <<pc[t], left[t], age[t], late[t]>>,
         Minutes(s)',
         \A g \in PrimaryOf(s) : Shown(g, s)',
         \A g \in PrimaryOf(NONE), h \in PrimaryOf(s) : Gone(g, h, s)'
  PROVE  Facts'
  <1> USE DEF GInv
  <1>1. \A t : PrimaryOf(t)' = PrimaryOf(t) BY DEF PrimaryOf
  <1>2. ASSUME NEW t \in Servers \ {s} PROVE Minutes(t)' 
    BY <1>1 DEF Facts, Minutes, Fresh
  <1>3. ASSUME NEW t \in Servers \ {s}, NEW g \in PrimaryOf(t) PROVE Shown(g, t)'
    <2>1. Shown(g, t) BY DEF Facts
    <2>2. Due(g, t)' = Due(g, t) BY DEF Due
    <2>3. ASSUME NEW n \in Nat PROVE SetBy(g, t, n)' = SetBy(g, t, n) BY DEF SetBy
    <2> QED BY <2>1, <2>2, <2>3 DEF Shown
  <1>4. ASSUME NEW g \in PrimaryOf(NONE), NEW t \in Servers \ {s}, NEW h \in PrimaryOf(t)
        PROVE  Gone(g, h, t)'
    BY DEF Facts, Gone, Due
  <1>5. \A g \in PrimaryOf(NONE) : Old(g)' BY DEF Facts, Old
  <1> QED BY <1>1, <1>2, <1>3, <1>4, <1>5 DEF Facts

LEMMA GetAGListStep == ASSUME GInv, TypeOK', NEW s \in Servers, GetAGList(s) PROVE Facts'
  <1> USE DEF GInv, TypeOK
  <1>1. /\ pc[s] = "latencies" /\ left[s] = {} /\ UNCHANGED <<primary, quiet, groups>>
        /\ pc'[s] = "set" /\ left'[s] = PrimaryOf(s) /\ age'[s] = 0 /\ ~late'[s]
        /\ \A t \in Servers \ {s} : UNCHANGED <<pc[t], left[t], age[t], late[t]>>
    BY DEF GetAGList, Idle
  <1>2. Minutes(s)' BY <1>1 DEF Minutes, Fresh, PrimaryOf
  <1>3. ASSUME NEW g \in PrimaryOf(s) PROVE Shown(g, s)'
    <2>1. Shown(g, s) /\ ~Due(g, s) /\ Due(g, s)' BY <1>1 DEF Facts, Due
    <2>2. ASSUME NEW n \in Nat, SetBy(g, s, n) PROVE SetBy(g, s, n)'
      <3>1. groups[g].latencies = s BY <1>1, <2>2 DEF SetBy
      <3> QED BY <1>1, <2>2, <3>1 DEF SetBy
    <2> QED BY <1>1, <2>1, <2>2 DEF Shown
  <1>4. ASSUME NEW g \in PrimaryOf(NONE), NEW h \in PrimaryOf(s) PROVE Gone(g, h, s)'
    <2>1. Gone(g, h, s) /\ ~Due(h, s) /\ Due(h, s)' BY <1>1 DEF Facts, Due
    <2> QED BY <1>1, <2>1 DEF Gone
  <1> QED BY <1>1, <1>2, <1>3, <1>4, PollStep

LEMMA SetLatencyStep == ASSUME GInv, TypeOK', NEW s \in Servers, SetLatency(s) PROVE Facts'
  <1> USE DEF GInv, TypeOK
  <1>1. CASE quiet' = 0 BY <1>1, QuietStep
  <1>2. CASE quiet' # 0
    <2>1. /\ pc[s] = "set" /\ left[s] = {} /\ UNCHANGED <<primary, quiet, groups>>
          /\ pc'[s] = "latencies" /\ left'[s] = PrimaryOf(s) /\ age'[s] = 0
          /\ late'[s] = late[s]
          /\ \A t \in Servers \ {s} : UNCHANGED <<pc[t], left[t], age[t], late[t]>>
      BY <1>2 DEF SetLatency
    <2>2. Minutes(s)' BY <2>1 DEF Minutes, Fresh, PrimaryOf
    <2>3. ASSUME NEW g \in PrimaryOf(s) PROVE Shown(g, s)'
      <3>1. Shown(g, s) /\ ~Due(g, s) BY <2>1 DEF Facts, Due
      <3>2. ASSUME NEW n \in Nat, SetBy(g, s, n) PROVE SetBy(g, s, n)'
        BY <2>1, <3>2 DEF SetBy
      <3> QED BY <2>1, <3>1, <3>2 DEF Shown
    <2>4. ASSUME NEW g \in PrimaryOf(NONE), NEW h \in PrimaryOf(s) PROVE Gone(g, h, s)'
      <3>1. Gone(g, h, s) /\ ~Due(h, s) BY <2>1 DEF Facts, Due
      <3> QED BY <2>1, <3>1 DEF Gone
    <2> QED BY <2>1, <2>2, <2>3, <2>4, PollStep
  <1> QED BY <1>1, <1>2

LEMMA SetStep ==
  ASSUME GInv, TypeOK', Long, NEW s \in Servers, NEW g \in AGs, Set(s, g) PROVE Facts'
  <1> USE DEF GInv, TypeOK
  <1>1. /\ pc[s] = "set" /\ g \in left[s] /\ UNCHANGED <<primary, quiet, pc, age, late>>
        /\ left'[s] = left[s] \ {g} /\ \A t \in Servers \ {s} : left'[t] = left[t]
        /\ groups'[g] = IF age[s] > Expire THEN NONE
                        ELSE [source |-> s, age |-> age[s], latencies |-> NONE]
        /\ \A h \in AGs \ {g} :
             groups'[h] = IF groups[h] # NONE /\ groups[h].age > Expire THEN NONE ELSE groups[h]
    BY SetIs
  <1>2. \A t : PrimaryOf(t)' = PrimaryOf(t) BY <1>1 DEF PrimaryOf
  <1>3. quiet >= 2 => g \in PrimaryOf(s) /\ age[s] <= 1
    BY <1>1 DEF Facts, Minutes, Fresh
  <1>4. ASSUME NEW t \in Servers PROVE Minutes(t)'
    <2>1. left'[t] \subseteq left[t] BY <1>1
    <2> QED BY <1>1, <1>2, <2>1 DEF Facts, Minutes, Fresh
  <1>5. ASSUME NEW t \in Servers, NEW h \in PrimaryOf(t) PROVE Shown(h, t)'
    <2>0. h \in AGs /\ Shown(h, t) BY DEF Facts, PrimaryOf
    <2>1. CASE quiet < 2 BY <1>1, <2>1 DEF Shown
    <2>2. CASE quiet >= 2 /\ h = g
      <3>1. t = s BY <1>3, <2>2 DEF PrimaryOf
      <3>2. age[s] \in Nat /\ age[s] <= 1 /\ age[s] <= Expire BY <1>3, <2>2 DEF Ages, Long
      <3>3. groups'[g] = [source |-> s, age |-> age[s], latencies |-> NONE] BY <1>1, <3>2
      <3>4. groups'[g] # NONE BY <3>3 DEF Group
      <3>5. \A n \in Nat : age[s] <= n => SetBy(h, t, n)'
        BY <1>1, <2>2, <3>1, <3>3, <3>4 DEF SetBy
      <3>6. ~late[s] => age[s] = 0 BY <2>2 DEF Facts, Minutes
      <3>7. SetBy(h, t, 1)' /\ SetBy(h, t, 2)' /\ (~late[s] => SetBy(h, t, 0)')
        BY <3>2, <3>5, <3>6
      <3> QED BY <1>1, <2>2, <3>1, <3>7 DEF Shown
    <2>3. CASE quiet >= 2 /\ h # g
      <3>1. Due(h, t)' = Due(h, t) BY <1>1, <2>3 DEF Due
      <3>2. ASSUME NEW n \in 0..2, SetBy(h, t, n) PROVE SetBy(h, t, n)'
        <4>1. groups'[h] = groups[h] BY <1>1, <2>0, <2>3, <3>2 DEF SetBy, Long, Group, Ages
        <4> QED BY <1>1, <2>3, <3>2, <4>1 DEF SetBy
      <3>3. /\ SetBy(h, t, 0) => SetBy(h, t, 0)'
            /\ SetBy(h, t, 1) => SetBy(h, t, 1)'
            /\ SetBy(h, t, 2) => SetBy(h, t, 2)'
        BY <3>2
      <3> QED BY <1>1, <2>0, <3>1, <3>3 DEF Shown
    <2> QED BY <2>1, <2>2, <2>3
  <1>6. ASSUME NEW h \in PrimaryOf(NONE), quiet >= 2
        PROVE  /\ h \in AGs \ {g} /\ Old(h)
               /\ groups'[h] = IF groups[h] # NONE /\ groups[h].age > Expire THEN NONE ELSE groups[h]
    BY <1>1, <1>3, <1>6 DEF PrimaryOf, Facts
  <1>7. ASSUME NEW h \in PrimaryOf(NONE) PROVE Old(h)'
    <2>1. CASE quiet < 2
      <3>1. groups'[h] # NONE => groups'[h].age \in Nat BY DEF Group, Ages, PrimaryOf
      <3> QED BY <1>1, <2>1, <3>1 DEF Old
    <2>2. CASE quiet >= 2 BY <1>1, <1>6, <2>2 DEF Old
    <2> QED BY <2>1, <2>2
  <1>8. ASSUME NEW h \in PrimaryOf(NONE), quiet >= Expire + 2 PROVE groups'[h] = NONE
    <2>1. groups[h] # NONE => groups[h].age \in Nat BY DEF Group, Ages, PrimaryOf
    <2>2. quiet >= 2 BY <1>8
    <2> QED BY <1>6, <1>8, <2>1, <2>2 DEF Old
  <1>9. ASSUME NEW h \in PrimaryOf(NONE), NEW t \in Servers, NEW i \in PrimaryOf(t)
        PROVE  Gone(h, i, t)'
    BY <1>1, <1>8 DEF Gone
  <1> QED BY <1>2, <1>4, <1>5, <1>7, <1>9 DEF Facts

LEMMA SetLatenciesStep ==
  ASSUME GInv, TypeOK', NEW s \in Servers, NEW g \in AGs, SetLatencies(s, g) PROVE Facts'
  <1> USE DEF GInv, TypeOK
  <1>1. /\ pc[s] = "latencies" /\ g \in left[s] /\ UNCHANGED <<primary, quiet, pc, age, late>>
        /\ left'[s] = left[s] \ {g} /\ \A t \in Servers \ {s} : left'[t] = left[t]
        /\ \A h \in AGs \ {g} : groups'[h] = groups[h]
        /\ groups[g] = NONE => groups'[g] = NONE
    BY DEF SetLatencies
  <1>2. groups[g] # NONE =>
          /\ groups'[g] # NONE /\ groups'[g].source = groups[g].source
          /\ groups'[g].age = groups[g].age /\ groups'[g].latencies = s
    <2>1. SUFFICES ASSUME groups[g] # NONE
                   PROVE  /\ groups'[g] # NONE /\ groups'[g].source = groups[g].source
                          /\ groups'[g].age = groups[g].age /\ groups'[g].latencies = s
      OBVIOUS
    <2>2. groups'[g] = [groups[g] EXCEPT !.latencies = s] BY <2>1 DEF SetLatencies
    <2>3. groups[g] \in Group BY <2>1
    <2>4. groups'[g] \in Group BY <2>2, <2>3 DEF Group
    <2> QED BY <2>2, <2>3, <2>4 DEF Group
  <1>3. \A t : PrimaryOf(t)' = PrimaryOf(t) BY <1>1 DEF PrimaryOf
  <1>4. quiet >= 2 => g \in PrimaryOf(s) BY <1>1 DEF Facts, Minutes, Fresh
  <1>5. ASSUME NEW t \in Servers PROVE Minutes(t)'
    <2>1. left'[t] \subseteq left[t] BY <1>1
    <2> QED BY <1>1, <1>3, <2>1 DEF Facts, Minutes, Fresh
  <1>6. \A t \in Servers : \A h : Due(h, t)' = Due(h, t)
    <2> TAKE t \in Servers
    <2> TAKE h
    <2>1. CASE t = s BY <1>1, <2>1 DEF Due
    <2>2. CASE t # s BY <1>1, <2>2 DEF Due
    <2> QED BY <2>1, <2>2
  <1>7. ASSUME NEW t \in Servers, NEW h \in PrimaryOf(t) PROVE Shown(h, t)'
    <2>0. h \in AGs /\ Shown(h, t) BY DEF Facts, PrimaryOf
    <2>1. CASE quiet < 2 BY <1>1, <2>1 DEF Shown
    <2>2. CASE quiet >= 2
      <3>1. ASSUME NEW n \in Nat, SetBy(h, t, n) PROVE SetBy(h, t, n)'
        <4>1. CASE h = g
          <5>1. t = s BY <1>4, <2>2, <4>1 DEF PrimaryOf
          <5> QED BY <1>2, <3>1, <4>1, <5>1 DEF SetBy
        <4>2. CASE h # g
          <5>1. (h \notin left'[t]) = (h \notin left[t]) BY <1>1, <4>2
          <5>2. groups'[h] = groups[h] BY <1>1, <2>0, <4>2
          <5> QED BY <1>1, <3>1, <5>1, <5>2 DEF SetBy
        <4> QED BY <4>1, <4>2
      <3> QED BY <1>1, <1>6, <2>0, <3>1 DEF Shown
    <2> QED BY <2>1, <2>2
  <1>8. ASSUME NEW h \in PrimaryOf(NONE) PROVE Old(h)'
    <2>1. h \in AGs /\ Old(h) BY DEF Facts, PrimaryOf
    <2> QED BY <1>1, <1>2, <2>1 DEF Old
  <1>9. ASSUME NEW h \in PrimaryOf(NONE), NEW t \in Servers, NEW i \in PrimaryOf(t)
        PROVE  Gone(h, i, t)'
    <2>1. h \in AGs /\ Gone(h, i, t) BY DEF Facts, PrimaryOf
    <2>2. groups[h] = NONE => groups'[h] = NONE BY <1>1, <2>1
    <2> QED BY <1>1, <1>6, <2>1, <2>2 DEF Gone
  <1> QED BY <1>3, <1>5, <1>7, <1>8, <1>9 DEF Facts-----------------------------------------------------------------------------
LEMMA Start == ASSUME Init PROVE GInv
  <1>1. TypeOK BY DEF Init, TypeOK, Ages
  <1> QED BY <1>1 DEF Init, GInv, Facts, Minutes, Shown, Old, Gone, TypeOK

LEMMA Step == ASSUME Long, GInv, [Next]_vars PROVE GInv'
  <1>1. TypeOK' BY TypeStep DEF GInv
  <1>2. ASSUME NEW g \in AGs, NEW s \in Servers \cup {NONE}, Failover(g, s) PROVE Facts'
    BY <1>2, QuietStep DEF Failover, GInv
  <1>3. CASE Tick BY <1>1, <1>3, TickStep DEF GInv
  <1>4. ASSUME NEW s \in Servers, PollAG(s) PROVE Facts'
    <2>1. CASE GetAGList(s) BY <1>1, <2>1, GetAGListStep
    <2>2. CASE GetAGListFails(s) BY <2>2, QuietStep DEF GetAGListFails, GInv
    <2>3. CASE SetLatency(s) BY <1>1, <2>3, SetLatencyStep
    <2>4. ASSUME NEW g \in AGs, Set(s, g) PROVE Facts' BY <1>1, <2>4, SetStep
    <2>5. ASSUME NEW g \in AGs, SetLatencies(s, g) PROVE Facts' BY <1>1, <2>5, SetLatenciesStep
    <2> QED BY <1>4, <2>1, <2>2, <2>3, <2>4, <2>5 DEF PollAG
  <1>5. CASE UNCHANGED vars
    <2>1. UNCHANGED <<primary, quiet, groups, pc, left, age, late>> BY <1>5 DEF vars, pollVars
    <2>2. ASSUME NEW g, NEW s PROVE Shown(g, s)' = Shown(g, s)
      BY <2>1 DEF Shown, Due, SetBy
    <2>3. \A s : PrimaryOf(s)' = PrimaryOf(s) /\ Minutes(s)' = Minutes(s)
      BY <2>1 DEF PrimaryOf, Minutes, Fresh
    <2>4. \A g, h, s : Old(g)' = Old(g) /\ Gone(g, h, s)' = Gone(g, h, s)
      BY <2>1 DEF Old, Gone, Due
    <2> QED BY <1>1, <2>2, <2>3, <2>4 DEF GInv, Facts
  <1> QED BY <1>1, <1>2, <1>3, <1>4, <1>5 DEF Next, GInv

LEMMA Invariance == ASSUME Long PROVE Spec => []GInv
  BY Start, Step, PTL DEF Spec

(* Every variable of Groups keeps its type.                                *)
THEOREM TypeCorrect == Spec => []TypeOK
  <1>1. Init => TypeOK BY Start DEF GInv
  <1> QED BY <1>1, TypeStep, PTL DEF Spec

(* Results of any number of servers overtake each other: four minutes      *)
(* after the last failover or failure every group is shown at its primary, *)
(* and as healthy (AGMap.Set, IsHealthy).                                  *)
THEOREM ShownCorrect == ASSUME Long PROVE Spec => []ShownAtPrimary
  <1>1. ASSUME GInv PROVE ShownAtPrimary
    <2>1. SUFFICES ASSUME quiet >= 4, NEW g \in AGs, primary[g] # NONE
                   PROVE  IsHealthy(g) /\ groups[g].source = primary[g]
      BY DEF ShownAtPrimary
    <2>2. primary[g] \in Servers /\ g \in PrimaryOf(primary[g])
      BY <1>1, <2>1 DEF GInv, TypeOK, PrimaryOf
    <2>3. SetBy(g, primary[g], 2) BY <1>1, <2>1, <2>2 DEF GInv, Facts, Shown
    <2>4. groups[g].age \in Nat BY <1>1, <2>3 DEF GInv, TypeOK, Group, Ages, SetBy
    <2> QED BY <2>3, <2>4 DEF SetBy, IsHealthy, Long
  <1> QED BY <1>1, Invariance, PTL

(* A group that no polled server is the primary of goes, as long as        *)
(* another is polled (AGMap.Set).                                          *)
THEOREM GoneCorrect == ASSUME Long PROVE Spec => []GoneExpire
  <1>1. ASSUME GInv PROVE GoneExpire
    <2>1. SUFFICES ASSUME quiet >= Expire + 4, PrimaryOf(NONE) # AGs, NEW g \in PrimaryOf(NONE)
                   PROVE  groups[g] = NONE
      BY DEF GoneExpire
    <2>2. PICK h \in AGs : primary[h] # NONE BY <2>1 DEF PrimaryOf
    <2>3. primary[h] \in Servers /\ h \in PrimaryOf(primary[h])
      BY <1>1, <2>2 DEF GInv, TypeOK, PrimaryOf
    <2> QED BY <1>1, <2>1, <2>3 DEF GInv, Facts, Gone
  <1> QED BY <1>1, Invariance, PTL

(* Latencies that are shown are the shown primary's, and missing ones are  *)
(* on their way (AGMap.SetLatencies).                                      *)
THEOREM LatenciesCorrect == ASSUME Long PROVE Spec => []LatenciesOfPrimary
  <1>1. ASSUME GInv PROVE LatenciesOfPrimary
    <2>1. SUFFICES ASSUME quiet >= 4, NEW s \in Servers, NEW g \in PrimaryOf(s),
                          groups[g].latencies # s
                   PROVE  groups[g].latencies = NONE /\ (pc[s] = "set") = (g \notin left[s])
      BY DEF LatenciesOfPrimary
    <2> QED BY <1>1, <2>1 DEF GInv, Facts, Shown, SetBy
  <1> QED BY <1>1, Invariance, PTL
=============================================================================
