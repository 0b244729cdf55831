----------------------------- MODULE PollProofs -----------------------------
(***************************************************************************)
(* Theorems about the poller.  The invariant PInv adds to the properties   *)
(* what a poll knows at each of its steps: that IsPolling is set by the    *)
(* poll in progress only, and, as long as nothing failed, which samples    *)
(* are of the instance that getName has seen.                              *)
(***************************************************************************)
EXTENDS Poll, TLAPS

Named   == {"info", "conn", "sample", "rest", "ip", "ipStore", "jobs", "done"}
Sampled == {"rest", "ip", "ipStore", "jobs", "done"}

(* A poll starts with the first accumulator, and IsPolling is set within a  *)
(* poll only.                                                              *)
Polling ==
  /\ pc \in {"open", "name", "info", "conn"} => next = 1
  /\ pc \in {"launched", "nap", "loop", "write", "down"} => ~isPolling

(* What a poller knows that has not seen a failure: getName's answer is    *)
(* right until the poll ends; a reset is of a poll that will be big, and   *)
(* lasts until all its samples are new; without one the samples are of the *)
(* known instance.                                                         *)
Tracked ==
  /\ mixed = {}
  /\ pc # "down"
  /\ pc \in Named => known = id
  /\ reset => pc \in Named /\ ~quick
  /\ ~reset => \A a \in Accs : last[a] \in {NONE, known}
  /\ reset /\ pc = "sample" => \A a \in Accs : a < next => last[a] = known
  /\ reset /\ pc \in Sampled => \A a \in Accs : last[a] = known
  /\ pc = "launched" => known = NONE
  /\ pc \in {"open", "name"} /\ quick => known = NONE

PInv == TypeOK /\ Polling /\ (clean => Tracked)

USE PollAssumption DEF PollAssumption

(* The invariant holds of a server nothing is cached of.                   *)
LEMMA Initially == Init => PInv
  <1> SUFFICES ASSUME Init PROVE PInv
    OBVIOUS
  <1>1. TypeOK
    <2>1. Flags
      BY Zenon DEF Init, Flags
    <2>2. Values
      BY DEF Init, Values, NoSamples, Accs
    <2> QED BY <2>1, <2>2 DEF TypeOK
  <1>2. Polling
    BY DEF Init, Polling
  <1>3. Tracked
    BY DEF Init, Tracked, NoSamples, Named, Sampled
  <1> QED BY <1>1, <1>2, <1>3 DEF PInv

(* Every step preserves the types and Polling.                             *)
LEMMA TypeStep == TypeOK /\ Polling /\ [Next]_vars => TypeOK' /\ Polling'
  <1> SUFFICES ASSUME Flags, Values, Polling, [Next]_vars PROVE Flags' /\ Values' /\ Polling'
    BY DEF TypeOK
  <1> USE DEF sqlVars, pollVars, wrapVars, dataVars
  <1>1. CASE \E x \in Instances : Switch(x)
    <2>1. Flags'
      BY <1>1, Zenon DEF Flags, Switch
    <2>2. Values' /\ Polling'
      BY <1>1 DEF Values, Polling, Accs, Switch
    <2> QED BY <2>1, <2>2
  <1>2. CASE Outage
    <2>1. Flags'
      BY <1>2, Zenon DEF Flags, Outage
    <2>2. Values' /\ Polling'
      BY <1>2 DEF Values, Polling, Accs, Outage
    <2> QED BY <2>1, <2>2
  <1>3. CASE Age
    <2>1. Flags'
      BY <1>3, Zenon DEF Flags, Age
    <2>2. Values' /\ Polling'
      BY <1>3 DEF Values, Polling, Accs, Age
    <2> QED BY <2>1, <2>2
  <1>4. CASE BeginPoll
    <2>1. Flags'
      BY <1>4, Zenon DEF Flags, BeginPoll, Awake
    <2>2. Values' /\ Polling'
      BY <1>4 DEF Values, Polling, Accs, BeginPoll, Awake
    <2> QED BY <2>1, <2>2
  <1>5. CASE OpenDB
    <2>1. Flags'
      BY <1>5, Zenon DEF Flags, OpenDB, Pass, Fail
    <2>2. Values' /\ Polling'
      BY <1>5 DEF Values, Polling, Accs, OpenDB, Pass, Fail
    <2> QED BY <2>1, <2>2
  <1>6. CASE GetName
    <2>1. Flags'
      BY <1>6, Zenon DEF Flags, GetName, Pass, Fail
    <2>2. Values' /\ Polling'
      BY <1>6 DEF Values, Polling, Accs, GetName, Pass, Fail
    <2> QED BY <2>1, <2>2
  <1>7. CASE GetServerInfo
    <2>1. Flags'
      BY <1>7, Zenon DEF Flags, GetServerInfo, Pass, Fail
    <2>2. Values' /\ Polling'
      BY <1>7 DEF Values, Polling, Accs, GetServerInfo, Pass, Fail
    <2> QED BY <2>1, <2>2
  <1>8. CASE GetConnectionInfo
    <2>1. Flags'
      BY <1>8, Zenon DEF Flags, GetConnectionInfo, Pass, Fail
    <2>2. Values' /\ Polling'
      BY <1>8 DEF Values, Polling, Accs, GetConnectionInfo, Pass, Fail
    <2> QED BY <2>1, <2>2
  <1>9. CASE Sample
    <2>1. Flags'
      BY <1>9, Zenon DEF Flags, Sample, Pass, Fail
    <2>2. next \in Accs
      BY <1>9 DEF Values, Sample
    <2>3. id' = id /\ known' = known /\ cache' = cache
      BY <1>9 DEF Sample, Pass, Fail
    <2>4. /\ pc' \in {"sample", "rest", "done"}
          /\ next' \in 1..(NumAccs + 1) /\ (pc' = "sample" => next' \in Accs)
      BY <1>9, <2>2 DEF Accs, Sample, Pass, Fail
    <2>5. last' \in [Accs -> Instances \cup {NONE}] /\ mixed' \subseteq Accs
      BY <1>9, <2>2 DEF Values, Sample
    <2>6. Values' /\ Polling'
      BY <2>3, <2>4, <2>5 DEF Values, Polling
    <2> QED BY <2>1, <2>6
  <1>10. CASE Rest
    <2>1. Flags'
      BY <1>10, Zenon DEF Flags, Rest, Pass, Fail
    <2>2. Values' /\ Polling'
      BY <1>10 DEF Values, Polling, Accs, Rest, Pass, Fail
    <2> QED BY <2>1, <2>2
  <1>11. CASE GetIP
    <2>1. Flags'
      BY <1>11, Zenon DEF Flags, GetIP
    <2>2. Values' /\ Polling'
      BY <1>11 DEF Values, Polling, Accs, GetIP
    <2> QED BY <2>1, <2>2
  <1>12. CASE StoreIP
    <2>1. Flags'
      BY <1>12, Zenon DEF Flags, StoreIP, Pass
    <2>2. Values' /\ Polling'
      BY <1>12 DEF Values, Polling, Accs, StoreIP, Pass
    <2> QED BY <2>1, <2>2
  <1>13. CASE Jobs
    <2>1. Flags'
      BY <1>13, Zenon DEF Flags, Jobs, Pass, Fail
    <2>2. Values' /\ Polling'
      BY <1>13 DEF Values, Polling, Accs, Jobs, Pass, Fail
    <2> QED BY <2>1, <2>2
  <1>14. CASE Done
    <2>1. Flags'
      BY <1>14, Zenon DEF Flags, Done, AfterPoll
    <2>2. Values' /\ Polling'
      BY <1>14 DEF Values, Polling, Accs, Done, AfterPoll
    <2> QED BY <2>1, <2>2
  <1>15. CASE WriteCache
    <2>1. Flags'
      BY <1>15, Zenon DEF Flags, WriteCache, AfterPoll
    <2>2. Values' /\ Polling'
      BY <1>15 DEF Values, Polling, Accs, WriteCache, AfterPoll
    <2> QED BY <2>1, <2>2
  <1>16. CASE SendStop
    <2>1. Flags'
      BY <1>16, Zenon DEF Flags, SendStop
    <2>2. Values' /\ Polling'
      BY <1>16 DEF Values, Polling, Accs, SendStop
    <2> QED BY <2>1, <2>2
  <1>17. CASE ReceiveStop
    <2>1. Flags'
      BY <1>17, Zenon DEF Flags, ReceiveStop
    <2>2. Values' /\ Polling'
      BY <1>17 DEF Values, Polling, Accs, ReceiveStop
    <2> QED BY <2>1, <2>2
  <1>18. CASE Crash
    <2>1. Flags'
      BY <1>18, Zenon DEF Flags, Crash, Forgotten, NoSamples
    <2>2. Values' /\ Polling'
      BY <1>18 DEF Values, Polling, Accs, Crash, Forgotten, NoSamples
    <2> QED BY <2>1, <2>2
  <1>19. CASE Start
    <2>1. Flags'
      BY <1>19, Zenon DEF Flags, Start
    <2>2. Values' /\ Polling'
      BY <1>19 DEF Values, Polling, Accs, Start
    <2> QED BY <2>1, <2>2
  <1>20. CASE UNCHANGED vars
    <2>1. Flags'
      BY <1>20, Zenon DEF Flags, vars
    <2>2. Values' /\ Polling'
      BY <1>20 DEF Values, Polling, Accs, vars
    <2> QED BY <2>1, <2>2
  <1> QED
    BY <1>1, <1>2, <1>3, <1>4, <1>5, <1>6, <1>7, <1>8, <1>9, <1>10, <1>11, <1>12, <1>13,
       <1>14, <1>15, <1>16, <1>17, <1>18, <1>19, <1>20 DEF Next, PollStep, Environment

(* Whatever SQL Server and the queries do, what a poller without failures   *)
(* knows stays right.                                                      *)
LEMMA TrackStep == PInv /\ [Next]_vars => (clean => Tracked)'
  <1> SUFFICES ASSUME PInv, [Next]_vars, clean' = TRUE PROVE Tracked'
    BY Zenon DEF PInv, TypeOK, Flags
  <1> USE DEF sqlVars, pollVars, wrapVars, dataVars, Accs
  <1>1. CASE \E x \in Instances : Switch(x)
    BY <1>1 DEF PInv, TypeOK, Values, Polling, Tracked, Named, Sampled, Switch, InPoll
  <1>2. CASE Outage
    BY <1>2 DEF PInv, TypeOK, Values, Polling, Tracked, Named, Sampled, Outage
  <1>3. CASE Age
    BY <1>3 DEF PInv, TypeOK, Values, Polling, Tracked, Named, Sampled, Age
  <1>4. CASE BeginPoll
    <2>1. /\ pc \in {"launched", "nap", "loop"} /\ quick' = (pc = "launched")
          /\ pc' \in {"nap", "loop", "open"}
          /\ UNCHANGED <<id, reset, known, last, mixed, clean>>
      BY <1>4, Zenon DEF BeginPoll, Awake
    <2>2. clean = TRUE /\ id' = id
      BY <2>1 DEF Pass
    <2> QED
      BY <2>1, <2>2 DEF PInv, TypeOK, Values, Polling, Tracked, Named, Sampled, Pass
  <1>5. CASE OpenDB
    <2>1. pc = "open" /\ Pass("name") /\ UNCHANGED <<big, next, wrapVars, dataVars>>
      BY <1>5, Zenon DEF OpenDB, Fail
    <2>2. clean = TRUE /\ id' = id
      BY <2>1 DEF Pass
    <2> QED
      BY <2>1, <2>2 DEF PInv, TypeOK, Values, Polling, Tracked, Named, Sampled, Pass
  <1>6. CASE GetName
    <2>1. /\ pc = "name" /\ Pass("info") /\ known' = id
          /\ reset' = (reset \/ known \notin {NONE, id})
          /\ UNCHANGED <<big, next, isPolling, due, lastError, dataVars>>
      BY <1>6, Zenon DEF GetName, Fail
    <2>2. clean = TRUE /\ id' = id
      BY <2>1 DEF Pass
    <2> QED
      BY <2>1, <2>2 DEF PInv, TypeOK, Values, Polling, Tracked, Named, Sampled, Pass
  <1>7. CASE GetServerInfo
    <2>1. /\ pc = "info" /\ Pass(IF quick THEN "done" ELSE "conn")
          /\ UNCHANGED <<big, next, wrapVars, dataVars>>
      BY <1>7, Zenon DEF GetServerInfo, Fail
    <2>2. clean = TRUE /\ id' = id
      BY <2>1 DEF Pass
    <2> QED
      BY <2>1, <2>2 DEF PInv, TypeOK, Values, Polling, Tracked, Named, Sampled, Pass
  <1>8. CASE GetConnectionInfo
    <2>0. pc = "conn" /\ UNCHANGED <<next, isPolling, reset, known, lastError, dataVars>>
      BY <1>8 DEF GetConnectionInfo
    <2>1. Pass("sample") \/ (~reset /\ Pass("done"))
      BY <1>8, Zenon DEF GetConnectionInfo, Fail
    <2>2. clean = TRUE /\ id' = id
      BY <2>1 DEF Pass
    <2> QED
      BY <2>0, <2>1, <2>2 DEF PInv, TypeOK, Values, Polling, Tracked, Named, Sampled, Pass
  <1>9. CASE Sample
    <2>1. /\ pc = "sample" /\ Pass(IF next = NumAccs THEN "rest" ELSE "sample")
          /\ next' = next + 1 /\ last' = [last EXCEPT ![next] = id]
          /\ \/ mixed' = mixed \ {next}
             \/ /\ ~reset /\ last[next] \notin {NONE, id}
                /\ mixed' = mixed \cup {next}
          /\ UNCHANGED wrapVars
      BY <1>9, Zenon DEF Sample, Fail
    <2>2. clean = TRUE /\ id' = id
      BY <2>1 DEF Pass
    <2>3. Tracked /\ known = id /\ known' = id /\ reset' = reset /\ quick' = quick
      BY <2>1, <2>2 DEF PInv, Tracked, Named, Pass
    <2>4. next \in Accs /\ last \in [Accs -> Instances \cup {NONE}]
      BY <2>1 DEF PInv, TypeOK, Values
    <2>5. mixed' = {}
      BY <2>1, <2>3, <2>4 DEF Tracked
    <2>6. ~reset => \A a \in Accs : last'[a] \in {NONE, known'}
      BY <2>1, <2>3, <2>4 DEF Tracked
    <2>7. reset => \A a \in Accs : a <= next => last'[a] = known'
      BY <2>1, <2>3, <2>4 DEF Tracked
    <2>8. pc' = "sample" \/ (pc' = "rest" /\ next = NumAccs)
      BY <2>1 DEF Pass
    <2> QED
      BY <2>1, <2>2, <2>3, <2>4, <2>5, <2>6, <2>7, <2>8 DEF Tracked, Named, Sampled
  <1>10. CASE Rest
    <2>1. pc = "rest" /\ Pass("ip") /\ UNCHANGED <<next, wrapVars, dataVars>>
      BY <1>10, Zenon DEF Rest, Fail
    <2>2. clean = TRUE /\ id' = id
      BY <2>1 DEF Pass
    <2> QED
      BY <2>1, <2>2 DEF PInv, TypeOK, Values, Polling, Tracked, Named, Sampled, Pass
  <1>11. CASE GetIP
    BY <1>11 DEF PInv, TypeOK, Values, Polling, Tracked, Named, Sampled, GetIP
  <1>12. CASE StoreIP
    BY <1>12 DEF PInv, TypeOK, Values, Polling, Tracked, Named, Sampled, StoreIP, Pass
  <1>13. CASE Jobs
    <2>1. pc = "jobs" /\ Pass("done") /\ UNCHANGED <<next, wrapVars, dataVars>>
      BY <1>13, Zenon DEF Jobs, Fail
    <2>2. clean = TRUE /\ id' = id
      BY <2>1 DEF Pass
    <2> QED
      BY <2>1, <2>2 DEF PInv, TypeOK, Values, Polling, Tracked, Named, Sampled, Pass
  <1>14. CASE Done
    BY <1>14 DEF PInv, TypeOK, Values, Polling, Tracked, Named, Sampled, Done, AfterPoll
  <1>15. CASE WriteCache
    BY <1>15 DEF PInv, TypeOK, Values, Polling, Tracked, Named, Sampled, WriteCache, AfterPoll
  <1>16. CASE SendStop
    BY <1>16 DEF PInv, TypeOK, Values, Polling, Tracked, Named, Sampled, SendStop
  <1>17. CASE ReceiveStop
    BY <1>17 DEF PInv, TypeOK, Values, Polling, Tracked, Named, Sampled, ReceiveStop
  <1>18. CASE Crash
    BY <1>18 DEF PInv, TypeOK, Values, Polling, Tracked, Named, Sampled, Crash
  <1>19. CASE Start
    BY <1>19 DEF PInv, TypeOK, Values, Polling, Tracked, Named, Sampled, Start
  <1>20. CASE UNCHANGED vars
    BY <1>20 DEF PInv, TypeOK, Values, Polling, Tracked, Named, Sampled, vars
  <1> QED
    BY <1>1, <1>2, <1>3, <1>4, <1>5, <1>6, <1>7, <1>8, <1>9, <1>10, <1>11, <1>12, <1>13,
       <1>14, <1>15, <1>16, <1>17, <1>18, <1>19, <1>20 DEF Next, PollStep, Environment

LEMMA Invariance == Spec => []PInv
  <1>1. PInv /\ [Next]_vars => PInv'
    BY TypeStep, TrackStep DEF PInv
  <1> QED BY <1>1, Initially, PTL DEF Spec

(* The poller's variables keep their types.                                *)
THEOREM TypeCorrect == Spec => []TypeOK
  <1>1. PInv => TypeOK
    BY DEF PInv
  <1> QED BY <1>1, Invariance, PTL

(* However many accumulators there are, and whatever instances the name    *)
(* leads to, a poller without failures records no difference of the        *)
(* counters of two of them.                                                *)
THEOREM DeltasCorrect == Spec => []CleanDeltasWithinInstance
  <1>1. PInv => CleanDeltasWithinInstance
    BY Zenon DEF PInv, Tracked, CleanDeltasWithinInstance
  <1> QED BY <1>1, Invariance, PTL

(* A poller never finds IsPolling left over from an earlier poll, however  *)
(* that one ended.                                                         *)
THEOREM SkipsCorrect == Spec => []NeverSkips
  <1>1. PInv => NeverSkips
    BY DEF PInv, Polling, Awake, NeverSkips
  <1> QED BY <1>1, Invariance, PTL
=============================================================================
