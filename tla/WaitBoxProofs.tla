---------------------------- MODULE WaitBoxProofs ----------------------------
(***************************************************************************)
(* Theorems about what a Box adds to Waits, for any sessions, instances    *)
(* and durations, and its TypeOK.  BInv says what the requests of the Box  *)
(* are worth: when the next poll would not reset, what was added of a wait *)
(* is no more than the Box has seen of it, and exactly that for a wait     *)
(* that began under its eyes.                                              *)
(***************************************************************************)
EXTENDS WaitBox, FiniteSetTheorems, WellFoundedInduction, TLAPS

(* The next poll that gets rows does not reset.                            *)
Current == pc = "polling" /\ ~first /\ identity = id

(* What the Box has seen of the session's wait.                            *)
Seen(s) ==
  IF SameWait(requests[s], req[s]) /\ req[s].ms >= requests[s].ms THEN requests[s].ms ELSE 0

Counted(s) ==
  Waiting(s) => /\ base[s] + paid[s] <= req[s].ms
                /\ Current => base[s] + paid[s] <= Seen(s)

Whole(s) ==
  s \in whole /\ Waiting(s) =>
    /\ Current
    /\ paid[s] = Seen(s)
    /\ SameWait(requests[s], req[s]) => requests[s].ms <= req[s].ms

Met ==
  /\ pc = "setup" => first
  /\ ~first /\ identity # NONE => met = identity
  /\ met # id => \A s \in Sessions : base[s] = 0 /\ paid[s] = 0

Values ==
  /\ id \in Instances /\ first \in BOOLEAN
  /\ req \in [Sessions -> Request \cup {NONE}]
  /\ requests \in [Sessions -> Request \cup {NONE}]
  /\ base \in [Sessions -> Nat] /\ paid \in [Sessions -> Nat]
  /\ whole \subseteq Sessions

BInv == Values /\ Met /\ \A s \in Sessions : Counted(s) /\ Whole(s)

USE BoxAssumption, RequestAssumption DEF BoxAssumption, RequestAssumption

(* The invariant holds of a new Box.                                       *)
LEMMA Initially == Init => BInv
  BY DEF Init, BInv, Values, Met, Counted, Whole, Waiting, Idle, Zero

(* A wait that begins has been added to nothing.                           *)
LEMMA BeginsStep ==
  ASSUME BInv, NEW s \in Sessions, NEW a \in Request, Begins(s, a), a.ms = 0
  PROVE  BInv'
  <1> USE DEF BInv, Begins, boxVars
  <1>1. Values'
    BY DEF Values
  <1>2. Met'
    BY DEF Met, Values
  <1>3. Counted(s)' /\ Whole(s)'
    BY DEF Values, Counted, Whole, Waiting, Seen, Current, SameWait, Request
  <1>4. ASSUME NEW t \in Sessions \ {s} PROVE Counted(t)' /\ Whole(t)'
    BY <1>4 DEF Values, Counted, Whole, Waiting, Seen, Current, SameWait
  <1> QED BY <1>1, <1>2, <1>3, <1>4

(* What SQL Server does next.                                              *)
LEMMA ServerStep == ASSUME BInv, Server PROVE BInv'
  <1> USE DEF BInv
  <1>1. ASSUME NEW s \in Sessions, NEW t \in Starts, NEW w \in Types, BeginRequest(s, t, w)
        PROVE  BInv'
    <2> DEFINE a == [start |-> t, wait |-> w, ms |-> 0]
    <2>1. a \in Request /\ a.ms = 0 BY DEF Request
    <2>2. Begins(s, a) BY <1>1 DEF BeginRequest
    <2> HIDE DEF a
    <2> QED BY <2>1, <2>2, BeginsStep
  <1>2. ASSUME NEW s \in Sessions, NEW w \in Types, NextWait(s, w) PROVE BInv'
    <2> DEFINE a == [start |-> req[s].start, wait |-> w, ms |-> 0]
    <2>1. a \in Request /\ a.ms = 0 BY <1>2 DEF Request, NextWait, Values
    <2>2. Begins(s, a) BY <1>2 DEF NextWait
    <2> HIDE DEF a
    <2> QED BY <2>1, <2>2, BeginsStep
  <1>3. ASSUME NEW s \in Sessions, Elapse(s) PROVE BInv'
    <2> USE <1>3 DEF Elapse, boxVars, history, Values
    <2>1. Values' BY DEF Request, Waiting
    <2>2. Met' BY DEF Met
    <2>3. ASSUME NEW t \in Sessions PROVE Counted(t)' /\ Whole(t)'
      <3>1. CASE t = s
        BY <3>1 DEF Counted, Whole, Waiting, Seen, Current, SameWait, Request
      <3>2. CASE t # s
        BY <2>3, <3>2 DEF Counted, Whole, Waiting, Seen, Current, SameWait
      <3> QED BY <3>1, <3>2
    <2> QED BY <2>1, <2>2, <2>3
  <1>4. ASSUME NEW s \in Sessions, EndRequest(s) PROVE BInv'
    <2> USE <1>4 DEF EndRequest, boxVars, Values
    <2>1. Values' OBVIOUS
    <2>2. Met' BY DEF Met
    <2>3. ASSUME NEW t \in Sessions PROVE Counted(t)' /\ Whole(t)'
      BY <2>3 DEF Counted, Whole, Waiting, Seen, Current, SameWait
    <2> QED BY <2>1, <2>2, <2>3
  <1>5. CASE Others \/ Outage
    BY <1>5 DEF Others, Outage, boxVars, history, Values, Met, Counted, Whole, Waiting, Seen,
                Current, SameWait
  <1>6. ASSUME NEW x \in Instances, Switch(x) PROVE BInv'
    BY <1>6 DEF Switch, boxVars, Values, Met, Counted, Whole, Waiting, Idle, Zero
  <1> QED BY <1>1, <1>2, <1>3, <1>4, <1>5, <1>6 DEF Server

(* A Box that is set up, fails, hands its waits over or is made anew.      *)
LEMMA IdleStep ==
  ASSUME BInv, SetUp \/ PollFails \/ Emit \/ Restart \/ UNCHANGED vars
  PROVE  BInv'
  <1> USE DEF BInv, Values
  <1>1. CASE SetUp
    BY <1>1 DEF SetUp, serverVars, history, Met, Counted, Whole, Waiting, Current, Idle
  <1>2. CASE PollFails
    BY <1>2 DEF PollFails, serverVars, history, Met, Counted, Whole, Waiting, Seen, Current,
                SameWait
  <1>3. CASE Emit
    BY <1>3 DEF Emit, serverVars, history, Met, Counted, Whole, Waiting, Seen, Current, SameWait
  <1>4. CASE Restart
    BY <1>4 DEF Restart, NewBox, serverVars, Met, Counted, Whole, Waiting, Current, Idle
  <1>5. CASE UNCHANGED vars
    BY <1>5 DEF vars, serverVars, boxVars, history, Met, Counted, Whole, Waiting, Seen, Current,
                SameWait
  <1> QED BY <1>1, <1>2, <1>3, <1>4, <1>5

(* A poll that gets its rows adds of every wait what it has not seen yet:  *)
(* after it, all of the wait that the Box may count is counted.            *)
LEMMA PollStep == ASSUME BInv, PollSucceeds PROVE BInv'
  <1> DEFINE added == [s \in Sessions |-> IF Resets THEN 0 ELSE Added(s)]
  <1> USE DEF BInv, Values
  <1>1. /\ UNCHANGED <<id, req, whole>> /\ pc = "polling" /\ pc' = "polling"
        /\ first' = FALSE /\ identity' = RowsIdentity /\ requests' = Active
        /\ paid' = [s \in Sessions |-> paid[s] + added[s]]
        /\ Meet
    BY DEF PollSucceeds, serverVars
  <1>2. RowsIdentity \in {id, NONE} BY DEF RowsIdentity
  <1>3. Active \in [Sessions -> Request \cup {NONE}] BY DEF Active, Rows
  <1>4. ASSUME NEW s \in Sessions PROVE added[s] \in Nat
    <2>1. CASE Resets BY <2>1
    <2>2. CASE ~Resets BY <1>4, <2>2 DEF Added, Rows, Waiting, Amount, SameWait, Request
    <2> QED BY <2>1, <2>2
  <1>5. base' \in [Sessions -> Nat] BY <1>1 DEF Meet, Waiting, Request
  <1>6. paid' \in [Sessions -> Nat] BY <1>1, <1>4
  <1>7. Values' BY <1>1, <1>3, <1>5, <1>6 DEF Values
  <1>8. ASSUME NEW s \in Sessions, Waiting(s)
        PROVE  /\ s \in Rows /\ RowsIdentity = id /\ Active[s] = req[s] /\ req[s] \in Request
    BY <1>8 DEF Waiting, Rows, RowsIdentity, Active
  <1>9. ASSUME NEW s \in Sessions, ~Waiting(s) PROVE added[s] = 0
    BY <1>9 DEF Added
  <1> HIDE DEF added
  <1>10. Met'
    <2>1. CASE RowsIdentity = NONE
      <3>1. UNCHANGED <<met, base>> BY <1>1, <2>1 DEF Meet
      <3>2. \A s \in Sessions : added[s] = 0 BY <1>2, <1>8, <1>9, <2>1
      <3> QED BY <1>1, <2>1, <3>1, <3>2 DEF Met
    <2>2. CASE RowsIdentity # NONE
      <3>1. met' = id BY <1>1, <1>2, <2>2 DEF Meet
      <3> QED BY <1>1, <1>2, <2>2, <3>1 DEF Met
    <2> QED BY <2>1, <2>2
  <1>11. ASSUME NEW s \in Sessions, Waiting(s)
         PROVE  /\ base'[s] + paid'[s] <= req[s].ms
                /\ s \in whole => paid'[s] = req[s].ms
    <2> USE <1>11
    <2>1. RowsIdentity = id /\ s \in Rows /\ req[s].ms \in Nat /\ req[s] # NONE
      BY <1>8 DEF Request
    <2>2. paid'[s] = paid[s] + added[s] /\ added[s] \in Nat BY <1>1, <1>4
    <2>3. CASE Resets
      <3>1. ~Current /\ added[s] = 0 BY <2>1, <2>3 DEF Resets, Current, added
      <3>2. CASE met = id
        <4>1. base' = base BY <1>1, <2>1, <3>2 DEF Meet
        <4> QED BY <2>2, <3>1, <4>1 DEF Counted, Whole
      <3>3. CASE met # id
        <4>1. base'[s] = req[s].ms BY <1>1, <2>1, <3>3 DEF Meet
        <4>2. paid[s] = 0 BY <3>3 DEF Met
        <4> QED BY <2>1, <2>2, <3>1, <4>1, <4>2 DEF Whole
      <3> QED BY <3>2, <3>3
    <2>4. CASE ~Resets
      <3>1. Current BY <1>1, <2>1, <2>4 DEF Resets, Current
      <3>2. met = id BY <2>1, <3>1 DEF Met, Current
      <3>3. base' = base BY <1>1, <2>1, <3>2 DEF Meet
      <3>4. added[s] = Amount(requests[s], req[s]) BY <2>1, <2>4 DEF added, Added
      <3>5. Seen(s) + added[s] = req[s].ms
        <4>1. requests[s] \in Request \cup {NONE} OBVIOUS
        <4>2. SameWait(requests[s], req[s]) => requests[s].ms \in Nat
          BY <4>1 DEF SameWait, Request
        <4> QED BY <2>1, <3>4, <4>2 DEF Seen, Amount
      <3>6. base[s] + paid[s] <= Seen(s) BY <3>1 DEF Counted
      <3>7. s \in whole => paid[s] = Seen(s) BY DEF Whole
      <3>8. base[s] \in Nat /\ paid[s] \in Nat /\ Seen(s) \in Nat
        BY <2>1 DEF Seen, SameWait, Request
      <3> QED BY <2>1, <2>2, <3>3, <3>5, <3>6, <3>7, <3>8
    <2> QED BY <2>3, <2>4
  <1>12. ASSUME NEW s \in Sessions PROVE Counted(s)' /\ Whole(s)'
    <2>1. Waiting(s)' <=> Waiting(s) BY <1>1 DEF Waiting
    <2>2. CASE ~Waiting(s) BY <2>1, <2>2 DEF Counted, Whole
    <2>3. CASE Waiting(s)
      <3>1. RowsIdentity = id /\ Active[s] = req[s] /\ req[s] \in Request BY <1>8, <2>3
      <3>2. Current' BY <1>1, <3>1 DEF Current
      <3>3. SameWait(requests[s], req[s])' /\ Seen(s)' = req[s].ms
        BY <1>1, <3>1 DEF Seen, SameWait, Request
      <3>4. base'[s] + paid'[s] <= req[s].ms /\ (s \in whole => paid'[s] = req[s].ms)
        BY <1>11, <2>3
      <3>5. req' = req /\ whole' = whole /\ requests'[s] = req[s] BY <1>1, <3>1
      <3> QED BY <3>1, <3>2, <3>3, <3>4, <3>5 DEF Counted, Whole, Request
    <2> QED BY <2>2, <2>3
  <1> QED BY <1>7, <1>10, <1>12

(* BInv holds of every state.                                              *)
LEMMA Invariance == Spec => []BInv
  <1>1. BInv /\ [Next]_vars => BInv'
    BY ServerStep, IdleStep, PollStep DEF Next, Poll
  <1> QED BY Initially, <1>1, PTL DEF Spec

(* However polls fail, the instance changes and IsItSQL restarts, a Box    *)
(* adds a millisecond of a wait at most once (pollwaits, "replace existing *)
(* sessions").                                                             *)
THEOREM NeverTwiceCorrect == Spec => []NeverTwice
  <1>1. BInv => NeverTwice BY DEF BInv, Counted, NeverTwice
  <1> QED BY Invariance, <1>1, PTL

(* A wait that began after the Box had polled its instance is added up to  *)
(* what the last poll saw of it (pollwaits).                               *)
THEOREM WholeCorrect == Spec => []WholeWaitsCounted
  <1>1. ASSUME BInv PROVE WholeWaitsCounted
    <2> SUFFICES ASSUME NEW s \in whole, Waiting(s), SameWait(requests[s], req[s])
                 PROVE  paid[s] = requests[s].ms
      BY DEF WholeWaitsCounted
    <2> QED BY <1>1 DEF BInv, Values, Whole, Seen
  <1> QED BY Invariance, <1>1, PTL

-----------------------------------------------------------------------------
(* What a poll adds is a sum over the requests that wait.                  *)

(* Numbers that have 0, and with each one its successor, are all numbers.  *)
LEMMA Induct ==
  ASSUME NEW B, 0 \in B, \A n \in Nat : n \in B => n + 1 \in B
  PROVE  Nat \subseteq B
  <1> DEFINE R == OpToRel(<, Nat)
             M == Nat \ B
  <1> SUFFICES ASSUME M # {} PROVE FALSE OBVIOUS
  <1>1. IsWellFoundedOn(R, Nat) BY NatLessThanWellFounded
  <1>2. \A m, n \in Nat : n < m => <<n, m>> \in R BY DEF OpToRel
  <1> HIDE DEF R
  <1>3. PICK m \in M : \A n \in M : ~ (<<n, m>> \in R) BY <1>1, WFMin
  <1>4. m # 0 /\ m - 1 \in Nat /\ m - 1 < m /\ (m - 1) + 1 = m OBVIOUS
  <1>5. m - 1 \notin B BY <1>4
  <1> QED BY <1>2, <1>3, <1>4, <1>5

Sum(f, S) == MapThenSumSet(LAMBDA s : f[s], S)

(* The sum is what a recursive function gives for S: on sets of up to n    *)
(* elements there is one, whatever n is, and all it gives are numbers.     *)
LEMMA SumIsNat ==
  ASSUME NEW U, NEW f \in [U -> Nat], NEW S \in SUBSET U, IsFiniteSet(S)
  PROVE  Sum(f, S) \in Nat
  <1> DEFINE c(T)    == CHOOSE x \in T : TRUE
             Of(T, g) == IF T = {} THEN 0 ELSE f[c(T)] + g[T \ {c(T)}]
             P(g)    == g = [T \in SUBSET S |-> IF T = {} THEN 0 ELSE f[c(T)] + g[T \ {c(T)}]]
             Small(n) == {T \in SUBSET S : Cardinality(T) <= n}
             B == {n \in Nat : \E g \in [Small(n) -> Nat] : \A T \in Small(n) : g[T] = Of(T, g)}
             h == CHOOSE g : P(g)
  <1>1. ASSUME NEW T \in SUBSET S
        PROVE  /\ Cardinality(T) \in Nat /\ Cardinality(T) <= Cardinality(S)
               /\ T # {} => /\ c(T) \in T /\ f[c(T)] \in Nat
                            /\ Cardinality(T \ {c(T)}) = Cardinality(T) - 1
               /\ Cardinality(T) = 0 => T = {}
    <2>1. IsFiniteSet(T) BY FS_Subset
    <2>2. Cardinality(T) \in Nat /\ Cardinality(T) <= Cardinality(S)
      BY <2>1, FS_Subset, FS_CardinalityType
    <2>3. ASSUME T # {}
          PROVE  c(T) \in T /\ f[c(T)] \in Nat /\ Cardinality(T \ {c(T)}) = Cardinality(T) - 1
      <3>1. c(T) \in T BY <2>3
      <3> HIDE DEF c
      <3> QED BY <2>1, <3>1, FS_RemoveElement
    <2>4. Cardinality(T) = 0 => T = {} BY <2>1, FS_EmptySet
    <2> QED BY <2>2, <2>3, <2>4
  <1> HIDE DEF c
  <1>1a. ASSUME NEW T \in Small(0) PROVE T = {}
    <2>1. T \in SUBSET S /\ Cardinality(T) <= 0 OBVIOUS
    <2>2. Cardinality(T) \in Nat BY <1>1, <2>1
    <2>3. Cardinality(T) = 0 BY <2>1, <2>2
    <2> HIDE DEF Small
    <2> QED BY <1>1, <2>1, <2>3
  <1>2. 0 \in B
    <2> DEFINE g == [T \in Small(0) |-> 0]
    <2>2. g \in [Small(0) -> Nat] /\ \A T \in Small(0) : g[T] = Of(T, g)
      <3> HIDE DEF Small
      <3> QED BY <1>1a
    <2> HIDE DEF g, Small, Of
    <2> QED BY <2>2
  <1>3. ASSUME NEW n \in Nat, n \in B PROVE n + 1 \in B
    <2>1. PICK g \in [Small(n) -> Nat] : \A T \in Small(n) : g[T] = Of(T, g) BY <1>3
    <2> DEFINE k == [T \in Small(n + 1) |-> IF T \in Small(n) THEN g[T] ELSE Of(T, g)]
    <2>2. ASSUME NEW T \in Small(n + 1), T # {}
          PROVE  T \ {c(T)} \in Small(n) /\ T \ {c(T)} \in Small(n + 1)
      BY <1>1, <2>2
    <2>3. ASSUME NEW T \in Small(n + 1) PROVE Of(T, g) \in Nat
      <3>1. T \in SUBSET S OBVIOUS
      <3> HIDE DEF Small
      <3>2. CASE T = {} BY <3>2
      <3>3. CASE T # {}
        <4>1. g[T \ {c(T)}] \in Nat BY <2>2, <3>3
        <4>2. f[c(T)] \in Nat BY <1>1, <3>1, <3>3
        <4> QED BY <3>3, <4>1, <4>2
      <3> QED BY <3>2, <3>3
    <2>4. k \in [Small(n + 1) -> Nat]
      <3> HIDE DEF Small, Of
      <3> QED BY <2>3
    <2>5. ASSUME NEW T \in Small(n + 1) PROVE k[T] = Of(T, k)
      <3>1. k[T] = Of(T, g)
        <4> HIDE DEF Small, Of
        <4> QED BY <2>1
      <3>2. CASE T = {} BY <3>1, <3>2
      <3>3. CASE T # {}
        <4>1. k[T \ {c(T)}] = g[T \ {c(T)}]
          <5> HIDE DEF Small
          <5> QED BY <2>2, <3>3
        <4> HIDE DEF k, Small
        <4> QED BY <3>1, <3>3, <4>1
      <3> QED BY <3>2, <3>3
    <2> HIDE DEF k, Small, Of
    <2> QED BY <2>4, <2>5
  <1>4. Nat \subseteq B
    <2> HIDE DEF B
    <2> QED BY <1>2, <1>3, Induct
  <1>5. Cardinality(S) \in Nat /\ Small(Cardinality(S)) = SUBSET S BY <1>1
  <1>6. PICK g \in [SUBSET S -> Nat] : \A T \in SUBSET S : g[T] = Of(T, g)
    <2> HIDE DEF Small, Of
    <2> QED BY <1>4, <1>5
  <1>7. P(g) BY <1>6
  <1>8. P(h)
    <2> HIDE DEF P
    <2> QED BY <1>7
  <1> HIDE DEF h
  <1> DEFINE A == {n \in Nat : \A T \in Small(n) : h[T] \in Nat}
  <1>9. ASSUME NEW T \in SUBSET S PROVE h[T] = Of(T, h) BY <1>8
  <1>10. 0 \in A
    <2>1. ASSUME NEW T \in Small(0) PROVE h[T] \in Nat
      <3>1. T = {} /\ T \in SUBSET S BY <1>1a
      <3>2. h[T] = 0 BY <1>9, <3>1
      <3> QED BY <3>2
    <2> HIDE DEF Small
    <2> QED BY <2>1
  <1>11. ASSUME NEW n \in Nat, n \in A PROVE n + 1 \in A
    <2> SUFFICES ASSUME NEW T \in Small(n + 1) PROVE h[T] \in Nat OBVIOUS
    <2>1. CASE T = {}
      <3>1. h[T] = 0 BY <1>9, <2>1
      <3> QED BY <3>1
    <2>2. CASE T # {}
      <3>1. T \ {c(T)} \in Small(n) BY <1>1, <2>2
      <3>2. h[T] = f[c(T)] + h[T \ {c(T)}] BY <1>9, <2>2
      <3>3. h[T \ {c(T)}] \in Nat BY <1>11, <3>1
      <3>4. f[c(T)] \in Nat BY <1>1, <2>2
      <3> QED BY <3>2, <3>3, <3>4
    <2> QED BY <2>1, <2>2
  <1>12. Nat \subseteq A
    <2> HIDE DEF A
    <2> QED BY <1>10, <1>11, Induct
  <1>13. h[S] \in Nat
    <2> HIDE DEF Small
    <2> QED BY <1>5, <1>12
  <1>14. Sum(f, S) = h[S]
    BY Zenon DEF Sum, MapThenSumSet, MapThenFoldSet, h, c
  <1> QED BY <1>13, <1>14

(* A poll adds milliseconds to Waits, of sessions of which there are       *)
(* finitely many.                                                          *)
LEMMA WaitsStep ==
  ASSUME BInv, PollSucceeds, Waits \in [Kept -> Nat]
  PROVE  Waits' \in [Kept -> Nat]
  <1> DEFINE added == [s \in Sessions |-> IF Resets THEN 0 ELSE Added(s)]
             Of(w) == {s \in Rows : req[s].wait = w}
  <1> USE DEF BInv, Values
  <1>1. Waits' = [w \in Kept |-> Waits[w] + Sum(added, Of(w))]
    BY Zenon DEF PollSucceeds, Sum
  <1>2. added \in [Sessions -> Nat]
    <2> SUFFICES ASSUME NEW s \in Sessions PROVE added[s] \in Nat OBVIOUS
    <2>1. CASE Resets BY <2>1
    <2>2. CASE ~Resets BY <2>2 DEF Added, Rows, Waiting, Amount, SameWait, Request
    <2> QED BY <2>1, <2>2
  <1> HIDE DEF added
  <1>3. ASSUME NEW w \in Kept
        PROVE  Waits[w] + Sum(added, Of(w)) \in Nat
    <2>1. Of(w) \in SUBSET Sessions BY DEF Rows
    <2>2. IsFiniteSet(Of(w)) BY <2>1, FS_Subset
    <2> HIDE DEF Of
    <2>3. Sum(added, Of(w)) \in Nat BY <1>2, <2>1, <2>2, SumIsNat
    <2> QED BY <2>3
  <1> QED BY <1>1, <1>3

LEMMA TypeStep ==
  ASSUME BInv, BInv', TypeOK, [Next]_vars
  PROVE  TypeOK'
  <1> DEFINE R == /\ {up, busy, statement, err} \subseteq BOOLEAN
                  /\ pc \in {"setup", "polling", "exited"}
                  /\ identity \in Instances \cup {NONE} /\ met \in Instances \cup {NONE}
                  /\ Waits \in [Kept -> Nat]
  <1>1. R /\ id \in Instances BY DEF TypeOK
  <1>2. CASE Server \/ UNCHANGED vars
    <2>1. UNCHANGED <<identity, met, statement, err, pc, Waits>>
      BY <1>2 DEF Server, BeginRequest, NextWait, Begins, Elapse, EndRequest, Others, Switch,
                  Outage, vars, serverVars, boxVars, history
    <2>2. up' \in BOOLEAN /\ busy' \in BOOLEAN
      BY <1>1, <1>2 DEF Server, BeginRequest, NextWait, Begins, Elapse, EndRequest, Others,
                        Switch, Outage, vars, serverVars
    <2> QED BY <1>1, <2>1, <2>2 DEF TypeOK, BInv, Values
  <1>3. CASE SetUp \/ Emit \/ Restart \/ PollFails
    <2>1. NoWaits \in [Kept -> Nat] BY DEF NoWaits
    <2>2. R'
      BY <1>1, <1>3, <2>1 DEF SetUp, Emit, Restart, PollFails, NewBox, serverVars, history
    <2> QED BY <2>2 DEF TypeOK, BInv, Values
  <1>4. CASE PollSucceeds
    <2>1. Waits' \in [Kept -> Nat] BY <1>1, <1>4, WaitsStep
    <2>2. RowsIdentity \in Instances \cup {NONE} BY <1>1 DEF RowsIdentity
    <2>3. met' \in Instances \cup {NONE} BY <1>1, <1>4 DEF PollSucceeds, Meet
    <2>4. R' BY <1>1, <1>4, <2>1, <2>2, <2>3 DEF PollSucceeds, serverVars
    <2> QED BY <2>4 DEF TypeOK, BInv, Values
  <1> QED BY <1>2, <1>3, <1>4 DEF Next, Poll

(* Every variable holds a value of its type: whatever sessions wait, a     *)
(* poll adds to Waits a natural number for each type that is counted.      *)
THEOREM TypeCorrect == Spec => []TypeOK
  <1>1. ASSUME Init PROVE TypeOK
    <2>1. {up, busy, first, statement, err} \subseteq BOOLEAN BY <1>1 DEF Init
    <2>2. Waits \in [Kept -> Nat] BY <1>1 DEF Init, NoWaits
    <2> QED BY <1>1, <2>1, <2>2 DEF Init, TypeOK, Idle, Zero
  <1>2. BInv /\ BInv' /\ TypeOK /\ [Next]_vars => TypeOK' BY TypeStep
  <1> QED BY <1>1, <1>2, Invariance, PTL DEF Spec
=============================================================================
