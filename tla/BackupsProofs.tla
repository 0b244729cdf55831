---------------------------- MODULE BackupsProofs ----------------------------
(***************************************************************************)
(* Theorems about backup alerts, for any replicas, kinds of backups and    *)
(* numbers of them.  What a poller reports and what the map holds is never *)
(* newer than what some server has: histories only grow, and a restart     *)
(* forgets.                                                                *)
(***************************************************************************)
EXTENDS Backups, WellFoundedInduction, TLAPS

USE BackupsAssumption DEF BackupsAssumption

Types ==
  /\ history \in [Servers -> [Kinds -> Nat]] /\ overdue \in [Kinds -> Nat]
  /\ backups \in [Kinds -> Nat]
  /\ now \in [Servers -> [Kinds -> Nat]] /\ rows \in [Servers -> [Kinds -> Nat]]
  /\ pc \in [Servers -> {"idle", "backups", "databases"}]
  /\ message \in [Servers -> BOOLEAN] /\ alert \in [Servers -> BOOLEAN]

(* What a poller knows of a kind: its rows are a replica's, and nothing it *)
(* saw as overdue is newer than what is overdue.                           *)
Known(s, k) ==
  /\ history[s][k] <= MaxBackups[k] /\ rows[s][k] <= history[s][k]
  /\ now[s][k] <= overdue[k]

(* Some server has the newest backup that the map holds, and the newest    *)
(* overdue one.                                                            *)
Had(k) ==
  /\ \E s \in Servers : backups[k] <= history[s][k]
  /\ \E s \in Servers : overdue[k] <= history[s][k]

BInv ==
  /\ Types
  /\ \A s \in Servers, k \in Kinds : Known(s, k)
  /\ \A k \in Kinds : Had(k)
-----------------------------------------------------------------------------
(* Numbers that are not empty have a smallest one.                         *)
LEMMA Smallest ==
  ASSUME NEW S \in SUBSET Nat, S # {}
  PROVE  \E m \in S : \A n \in S : m <= n
  <1> DEFINE R == OpToRel(<, Nat)
  <1>1. \A m, n \in Nat : n < m => <<n, m>> \in R BY DEF OpToRel
  <1>2. \E m \in S : \A n \in S : ~ (<<n, m>> \in R)
    <2>1. IsWellFoundedOn(R, Nat) BY NatLessThanWellFounded
    <2> HIDE DEF R
    <2> QED BY <2>1, WFMin
  <1>3. PICK m \in S : \A n \in S : ~ (<<n, m>> \in R)
    <2> HIDE DEF R
    <2> QED BY <1>2
  <1>4. ASSUME NEW n \in S PROVE m <= n
    <2>1. ~ (n < m)
      <3> HIDE DEF R
      <3> QED BY <1>1, <1>3, Zenon
    <2> QED BY <2>1
  <1> QED BY <1>4

(* The newest backup of a kind exists.                                     *)
LEMMA TakenIs ==
  ASSUME BInv, NEW k \in Kinds
  PROVE  /\ Taken(k) \in Numbers(k)
         /\ \E s \in Servers : history[s][k] = Taken(k)
         /\ \A s \in Servers : history[s][k] <= Taken(k)
  <1> DEFINE Left == {m \in Nat : \E s \in Servers : m = MaxBackups[k] - history[s][k]}
  <1>1. \A s \in Servers :
          history[s][k] \in Numbers(k) /\ MaxBackups[k] - history[s][k] \in Left
    <2> TAKE s \in Servers
    <2>1. history[s][k] \in Nat /\ MaxBackups[k] \in Nat /\ history[s][k] <= MaxBackups[k]
      BY DEF BInv, Types, Known
    <2> QED BY <2>1 DEF Numbers
  <1>2. Left # {} /\ Left \in SUBSET Nat
    <2>1. PICK s \in Servers : TRUE OBVIOUS
    <2>2. MaxBackups[k] - history[s][k] \in Left BY <1>1
    <2> QED BY <2>2
  <1>3. PICK m \in Left : \A n \in Left : m <= n
    <2> HIDE DEF Left
    <2> QED BY <1>2, Smallest
  <1>4. PICK s \in Servers : m = MaxBackups[k] - history[s][k] BY <1>3
  <1>5. \A t \in Servers : history[t][k] <= history[s][k]
    BY <1>1, <1>3, <1>4 DEF Numbers
  <1>6. \E n \in Numbers(k) :
          (\E t \in Servers : history[t][k] = n) /\ \A t \in Servers : history[t][k] <= n
    BY <1>1, <1>5
  <1> QED BY <1>6 DEF Taken
-----------------------------------------------------------------------------
(* A step that leaves the servers alone, and the map too.                  *)
LEMMA ReadStep ==
  ASSUME BInv, Types', UNCHANGED <<history, overdue, backups>>,
         \A s \in Servers, k \in Kinds :
           /\ rows'[s][k] = 0 \/ rows'[s][k] <= history[s][k]
           /\ now'[s][k] = 0 \/ now'[s][k] <= overdue[k]
  PROVE  BInv'
  <1> USE DEF BInv
  <1>1. ASSUME NEW s \in Servers, NEW k \in Kinds PROVE Known(s, k)'
    <2>1. Known(s, k) /\ history[s][k] \in Nat /\ overdue[k] \in Nat BY DEF Types
    <2> QED BY <2>1 DEF Known
  <1>2. \A k \in Kinds : Had(k)' BY DEF Had
  <1> QED BY <1>1, <1>2

LEMMA WorldStep ==
  ASSUME BInv, (\E k \in Kinds : GetsOverdue(k) \/ \E s \in Servers : Backup(s, k))
  PROVE  BInv'
  <1> USE DEF BInv
  <1>1. ASSUME NEW k \in Kinds, GetsOverdue(k) PROVE BInv'
    <2> USE <1>1 DEF GetsOverdue
    <2>1. Types' BY DEF Types
    <2>2. overdue[k] < Taken(k) /\ overdue'[k] = overdue[k] + 1
          /\ \A l \in Kinds \ {k} : overdue'[l] = overdue[l]
      BY DEF Types
    <2>3. ASSUME NEW s \in Servers, NEW l \in Kinds PROVE Known(s, l)'
      <3>1. Known(s, l) /\ now[s][l] \in Nat /\ overdue[l] \in Nat BY DEF Types
      <3> QED BY <2>2, <3>1 DEF Known
    <2>4. ASSUME NEW l \in Kinds PROVE Had(l)'
      <3>1. Had(l) /\ overdue[l] \in Nat BY DEF Types
      <3>2. PICK s \in Servers : history[s][k] = Taken(k) BY TakenIs
      <3>3. history[s][k] \in Nat BY DEF Types
      <3> QED BY <2>2, <3>1, <3>2, <3>3 DEF Had
    <2> QED BY <2>1, <2>3, <2>4
  <1>2. ASSUME NEW k \in Kinds, NEW s \in Servers, Backup(s, k) PROVE BInv'
    <2> USE <1>2 DEF Backup
    <2>1. Taken(k) \in Nat /\ Taken(k) + 1 <= MaxBackups[k] /\ history[s][k] <= Taken(k)
      BY TakenIs DEF Numbers
    <2>2. history' \in [Servers -> [Kinds -> Nat]] BY <2>1 DEF Types
    <2>3. Types' BY <2>2 DEF Types
    <2>4. ASSUME NEW t \in Servers, NEW l \in Kinds
          PROVE  /\ history[t][l] \in Nat /\ history'[t][l] \in Nat
                 /\ history[t][l] <= history'[t][l] /\ history'[t][l] <= MaxBackups[l]
      <3>1. history[t][l] \in Nat /\ history'[t][l] \in Nat BY <2>2 DEF Types
      <3>2. history'[t][l] = IF t = s /\ l = k THEN Taken(k) + 1 ELSE history[t][l]
        BY DEF Types
      <3>3. Known(t, l) OBVIOUS
      <3> QED BY <2>1, <3>1, <3>2, <3>3 DEF Known
    <2>5. ASSUME NEW t \in Servers, NEW l \in Kinds PROVE Known(t, l)'
      <3>1. Known(t, l) /\ rows[t][l] \in Nat BY DEF Types
      <3> QED BY <2>4, <3>1 DEF Known
    <2>6. ASSUME NEW l \in Kinds PROVE Had(l)'
      <3>1. Had(l) /\ backups[l] \in Nat /\ overdue[l] \in Nat BY DEF Types
      <3> QED BY <2>4, <3>1 DEF Had
    <2> QED BY <2>3, <2>5, <2>6
  <1> QED BY <1>1, <1>2

(* What a poller knows, in numbers.                                        *)
LEMMA Bounds ==
  ASSUME BInv, NEW s \in Servers, NEW k \in Kinds
  PROVE  /\ rows[s][k] \in Nat /\ history[s][k] \in Nat /\ rows[s][k] <= history[s][k]
         /\ now[s][k] \in Nat /\ overdue[k] \in Nat /\ now[s][k] <= overdue[k]
  BY DEF BInv, Known, Types

LEMMA SetBackupsStep ==
  ASSUME BInv, NEW s \in Servers, NEW got \in SUBSET Kinds, SetBackups(s, got)
  PROVE  BInv'
  <1> USE DEF BInv, SetBackups, PollBackups
  <1> DEFINE reply == [k \in Kinds |-> IF k \in got THEN history[s][k] ELSE 0]
  <1>1. reply \in [Kinds -> Nat] BY Bounds
  <1>2. rows' = [rows EXCEPT ![s] = reply] OBVIOUS
  <1>3. Types'
    <2> HIDE DEF reply
    <2> QED BY <1>1, <1>2 DEF world, Types
  <1>4. UNCHANGED <<history, overdue, backups, now>> BY DEF world
  <1>5. ASSUME NEW t \in Servers, NEW k \in Kinds
        PROVE  rows'[t][k] = 0 \/ rows'[t][k] <= history[t][k]
    <2>1. CASE t = s
      <3>1. rows'[t][k] = reply[k]
        <4> HIDE DEF reply
        <4> QED BY <1>2, <2>1 DEF Types
      <3> QED BY <2>1, <3>1, Bounds
    <2>2. CASE t # s
      <3> HIDE DEF reply
      <3> QED BY <1>2, <2>2, Bounds DEF Types
    <2> QED BY <2>1, <2>2
  <1> QED BY <1>3, <1>4, <1>5, Bounds, ReadStep

LEMMA PollStep == ASSUME BInv, NEW s \in Servers, Poll(s) PROVE BInv'
  <1> USE DEF BInv
  <1>1. CASE GetServerInfo(s)
    <2>1. Types' BY <1>1 DEF GetServerInfo, world, Types
    <2>2. UNCHANGED <<history, overdue, backups, rows>> BY <1>1 DEF GetServerInfo, world
    <2>3. \A t \in Servers : now'[t] = IF t = s THEN overdue ELSE now[t]
      BY <1>1 DEF GetServerInfo, Types
    <2> QED BY Bounds, <2>1, <2>2, <2>3, ReadStep
  <1>2. CASE NotDue(s)
    <2>1. Types' BY <1>2 DEF NotDue, world, Types
    <2>2. UNCHANGED <<history, overdue, backups, rows, now>> BY <1>2 DEF NotDue, world
    <2> QED BY Bounds, <2>1, <2>2, ReadStep
  <1>3. CASE SetBackups(s, Kinds) BY <1>3, SetBackupsStep
  <1>4. ASSUME NEW k \in Kinds, Set(s, k) PROVE BInv'
    <2> USE <1>4 DEF Set
    <2>1. Types' BY DEF Types, world
    <2>2. UNCHANGED <<history, overdue, now>> BY DEF world
    <2>3. \A t \in Servers, l \in Kinds : rows'[t][l] = 0 \/ rows'[t][l] = rows[t][l]
      BY DEF Types
    <2>4. \A l \in Kinds : backups'[l] = backups[l] \/ (l = k /\ backups'[l] = rows[s][k])
      BY DEF Types
    <2>5. ASSUME NEW t \in Servers, NEW l \in Kinds PROVE Known(t, l)'
      BY Bounds, <2>2, <2>3 DEF Known
    <2>6. ASSUME NEW l \in Kinds PROVE Had(l)'
      BY Bounds, <2>2, <2>4 DEF Had
    <2> QED BY <2>1, <2>5, <2>6
  <1>5. CASE GetDatabases(s)
    <2>1. Types'
      <3>1. BackupAlert(s) \in BOOLEAN BY DEF BackupAlert
      <3> QED BY <1>5, <3>1 DEF GetDatabases, None, world, Types
    <2>2. UNCHANGED <<history, overdue, backups, rows>> BY <1>5 DEF GetDatabases, world
    <2>3. \A t \in Servers, k \in Kinds : now'[t][k] = 0 \/ now'[t][k] = now[t][k]
      BY <1>5 DEF GetDatabases, None, Types
    <2> QED BY Bounds, <2>1, <2>2, <2>3, ReadStep
  <1> QED BY <1>1, <1>2, <1>3, <1>4, <1>5 DEF Poll
LEMMA FaultStep == ASSUME BInv, Fault PROVE BInv'
  <1> USE DEF BInv
  <1>1. CASE Restart
    <2> USE <1>1 DEF Restart, None, world
    <2>1. Types' BY DEF Types
    <2>2. ASSUME NEW s \in Servers, NEW k \in Kinds PROVE Known(s, k)'
      BY Bounds DEF Known
    <2>3. ASSUME NEW k \in Kinds PROVE Had(k)'
      <3>1. Had(k) OBVIOUS
      <3>2. PICK s \in Servers : TRUE OBVIOUS
      <3>3. 0 <= history[s][k] BY Bounds
      <3>4. UNCHANGED <<history, overdue>> /\ backups'[k] = 0 OBVIOUS
      <3> QED BY <3>1, <3>3, <3>4 DEF Had
    <2> QED BY <2>1, <2>2, <2>3
  <1>2. ASSUME NEW s \in Servers, PollBackupsFails(s) \/ TooManyRows(s) PROVE BInv'
    <2>1. UNCHANGED <<history, overdue, backups, now, rows>>
      BY <1>2 DEF PollBackupsFails, TooManyRows, PollBackups, world
    <2>2. Types' BY <1>2 DEF PollBackupsFails, TooManyRows, PollBackups, world, Types
    <2> QED BY <2>1, <2>2, Bounds, ReadStep
  <1>3. ASSUME NEW s \in Servers, GetDatabasesFails(s) PROVE BInv'
    <2>1. Types' BY <1>3 DEF GetDatabasesFails, None, world, Types
    <2>2. UNCHANGED <<history, overdue, backups, rows>> BY <1>3 DEF GetDatabasesFails, world
    <2>3. \A t \in Servers, k \in Kinds : now'[t][k] = 0 \/ now'[t][k] = now[t][k]
      BY <1>3 DEF GetDatabasesFails, None, Types
    <2> QED BY Bounds, <2>1, <2>2, <2>3, ReadStep
  <1>4. ASSUME NEW s \in Servers, NEW got \in SUBSET Kinds, SetBackups(s, got) PROVE BInv'
    BY <1>4, SetBackupsStep
  <1> QED BY <1>1, <1>2, <1>3, <1>4 DEF Fault

LEMMA Invariance == Spec => []BInv
  <1>1. ASSUME Init PROVE BInv
    <2>1. Types /\ \A s \in Servers, k \in Kinds : Known(s, k)
      BY <1>1 DEF Init, None, Types, Known
    <2>2. \A k \in Kinds : Had(k) BY <1>1 DEF Init, None, Had
    <2> QED BY <2>1, <2>2 DEF BInv
  <1>2. ASSUME BInv, [Next]_vars PROVE BInv'
    <2>1. CASE UNCHANGED vars BY <1>2, <2>1 DEF vars, world, BInv, Types, Known, Had
    <2>2. CASE Next BY <1>2, <2>2, PollStep, WorldStep, FaultStep DEF Next
    <2> QED BY <1>2, <2>1, <2>2
  <1> QED BY <1>1, <1>2, PTL DEF Spec
-----------------------------------------------------------------------------
(* Every variable of Backups keeps its type, and the map never holds a     *)
(* backup that was not taken (SetFull, SetLog).                            *)
THEOREM TypeCorrect == Spec => []TypeOK
  <1>1. ASSUME BInv PROVE TypeOK
    <2>1. ASSUME NEW k \in Kinds
          PROVE  /\ overdue[k] \in Numbers(k) /\ backups[k] \in 0..Taken(k)
                 /\ \A s \in Servers : {history[s][k], now[s][k], rows[s][k]} \subseteq Numbers(k)
      <3>1. Taken(k) \in Nat /\ Taken(k) <= MaxBackups[k] /\ MaxBackups[k] \in Nat
        BY <1>1, TakenIs DEF Numbers
      <3>2. \A s \in Servers : history[s][k] \in Nat /\ history[s][k] <= Taken(k)
        BY <1>1, TakenIs, Bounds
      <3>3. /\ overdue[k] \in Nat /\ backups[k] \in Nat
            /\ overdue[k] <= Taken(k) /\ backups[k] <= Taken(k)
        BY <1>1, <3>1, <3>2 DEF BInv, Types, Had
      <3> QED BY <1>1, <3>1, <3>2, <3>3, Bounds DEF Numbers
    <2> QED BY <1>1, <2>1 DEF TypeOK, BInv, Types
  <1> QED BY <1>1, Invariance, PTL

(* getDatabases withdraws an alert only if some server took a backup of    *)
(* every kind that is not overdue, whatever was lost before.               *)
THEOREM AllClearCorrect == Spec => OnlyTrueAllClear
  <1> DEFINE Clear(s) == \A k \in Kinds : \E t \in Servers : history[t][k] > now[s][k]
  <1>1. ASSUME BInv, NEW s \in Servers, GetDatabases(s), ~alert'[s] PROVE Clear(s)
    <2>1. ~BackupAlert(s) BY <1>1 DEF GetDatabases, BInv, Types
    <2>2. ASSUME NEW k \in Kinds PROVE \E t \in Servers : history[t][k] > now[s][k]
      <3>1. ~(backups[k] <= now[s][k]) BY <2>1 DEF BackupAlert
      <3>2. PICK t \in Servers : backups[k] <= history[t][k] BY <1>1 DEF BInv, Had
      <3>3. backups[k] \in Nat /\ history[t][k] \in Nat /\ now[s][k] \in Nat
        BY <1>1 DEF BInv, Types
      <3> QED BY <3>1, <3>2, <3>3
    <2> QED BY <2>2
  <1>2. BInv => [\A s \in Servers : GetDatabases(s) /\ ~alert'[s] => Clear(s)]_vars
    BY <1>1
  <1> QED BY <1>2, Invariance, PTL DEF OnlyTrueAllClear
=============================================================================
