------------------------------- MODULE Backups -------------------------------
(***************************************************************************)
(* Backup alerts (app/sql_backups.go, app/sql_polling_databases.go,        *)
(* internal/backup) for one database of an availability group.  Each       *)
(* replica knows the backups that were taken there.  Its poller reports    *)
(* them to a map, under the name of the group, every few polls, and at     *)
(* each poll compares what the map holds with CurrentTime, which it read   *)
(* when the poll began.                                                    *)
(*                                                                         *)
(* The backups of a kind are numbered in the order of their starts, and    *)
(* the numbers up to overdue are older than the threshold.  The clocks of  *)
(* the replicas agree.  Databases that need no backup are left out, and    *)
(* so is the list of databases to ignore.                                  *)
(***************************************************************************)
EXTENDS Naturals

CONSTANTS
  Servers,    (* the replicas, all polled                                  *)
  Kinds,      (* of backups the database needs: full, and log unless its   *)
              (* recovery model is SIMPLE                                  *)
  Taking,     (* the servers where a kind of backup is taken               *)
  MaxBackups  (* bound, of a kind                                          *)

ASSUME BackupsAssumption ==
  /\ Servers # {}
  /\ Taking \in [Kinds -> SUBSET Servers] /\ MaxBackups \in [Kinds -> Nat]

VARIABLES
  history,  (* msdb: a server's newest backup of a kind, 0 for none        *)
  overdue,  (* of a kind: the newest that is older than the threshold      *)
  backups,  (* the map: the newest of a kind                               *)
  pc,       (* of a poller                                                 *)
  now,      (* CurrentTime: what was overdue then                          *)
  rows,     (* the rows of its query that it has not recorded              *)
  message,  (* BackupMessage is not empty                                  *)
  alert     (* BackupAlert of the database                                 *)

world == <<history, overdue>>
vars == <<world, backups, pc, now, rows, message, alert>>

Numbers(k) == 0..MaxBackups[k]
None == [k \in Kinds |-> 0]
Taken(k) == CHOOSE n \in Numbers(k) :
  /\ \E s \in Servers : history[s][k] = n
  /\ \A s \in Servers : history[s][k] <= n

Init ==
  /\ history = [s \in Servers |-> None] /\ overdue = None
  /\ backups = None
  /\ pc = [s \in Servers |-> "idle"] /\ now = [s \in Servers |-> None]
  /\ rows = [s \in Servers |-> None]
  /\ message = [s \in Servers |-> TRUE] /\ alert = [s \in Servers |-> FALSE]
-----------------------------------------------------------------------------
Backup(s, k) ==
  /\ s \in Taking[k] /\ Taken(k) < MaxBackups[k]
  /\ history' = [history EXCEPT ![s][k] = Taken(k) + 1]
  /\ UNCHANGED <<overdue, backups, pc, now, rows, message, alert>>

GetsOverdue(k) ==
  /\ overdue[k] < Taken(k)
  /\ overdue' = [overdue EXCEPT ![k] = @ + 1]
  /\ UNCHANGED <<history, backups, pc, now, rows, message, alert>>

(* IsItSQL starts again.  The map is empty; LastBackupPoll and the alert    *)
(* come from a server's cache, if it has one.                              *)
Restart ==
  /\ backups' = None
  /\ pc' = [s \in Servers |-> "idle"] /\ now' = [s \in Servers |-> None]
  /\ rows' = [s \in Servers |-> None]
  /\ message' = [s \in Servers |-> TRUE]
  /\ \E cached \in SUBSET Servers : alert' = [s \in Servers |-> s \in cached /\ alert[s]]
  /\ UNCHANGED world
-----------------------------------------------------------------------------
(* A big poll reads CurrentTime in getServerInfo.                          *)
GetServerInfo(s) ==
  /\ pc[s] = "idle"
  /\ pc' = [pc EXCEPT ![s] = "backups"] /\ now' = [now EXCEPT ![s] = overdue]
  /\ UNCHANGED <<world, backups, rows, message, alert>>

(* LastBackupPoll is less than five minutes ago.                           *)
NotDue(s) ==
  /\ pc[s] = "backups"
  /\ pc' = [pc EXCEPT ![s] = "databases"]
  /\ UNCHANGED <<world, backups, now, rows, message, alert>>

(* pollBackups; whether it fails or not, the next is due in five minutes.   *)
PollBackups(s) ==
  /\ pc[s] = "backups"
  /\ UNCHANGED <<world, backups, now, alert>>

(* setBackupRowCount clears the message, and setBackups gets rows; it does  *)
(* not notice an error that ends them early.                               *)
SetBackups(s, got) ==
  /\ PollBackups(s)
  /\ pc' = [pc EXCEPT ![s] = "databases"]
  /\ message' = [message EXCEPT ![s] = FALSE]
  /\ rows' = [rows EXCEPT ![s] = [k \in Kinds |-> IF k \in got THEN history[s][k] ELSE 0]]

(* The count fails, or the query after it does: the poll ends.             *)
PollBackupsFails(s) ==
  /\ PollBackups(s)
  /\ pc' = [pc EXCEPT ![s] = "idle"]
  /\ \E m \in BOOLEAN : message' = [message EXCEPT ![s] = m]
  /\ UNCHANGED rows

TooManyRows(s) ==
  /\ PollBackups(s)
  /\ pc' = [pc EXCEPT ![s] = "databases"]
  /\ message' = [message EXCEPT ![s] = TRUE]
  /\ UNCHANGED rows

(* Mutant: the backup reported last is kept.                               *)
SetLast(s, k) ==
  /\ rows[s][k] # 0
  /\ backups' = [backups EXCEPT ![k] = rows[s][k]]
  /\ rows' = [rows EXCEPT ![s][k] = 0]
  /\ UNCHANGED <<world, pc, now, message, alert>>

(* Mutant: a backup is recorded under another kind, too.                   *)
SetEvery(s, k) ==
  /\ rows[s][k] # 0
  /\ backups' = [l \in Kinds |-> IF backups[l] < rows[s][k] THEN rows[s][k] ELSE backups[l]]
  /\ rows' = [rows EXCEPT ![s][k] = 0]
  /\ UNCHANGED <<world, pc, now, message, alert>>

(* SetFull and SetLog keep the newest.                                     *)
Set(s, k) ==
  /\ rows[s][k] # 0
  /\ backups' = [backups EXCEPT ![k] = IF @ < rows[s][k] THEN rows[s][k] ELSE @]
  /\ rows' = [rows EXCEPT ![s][k] = 0]
  /\ UNCHANGED <<world, pc, now, message, alert>>

(* Mutant: one kind of backup is enough.                                   *)
BackupAlertAll(s) == \A k \in Kinds : backups[k] <= now[s][k]

(* The alert rule of getDatabases.                                         *)
BackupAlert(s) == \E k \in Kinds : backups[k] <= now[s][k]

GetDatabases(s) ==
  /\ pc[s] = "databases" /\ rows[s] = None
  /\ pc' = [pc EXCEPT ![s] = "idle"]
  /\ alert' = [alert EXCEPT ![s] = BackupAlert(s)]
  /\ now' = [now EXCEPT ![s] = None]
  /\ UNCHANGED <<world, backups, rows, message>>

(* A query before it fails, or its own.                                    *)
GetDatabasesFails(s) ==
  /\ pc[s] = "databases" /\ rows[s] = None
  /\ pc' = [pc EXCEPT ![s] = "idle"] /\ now' = [now EXCEPT ![s] = None]
  /\ UNCHANGED <<world, backups, rows, message, alert>>

Fault ==
  \/ Restart
  \/ \E s \in Servers :
       \/ PollBackupsFails(s) \/ TooManyRows(s) \/ GetDatabasesFails(s)
       \/ \E got \in SUBSET Kinds : got # Kinds /\ SetBackups(s, got)

Poll(s) ==
  \/ GetServerInfo(s) \/ NotDue(s) \/ SetBackups(s, Kinds)
  \/ \E k \in Kinds : Set(s, k)
  \/ GetDatabases(s)

Next ==
  \/ \E s \in Servers : Poll(s)
  \/ \E k \in Kinds : GetsOverdue(k) \/ \E s \in Servers : Backup(s, k)
  \/ Fault

Spec == Init /\ [][Next]_vars

(* Pollers go on, and five minutes pass.                                   *)
Fairness == \A s \in Servers : WF_vars(Poll(s)) /\ SF_vars(SetBackups(s, Kinds))

FairSpec == Spec /\ Fairness
-----------------------------------------------------------------------------
(* Every variable holds a value of its type, and the map holds no backup   *)
(* of a kind that was not taken.                                           *)
TypeOK ==
  /\ \A k \in Kinds :
       /\ overdue[k] \in Numbers(k) /\ backups[k] \in 0..Taken(k)
       /\ \A s \in Servers : {history[s][k], now[s][k], rows[s][k]} \subseteq Numbers(k)
  /\ pc \in [Servers -> {"idle", "backups", "databases"}]
  /\ message \in [Servers -> BOOLEAN] /\ alert \in [Servers -> BOOLEAN]

(* No false all-clear, whatever failed and was lost before: an alert is    *)
(* withdrawn, or a database seen for the first time has none, only if      *)
(* there was a recent backup of every kind on some server.                 *)
OnlyTrueAllClear ==
  [][\A s \in Servers : GetDatabases(s) /\ ~alert'[s] =>
       \A k \in Kinds : \E t \in Servers : history[t][k] > now[s][k]]_vars

(* allBackupsPage: a message hides the alerts of a server.                 *)
Shown(s) == alert[s] /\ ~message[s]

(* Unless polls fail for ever, and whoever reported last, every server's   *)
(* page comes to show an alert exactly if some kind of backup is overdue   *)
(* on all servers: "it will show that a backup was completed for that      *)
(* database even if it was done on another node".                          *)
AnyNodeCounts ==
  \/ []<><<Fault /\ \A s \in Servers : ~Poll(s)>>_vars
  \/ <>[](\A s \in Servers : Shown(s) = (\E k \in Kinds : Taken(k) <= overdue[k]))
=============================================================================
