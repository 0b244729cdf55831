------------------------------ MODULE MCBackups ------------------------------
(* Backups for TLC: two full backups on either replica, and one log backup *)
(* on the first.                                                           *)
EXTENDS Backups

CONSTANTS s1, s2, full, log

MCTaking == [k \in Kinds |-> IF k = full THEN {s1, s2} ELSE {s1}]
MCMaxBackups == [k \in Kinds |-> IF k = full THEN 2 ELSE 1]
=============================================================================
