------------------------------- MODULE WaitBox -------------------------------
(***************************************************************************)
(* internal/dwaits/box.go: once a second a Box asks SQL Server which       *)
(* requests are waiting, and for how long, and adds to Waits what they     *)
(* waited since the second before; once a minute it hands Waits to the     *)
(* repository and starts from zero.                                        *)
(*                                                                         *)
(* A session runs one request at a time.  A request has a start time,      *)
(* which no other request of the session has, and a current wait: its type *)
(* and its milliseconds, which begin at 0 with every wait.  Durations      *)
(* matter for the types in Kept only: the others are excluded by the       *)
(* mapping, or empty because the request runs.  The mapping that merges    *)
(* types is left out.                                                      *)
(*                                                                         *)
(* A poll and an emission hold b.mu from beginning to end: they are single *)
(* steps.  The end of a cancelled Box is in ServerList.                    *)
(***************************************************************************)
EXTENDS Integers, FiniteSets, FiniteSetsExt

CONSTANTS
  Sessions, Starts, Types,
  Kept,      (* types that are counted                                     *)
  Hidden,    (* types the query leaves out (WAITFOR and the like)          *)
  Instances, (* domain, server name and boot time                          *)
  MaxMs,     (* bound: the longest wait                                    *)
  MaxWaits,  (* bound: waits go on while Waits is below it                 *)
  NONE

ASSUME BoxAssumption ==
  /\ IsFiniteSet(Sessions) /\ MaxMs \in Nat /\ MaxWaits \in Nat
  /\ Kept \subseteq Types /\ Hidden \subseteq Types \ Kept
  /\ NONE \notin Instances

Request == [start : Starts, wait : Types, ms : 0..MaxMs]

ASSUME RequestAssumption == NONE \notin Request

VARIABLES
  id,        (* SQL Server: the instance the server's name leads to        *)
  up,        (* queries succeed                                            *)
  req,       (* its sessions: the request each runs                        *)
  busy,      (* it also runs a request whose waits are excluded            *)
  pc,        (* the Box: "setup", "polling", or "exited"                   *)
  first, identity, requests, statement, err, Waits, (* of the Box; identity *)
             (* is its domain, server and booted, NONE after no rows       *)
  met,       (* history: the last instance whose requests a poll saw       *)
  base,      (* history: what a session's wait had lasted at that moment   *)
  paid,      (* history: what was added to Waits of a session's wait       *)
  whole      (* history: the sessions whose wait began after the Box had   *)
             (* polled their instance and is not taken for the one before  *)

serverVars == <<id, up, req, busy>>
boxVars    == <<pc, first, identity, requests, statement, err, Waits>>
history    == <<met, base, paid, whole>>
vars       == <<serverVars, boxVars, history>>

Idle  == [s \in Sessions |-> NONE]
Zero  == [s \in Sessions |-> 0]
NoWaits == [w \in Kept |-> 0]

NewBox ==
  /\ pc' = "setup" /\ first' = TRUE /\ identity' = NONE /\ requests' = Idle
  /\ statement' = FALSE /\ err' = FALSE /\ Waits' = NoWaits

Init ==
  /\ id \in Instances /\ up = TRUE /\ req = Idle /\ busy \in BOOLEAN
  /\ pc = "setup" /\ first = TRUE /\ identity = NONE /\ requests = Idle
  /\ statement = FALSE /\ err = FALSE /\ Waits = NoWaits
  /\ met = NONE /\ base = Zero /\ paid = Zero /\ whole = {}
-----------------------------------------------------------------------------
(* SQL Server                                                              *)

Waiting(s) == req[s] # NONE /\ req[s].wait \in Kept

(* The wait looks like the one the Box has of the session.                 *)
SameWait(r, a) == r # NONE /\ r.start = a.start /\ r.wait = a.wait

Begins(s, a) ==
  /\ req' = [req EXCEPT ![s] = a]
  /\ base' = [base EXCEPT ![s] = 0]
  /\ paid' = [paid EXCEPT ![s] = 0]
  /\ whole' = IF /\ pc = "polling" /\ ~first /\ identity = id
                 /\ ~SameWait(requests[s], a)
              THEN whole \cup {s} ELSE whole \ {s}
  /\ UNCHANGED <<id, up, busy, boxVars, met>>

BeginRequest(s, t, w) ==
  /\ req[s] = NONE
  /\ requests[s] # NONE => requests[s].start # t
  /\ Begins(s, [start |-> t, wait |-> w, ms |-> 0])

NextWait(s, w) ==
  /\ req[s] # NONE
  /\ Begins(s, [start |-> req[s].start, wait |-> w, ms |-> 0])

Elapse(s) ==
  /\ Waiting(s) /\ req[s].ms < MaxMs
  /\ \A w \in Kept : Waits[w] < MaxWaits
  /\ req' = [req EXCEPT ![s].ms = @ + 1]
  /\ UNCHANGED <<id, up, busy, boxVars, history>>

EndRequest(s) ==
  /\ req[s] # NONE
  /\ req' = [req EXCEPT ![s] = NONE]
  /\ whole' = whole \ {s}
  /\ base' = [base EXCEPT ![s] = 0] /\ paid' = [paid EXCEPT ![s] = 0]
  /\ UNCHANGED <<id, up, busy, boxVars, met>>

Others ==
  /\ busy' = ~busy
  /\ UNCHANGED <<id, up, req, boxVars, history>>

(* A restart, or a failover to another instance.                           *)
Switch(x) ==
  /\ x # id
  /\ id' = x /\ req' = Idle
  /\ base' = Zero /\ paid' = Zero /\ whole' = {}
  /\ UNCHANGED <<up, busy, boxVars, met>>

Outage ==
  /\ up' = ~up
  /\ UNCHANGED <<id, req, busy, boxVars, history>>
-----------------------------------------------------------------------------
(* The Box                                                                 *)

(* setup, at once or at a tick of the 10 second ticker, until it succeeds. *)
(* Too low a version ends the Box.                                         *)
SetUp ==
  /\ pc = "setup" /\ up
  /\ \/ pc' = "polling" /\ identity' = id
     \/ pc' = "exited" /\ UNCHANGED identity
  /\ requests' = Idle /\ Waits' = NoWaits
  /\ UNCHANGED <<serverVars, first, statement, err, history>>

(* The rows of requestQuery, and the identity they carry.                  *)
Rows == {s \in Sessions : req[s] # NONE /\ req[s].wait \notin Hidden}
RowsIdentity == IF Rows = {} /\ ~busy THEN NONE ELSE id
Active == [s \in Sessions |-> IF s \in Rows THEN req[s] ELSE NONE]

(* Mutant: another identity is not noticed.                                *)
ResetsFirstOnly == first

(* "if first or different server or restart"                               *)
Resets == first \/ RowsIdentity # identity

(* Mutant: the type of the wait is not compared.                           *)
AmountAnyType(r, a) ==
  IF r # NONE /\ r.start = a.start /\ a.ms >= r.ms THEN a.ms - r.ms ELSE a.ms

(* Mutant: a duration that fell is not taken for a new wait.               *)
AmountFallen(r, a) == IF SameWait(r, a) THEN a.ms - r.ms ELSE a.ms

(* What pollwaits adds for a request, given the one it has of the session. *)
Amount(r, a) == IF SameWait(r, a) /\ a.ms >= r.ms THEN a.ms - r.ms ELSE a.ms

Added(s) == IF s \in Rows /\ Waiting(s) THEN Amount(requests[s], req[s]) ELSE 0

(* History: an instance's requests are seen for the first time.            *)
Meet ==
  IF RowsIdentity \in {NONE, met}
  THEN UNCHANGED <<met, base>>
  ELSE /\ met' = id
       /\ base' = [s \in Sessions |-> IF Waiting(s) THEN req[s].ms ELSE 0]

(* Mutant: a Box that is in error does not poll.                           *)
PollSucceedsKeepingError ==
  /\ pc = "polling" /\ up /\ ~err
  /\ statement' = TRUE /\ err' = FALSE
  /\ first' = FALSE /\ identity' = RowsIdentity /\ requests' = Active
  /\ LET added == [s \in Sessions |-> IF Resets THEN 0 ELSE Added(s)]
     IN  /\ Waits' = [w \in Kept |-> Waits[w] +
                        MapThenSumSet(LAMBDA s : added[s], {s \in Rows : req[s].wait = w})]
         /\ paid' = [s \in Sessions |-> paid[s] + added[s]]
  /\ Meet
  /\ UNCHANGED <<serverVars, pc, whole>>

PollSucceeds ==
  /\ pc = "polling" /\ up
  /\ statement' = TRUE /\ err' = FALSE
  /\ first' = FALSE /\ identity' = RowsIdentity /\ requests' = Active
  /\ LET added == [s \in Sessions |-> IF Resets THEN 0 ELSE Added(s)]
     IN  /\ Waits' = [w \in Kept |-> Waits[w] +
                        MapThenSumSet(LAMBDA s : added[s], {s \in Rows : req[s].wait = w})]
         /\ paid' = [s \in Sessions |-> paid[s] + added[s]]
  /\ Meet
  /\ UNCHANGED <<serverVars, pc, whole>>

(* Prepare fails, or the query, or a row: requests stay as they are.  The  *)
(* statement is dropped by the first of a row of errors only.              *)
PollFails ==
  /\ pc = "polling" /\ ~up
  /\ err' = TRUE
  /\ statement' \in IF err THEN {statement, TRUE} ELSE {FALSE}
  /\ UNCHANGED <<serverVars, pc, first, identity, requests, Waits, history>>

(* The repository takes Waits, also when it is all zero.                   *)
Emit ==
  /\ pc = "polling"
  /\ Waits' = NoWaits
  /\ UNCHANGED <<serverVars, pc, first, identity, requests, statement, err, history>>

(* IsItSQL restarts, or the server is deleted and added again: a new Box.  *)
Restart ==
  /\ NewBox
  /\ whole' = {}
  /\ UNCHANGED <<serverVars, met, base, paid>>
-----------------------------------------------------------------------------
Server ==
  \/ \E s \in Sessions :
       \/ \E t \in Starts, w \in Types : BeginRequest(s, t, w)
       \/ \E w \in Types : NextWait(s, w)
       \/ Elapse(s) \/ EndRequest(s)
  \/ Others
  \/ \E x \in Instances : Switch(x)
  \/ Outage

Poll == PollSucceeds \/ PollFails

Next == Server \/ SetUp \/ Poll \/ Emit \/ Restart

Spec == Init /\ [][Next]_vars

(* The tickers tick, and every query returns.                              *)
FairSpec == Spec /\ WF_vars(SetUp) /\ WF_vars(Poll) /\ WF_vars(Emit)
-----------------------------------------------------------------------------
(* Every variable holds a value of its type.                               *)
TypeOK ==
  /\ id \in Instances /\ {up, busy, first, statement, err} \subseteq BOOLEAN
  /\ req \in [Sessions -> Request \cup {NONE}]
  /\ pc \in {"setup", "polling", "exited"}
  /\ identity \in Instances \cup {NONE} /\ met \in Instances \cup {NONE}
  /\ requests \in [Sessions -> Request \cup {NONE}]
  /\ Waits \in [Kept -> Nat]
  /\ base \in [Sessions -> Nat] /\ paid \in [Sessions -> Nat]
  /\ whole \subseteq Sessions

(* However polls fail, the instance changes and IsItSQL restarts, a        *)
(* millisecond of a wait is added to Waits at most once, and never one     *)
(* from before the Box first saw the instance (pollwaits: "replace         *)
(* existing sessions").                                                    *)
NeverTwice ==
  \A s \in Sessions : Waiting(s) => base[s] + paid[s] <= req[s].ms

(* A wait that began after the Box had polled the instance is added up to  *)
(* the millisecond the last poll saw, if the request did not begin another *)
(* wait of its type between two polls (that one is taken for the old one   *)
(* when it has lasted longer).                                             *)
WholeWaitsCounted ==
  \A s \in whole :
    Waiting(s) /\ SameWait(requests[s], req[s]) => paid[s] = requests[s].ms

(* Once queries succeed again, the error is cleared and polling goes on,   *)
(* also with a statement that was dropped or was prepared during the       *)
(* outage (pollWaitsWrapper).                                              *)
Recovers == <>[](up /\ pc = "polling") => <>[](~err /\ statement)
=============================================================================
