-------------------------------- MODULE Groups --------------------------------
(***************************************************************************)
(* The map of availability groups (internal/hadr), which the pollers of    *)
(* all servers share and the pages read: a poller asks its server for the  *)
(* groups it is the primary of and sets each of them in the map, then asks *)
(* for the latencies of their replicas and sets those.  The time between   *)
(* the queries and the settings is open, a group fails over in between,    *)
(* and polls fail.                                                         *)
(*                                                                         *)
(* Times are ages in minutes: what is older than Expire is all the same.   *)
(* Names, states and replicas of a group are left out.                     *)
(***************************************************************************)
EXTENDS Naturals

CONSTANTS
  AGs, Servers,
  Healthy,  (* a group polled longer ago is shown as unhealthy             *)
  Expire,   (* a group polled longer ago is removed                        *)
  Quiet,    (* bound                                                       *)
  NONE

Ages == 0..(Expire + 1)
Group == [source : Servers, age : Ages, latencies : Servers \cup {NONE}]

ASSUME GroupsAssumption ==
  /\ Healthy \in Nat /\ Expire \in Nat /\ Quiet \in Nat
  /\ NONE \notin Servers \cup Group

VARIABLES
  primary,  (* SQL Server: the polled server that is a group's primary     *)
  quiet,    (* minutes since a group failed over, or a poll failed or was  *)
            (* slow, up to Quiet                                           *)
  groups,   (* the map; latencies is the server they are from              *)
  pc,       (* of a poller: what it is setting                             *)
  left,     (* the groups of its result that are not set yet               *)
  age,      (* of its result                                               *)
  late      (* a minute began since its poll did                           *)

pollVars == <<pc, left, age, late>>
vars == <<primary, quiet, groups, pollVars>>

Init ==
  /\ primary \in [AGs -> Servers \cup {NONE}]
  /\ quiet = 0
  /\ groups = [g \in AGs |-> NONE]
  /\ pc = [s \in Servers |-> "latencies"] /\ left = [s \in Servers |-> {}]
  /\ age = [s \in Servers |-> 0] /\ late = [s \in Servers |-> FALSE]

PrimaryOf(s) == {g \in AGs : primary[g] = s}
-----------------------------------------------------------------------------
(* A group fails over, is dropped, or is created; NONE is also a primary   *)
(* that IsItSQL does not poll.                                             *)
Failover(g, s) ==
  /\ s # primary[g]
  /\ primary' = [primary EXCEPT ![g] = s] /\ quiet' = 0
  /\ UNCHANGED <<groups, pollVars>>

Older(a) == IF a > Expire THEN a ELSE a + 1

(* A minute begins; a poll that meets two, with the pause after it, is     *)
(* slow.                                                                   *)
Tick ==
  /\ groups' = [g \in AGs |->
       IF groups[g] = NONE THEN NONE ELSE [groups[g] EXCEPT !.age = Older(@)]]
  /\ age' = [s \in Servers |-> IF pc[s] = "set" /\ left[s] # {} THEN Older(age[s]) ELSE 0]
  /\ late' = [s \in Servers |-> TRUE]
  /\ quiet' = IF \E s \in Servers : late[s] THEN 0
              ELSE IF quiet = Quiet THEN Quiet ELSE quiet + 1
  /\ UNCHANGED <<primary, pc, left>>
-----------------------------------------------------------------------------
(* pollAG                                                                  *)

Idle(s) == pc[s] = "latencies" /\ left[s] = {}

(* Mutant: groups this server is a secondary of are not ignored.           *)
GetAGListSecondaries(s) ==
  /\ Idle(s)
  /\ pc' = [pc EXCEPT ![s] = "set"]
  /\ left' = [left EXCEPT ![s] = AGs] /\ age' = [age EXCEPT ![s] = 0]
  /\ late' = [late EXCEPT ![s] = FALSE]
  /\ UNCHANGED <<primary, quiet, groups>>

(* GetAGList takes the poll time with its first query; groups this server  *)
(* is a secondary of are ignored.                                          *)
GetAGList(s) ==
  /\ Idle(s)
  /\ pc' = [pc EXCEPT ![s] = "set"]
  /\ left' = [left EXCEPT ![s] = PrimaryOf(s)] /\ age' = [age EXCEPT ![s] = 0]
  /\ late' = [late EXCEPT ![s] = FALSE]
  /\ UNCHANGED <<primary, quiet, groups>>

(* A query of GetAGList fails: nothing is set.                             *)
GetAGListFails(s) ==
  /\ Idle(s)
  /\ late' = [late EXCEPT ![s] = FALSE] /\ quiet' = 0
  /\ UNCHANGED <<primary, groups, pc, left, age>>

(* Mutant: old groups are not removed.                                     *)
SetNoExpiry(s, g) ==
  /\ pc[s] = "set" /\ g \in left[s]
  /\ left' = [left EXCEPT ![s] = @ \ {g}]
  /\ groups' = [groups EXCEPT ![g] = [source |-> s, age |-> age[s], latencies |-> NONE]]
  /\ UNCHANGED <<primary, quiet, pc, age, late>>

(* AGMap.Set replaces the group, its latencies too, whatever is newer, and *)
(* removes the groups nobody polled for a while.                           *)
Set(s, g) ==
  /\ pc[s] = "set" /\ g \in left[s]
  /\ left' = [left EXCEPT ![s] = @ \ {g}]
  /\ LET set == [groups EXCEPT ![g] = [source |-> s, age |-> age[s], latencies |-> NONE]]
     IN  groups' = [h \in AGs |-> IF set[h] # NONE /\ set[h].age > Expire THEN NONE ELSE set[h]]
  /\ UNCHANGED <<primary, quiet, pc, age, late>>

(* The query of SetLatency; a secondary returns no rows, and a failure     *)
(* ends the poll.                                                          *)
SetLatency(s) ==
  /\ pc[s] = "set" /\ left[s] = {}
  /\ pc' = [pc EXCEPT ![s] = "latencies"]
  /\ \/ left' = [left EXCEPT ![s] = PrimaryOf(s)] /\ UNCHANGED quiet
     \/ quiet' = 0 /\ UNCHANGED left
  /\ age' = [age EXCEPT ![s] = 0]
  /\ UNCHANGED <<primary, groups, late>>

(* Mutant: latencies are added to a group that is not in the map.          *)
SetLatenciesUnknown(s, g) ==
  /\ pc[s] = "latencies" /\ g \in left[s]
  /\ left' = [left EXCEPT ![s] = @ \ {g}]
  /\ groups' = [groups EXCEPT ![g] =
       IF @ = NONE THEN [source |-> NONE, age |-> 0, latencies |-> s]
       ELSE [@ EXCEPT !.latencies = s]]
  /\ UNCHANGED <<primary, quiet, pc, age, late>>

(* Mutant: the latencies of the first group are set for every group.       *)
SetLatenciesFirst(s, g) ==
  /\ pc[s] = "latencies" /\ g \in left[s]
  /\ left' = [left EXCEPT ![s] = {}]
  /\ groups' = [groups EXCEPT ![g] = IF @ = NONE THEN NONE ELSE [@ EXCEPT !.latencies = s]]
  /\ UNCHANGED <<primary, quiet, pc, age, late>>

(* AGMap.SetLatencies: "don't add if we don't have it yet".                *)
SetLatencies(s, g) ==
  /\ pc[s] = "latencies" /\ g \in left[s]
  /\ left' = [left EXCEPT ![s] = @ \ {g}]
  /\ groups' = [groups EXCEPT ![g] = IF @ = NONE THEN NONE ELSE [@ EXCEPT !.latencies = s]]
  /\ UNCHANGED <<primary, quiet, pc, age, late>>

PollAG(s) ==
  \/ GetAGList(s) \/ GetAGListFails(s) \/ SetLatency(s)
  \/ \E g \in AGs : Set(s, g) \/ SetLatencies(s, g)

Next ==
  \/ \E g \in AGs, s \in Servers \cup {NONE} : Failover(g, s)
  \/ Tick
  \/ \E s \in Servers : PollAG(s)

Spec == Init /\ [][Next]_vars
-----------------------------------------------------------------------------
(* Every variable holds a value of its type.                               *)
TypeOK ==
  /\ primary \in [AGs -> Servers \cup {NONE}] /\ quiet \in 0..Quiet
  /\ groups \in [AGs -> Group \cup {NONE}]
  /\ pc \in [Servers -> {"set", "latencies"}]
  /\ left \in [Servers -> SUBSET AGs] /\ age \in [Servers -> Ages]
  /\ late \in [Servers -> BOOLEAN]

(* AG.IsHealthy, of a group that SQL Server reports as healthy.            *)
IsHealthy(g) == groups[g] # NONE /\ groups[g].age < Healthy

(* However results of several servers overtook each other: four minutes    *)
(* after the last failover or failure the pages show every group at its    *)
(* primary, and as healthy.                                                *)
ShownAtPrimary ==
  quiet >= 4 =>
    \A g \in AGs : primary[g] # NONE => IsHealthy(g) /\ groups[g].source = primary[g]

(* A group that no polled server is the primary of goes ("expire AGs that   *)
(* we haven't polled within five minutes"), as long as another group is     *)
(* polled: only AGMap.Set looks for old groups.                            *)
GoneExpire ==
  quiet >= Expire + 4 /\ PrimaryOf(NONE) # AGs =>
    \A g \in PrimaryOf(NONE) : groups[g] = NONE

(* The latencies shown are those of the primary that is shown.  Every Set  *)
(* drops them; without them, that server's poll is on its way to set them. *)
LatenciesOfPrimary ==
  quiet >= 4 =>
    \A s \in Servers : \A g \in PrimaryOf(s) : groups[g].latencies # s =>
      /\ groups[g].latencies = NONE
      /\ (pc[s] = "set") = (g \notin left[s])
=============================================================================
