----------------------------- MODULE ServerList -----------------------------
(***************************************************************************)
(* The list of monitored servers (app.ServerList) and the goroutines that  *)
(* share it:                                                               *)
(*   - a watcher (FILE mode) that reapplies the HCL files: PushC2Servers;  *)
(*   - editors (GUI mode), one per settings request in progress: add, edit *)
(*     and delete a server;                                                *)
(*   - batchers, the 15 second ticker that re-sorts the keys and rebuilds  *)
(*     the tags: BatchUpdates;                                             *)
(*   - viewers, one per tag page request in progress;                      *)
(*   - for each server a poller (PollRoutine) and a WaitBox (dwaits.Box).  *)
(*                                                                         *)
(* One action per critical section of the list's RWMutex.  Every other     *)
(* access to shared state is merged with the critical section next to it,  *)
(* except where the order is what can go wrong.                            *)
(*                                                                         *)
(* An SqlServerWrapper is an element of Insts.  Go collects a wrapper that *)
(* nothing refers to, so AddBuild may use it again (see Free).             *)
(*                                                                         *)
(* Abstracted: a server's FQDN, friendly name, tags and backup flags are   *)
(* its name (all of them take part in "dirty"); its credential is its      *)
(* login; a connection string is the pair of both.                         *)
(***************************************************************************)
EXTENDS Naturals, FiniteSets

CONSTANTS
  Keys,        (* map keys of servers                                      *)
  Insts,       (* SqlServerWrapper objects                                 *)
  Names,       (* what a settings entry says besides the login             *)
  Logins,      (* credentials a settings entry may ask for                 *)
  GoodLogins,  (* those for which ConnectionString() returns no error      *)
  Configs,     (* configurations the HCL files may hold                    *)
  Watchers, Editors, Batchers, Viewers,
  NONE

Confs == [name : Names, login : Logins]
Threads == Watchers \cup Editors \cup Batchers \cup Viewers

ASSUME ConstantsAssumption ==
  /\ IsFiniteSet(Keys)
  /\ NONE \notin Insts \cup Keys \cup Names \cup Logins
  /\ GoodLogins \subseteq Logins
  /\ \A c \in Configs : \E S \in SUBSET Keys : c \in [S -> Confs]
  /\ Watchers \cap (Editors \cup Batchers \cup Viewers) = {}
  /\ Editors \cap (Batchers \cup Viewers) = {}
  /\ Batchers \cap Viewers = {}

(* AppConfigMode is FILE, with the one goroutine of watchHCLFiles, or GUI.  *)
ASSUME ModeAssumption ==
  \/ Editors = {} /\ \A s, t \in Watchers : s = t
  \/ Watchers = {}

VARIABLES
  servers,     (* list.Servers: the wrapper registered under a key, or NONE *)
  sortedKeys,  (* list.SortedKeys: its keys, and how many entries are ""    *)
  tags,        (* globalTagList: the pairs <<tag, key>>                     *)
  leaked,      (* a list.RLock() was never released                         *)
  keyOf, name, conn,   (* of a wrapper: MapKey, the displayed settings,     *)
               (* ConnectionString (CredentialKey is set with it)           *)
  poller,      (* of a wrapper: where its PollRoutine is                    *)
  stop,        (* of a wrapper: a value is buffered in its stop channel     *)
  box,         (* of a wrapper: where its WaitBox is                        *)
  pc,          (* of a thread: the critical section it does next            *)
  op,          (* of a thread: the ServerList operation it is in            *)
  arg,         (* of a thread: the operation's key                          *)
  conf,        (* of a thread: the operation's settings                     *)
  inst,        (* of a thread: the operation's wrapper                      *)
  snap,        (* of a thread: keys read from the list a moment ago         *)
  blanks,      (* of a thread: entries of SortKeys's slice left ""          *)
  found,       (* of a thread: tags collected so far                        *)
  config, todo (* of a watcher: the configuration, the keys still to do     *)

listVars  == <<servers, sortedKeys, tags, leaked>>
wrapVars  == <<keyOf, name, conn>>
pollVars  == <<poller, stop>>
frameVars == <<op, arg, conf, inst>>
scanVars  == <<snap, blanks, found>>
pushVars  == <<config, todo>>
vars == <<listVars, wrapVars, pollVars, box, pc, frameVars, scanVars, pushVars>>

Registered == {k \in Keys : servers[k] # NONE}

(* A wrapper nothing refers to any more.                                    *)
Free(i) ==
  /\ \A k \in Keys : servers[k] # i
  /\ \A t \in Threads : inst[t] # i
  /\ poller[i] \in {"none", "gone"}
  /\ box[i] \in {"none", "gone"}

Init ==
  /\ servers = [k \in Keys |-> NONE]
  /\ sortedKeys = [keys |-> {}, blanks |-> 0]
  /\ tags = {}
  /\ leaked = FALSE
  /\ keyOf = [i \in Insts |-> NONE]
  /\ name = [i \in Insts |-> NONE]
  /\ conn = [i \in Insts |-> NONE]
  /\ poller = [i \in Insts |-> "none"]
  /\ stop = [i \in Insts |-> FALSE]
  /\ box = [i \in Insts |-> "none"]
  /\ pc = [t \in Threads |-> "idle"]
  /\ op = [t \in Threads |-> "none"]
  /\ arg = [t \in Threads |-> NONE]
  /\ conf = [t \in Threads |-> NONE]
  /\ inst = [t \in Threads |-> NONE]
  /\ snap = [t \in Threads |-> {}]
  /\ blanks = [t \in Threads |-> 0]
  /\ found = [t \in Threads |-> {}]
  /\ config = [t \in Threads |-> NONE]
  /\ todo = [t \in Threads |-> {}]

-----------------------------------------------------------------------------
(* sync.RWMutex, for a lock whose other critical sections all end: Lock     *)
(* waits for a leaked RLock for ever, and once a goroutine waits in Lock    *)
(* every RLock blocks.                                                      *)
CanLock  == ~leaked
CanRLock == leaked => \A t \in Threads : pc[t] \notin {"remove", "publish", "sortStore"}

Goto(t, label) == pc' = [pc EXCEPT ![t] = label]
At(t, label)   == pc[t] = label

(* Where a thread continues when its ServerList operation returns: in the  *)
(* deletes or the second loop of PushC2Servers, or with nothing to do.     *)
Home(t) ==
  IF t \notin Watchers THEN "idle" ELSE IF op[t] = "delete" THEN "deleting" ELSE "applying"

Return(t) ==
  /\ Goto(t, Home(t))
  /\ op' = [op EXCEPT ![t] = "none"]
  /\ arg' = [arg EXCEPT ![t] = NONE]
  /\ conf' = [conf EXCEPT ![t] = NONE]
  /\ inst' = [inst EXCEPT ![t] = NONE]

(* A panic ends the goroutine of a watcher or a batcher: HandlePanic is    *)
(* deferred outside its loop.  For a request panicHandler recovers it and  *)
(* the next request runs in a new goroutine.                               *)
Panic(t) ==
  /\ Goto(t, IF t \in Editors \cup Viewers THEN "idle" ELSE "dead")
  /\ op' = [op EXCEPT ![t] = "none"]
  /\ arg' = [arg EXCEPT ![t] = NONE]
  /\ conf' = [conf EXCEPT ![t] = NONE]
  /\ inst' = [inst EXCEPT ![t] = NONE]

-----------------------------------------------------------------------------
(* SortKeys: three looks at the list, which may change between them.       *)

SortSnapshot(t) ==
  /\ At(t, "sort") /\ CanRLock
  /\ snap' = [snap EXCEPT ![t] = Registered]
  /\ Goto(t, "sortLen")
  /\ UNCHANGED <<listVars, wrapVars, pollVars, box, frameVars, blanks, found, pushVars>>

(* Mutant: the slice is made for the list's length and never indexed past.  *)
SortLenUnchecked(t) ==
  /\ At(t, "sortLen") /\ CanRLock
  /\ blanks' = [blanks EXCEPT ![t] = Cardinality(Registered) - Cardinality(snap[t])]
  /\ Goto(t, "sortStore")
  /\ UNCHANGED <<listVars, wrapVars, pollVars, box, frameVars, snap, found, pushVars>>

(* make([]string, len(list.Servers)), then one assignment per key of the   *)
(* snapshot: an index out of range when the list has shrunk.               *)
SortLen(t) ==
  LET size == Cardinality(Registered)
      used == Cardinality(snap[t])
  IN /\ At(t, "sortLen") /\ CanRLock
     /\ \/ /\ used <= size
           /\ blanks' = [blanks EXCEPT ![t] = size - used]
           /\ Goto(t, "sortStore")
           /\ UNCHANGED <<frameVars, snap>>
        \/ /\ used > size
           /\ Panic(t)
           /\ snap' = [snap EXCEPT ![t] = {}]
           /\ UNCHANGED blanks
     /\ UNCHANGED <<listVars, wrapVars, pollVars, box, found, pushVars>>

SortStore(t) ==
  /\ At(t, "sortStore") /\ CanLock
  /\ sortedKeys' = [keys |-> snap[t], blanks |-> blanks[t]]
  /\ snap' = [snap EXCEPT ![t] = {}]
  /\ blanks' = [blanks EXCEPT ![t] = 0]
  /\ Goto(t, "tags")
  /\ UNCHANGED <<servers, tags, leaked, wrapVars, pollVars, box, frameVars, found, pushVars>>

(* mapTags: the keys, then the tags of one server at a time, then the new  *)
(* map replaces the old one.                                               *)

TagKeys(t) ==
  /\ At(t, "tags") /\ CanRLock
  /\ snap' = [snap EXCEPT ![t] = Registered]
  /\ Goto(t, "tagScan")
  /\ UNCHANGED <<listVars, wrapVars, pollVars, box, frameVars, blanks, found, pushVars>>

TagScan(t, k) ==
  /\ At(t, "tagScan") /\ CanRLock
  /\ k \in snap[t]
  /\ snap' = [snap EXCEPT ![t] = @ \ {k}]
  /\ found' = [found EXCEPT ![t] =
                 IF servers[k] = NONE THEN @ ELSE @ \cup {<<name[servers[k]], k>>}]
  /\ UNCHANGED <<listVars, wrapVars, pollVars, box, pc, frameVars, blanks, pushVars>>

(* Mutant: the new tags are added to the old map.                           *)
TagStoreMerged(t) ==
  /\ At(t, "tagScan") /\ snap[t] = {}
  /\ tags' = tags \cup found[t]
  /\ found' = [found EXCEPT ![t] = {}]
  /\ \/ op[t] = "add"    /\ Goto(t, "launch")   /\ UNCHANGED frameVars
     \/ op[t] = "delete" /\ Goto(t, "sendStop") /\ UNCHANGED frameVars
     \/ op[t] \in {"update", "batch"} /\ Return(t)
  /\ UNCHANGED <<servers, sortedKeys, leaked, wrapVars, pollVars, box, snap, blanks, pushVars>>

TagStore(t) ==
  /\ At(t, "tagScan") /\ snap[t] = {}
  /\ tags' = found[t]
  /\ found' = [found EXCEPT ![t] = {}]
  /\ \/ /\ op[t] = "add"    /\ Goto(t, "launch")   /\ UNCHANGED frameVars
     \/ /\ op[t] = "delete" /\ Goto(t, "sendStop") /\ UNCHANGED frameVars
     \/ /\ op[t] \in {"update", "batch"} /\ Return(t)
  /\ UNCHANGED <<servers, sortedKeys, leaked, wrapVars, pollVars, box, snap, blanks, pushVars>>

BatchTick(t) ==
  /\ t \in Batchers /\ At(t, "idle")
  /\ Goto(t, "sort")
  /\ op' = [op EXCEPT ![t] = "batch"]
  /\ UNCHANGED <<listVars, wrapVars, pollVars, box, arg, conf, inst, scanVars, pushVars>>

-----------------------------------------------------------------------------
(* Delete(key)                                                             *)

DeleteLookup(t) ==
  /\ At(t, "lookup") /\ op[t] = "delete" /\ CanRLock
  /\ \/ /\ servers[arg[t]] = NONE
        /\ Return(t)
     \/ /\ servers[arg[t]] # NONE
        /\ inst' = [inst EXCEPT ![t] = servers[arg[t]]]
        /\ Goto(t, "remove")
        /\ UNCHANGED <<op, arg, conf>>
  /\ UNCHANGED <<listVars, wrapVars, pollVars, box, scanVars, pushVars>>

DeleteRemove(t) ==
  /\ At(t, "remove") /\ CanLock
  /\ servers' = [servers EXCEPT ![arg[t]] = NONE]
  /\ Goto(t, "sort")
  /\ UNCHANGED <<sortedKeys, tags, leaked, wrapVars, pollVars, box, frameVars, scanVars, pushVars>>

(* Mutant: the poller is not told to stop.                                  *)
SendStopForgotten(t) ==
  /\ At(t, "sendStop")
  /\ Goto(t, "stopBox")
  /\ UNCHANGED <<listVars, wrapVars, pollVars, box, frameVars, scanVars, pushVars>>

(* s.stop <- struct{}{}: the channel holds one value; a second send waits. *)
SendStop(t) ==
  /\ At(t, "sendStop")
  /\ ~stop[inst[t]]
  /\ stop' = [stop EXCEPT ![inst[t]] = TRUE]
  /\ Goto(t, "stopBox")
  /\ UNCHANGED <<listVars, wrapVars, poller, box, frameVars, scanVars, pushVars>>

(* Mutant: the context of the WaitBox is not cancelled.                     *)
StopBoxForgotten(t) ==
  /\ At(t, "stopBox")
  /\ Return(t)
  /\ UNCHANGED <<listVars, wrapVars, pollVars, box, scanVars, pushVars>>

(* s.WaitBox.Stop(): a nil pointer as long as AddFromSettings has not set  *)
(* the WaitBox, a nil function as long as the box's goroutine has not run. *)
StopBox(t) ==
  /\ At(t, "stopBox")
  /\ \/ /\ box[inst[t]] \in {"none", "launched"}
        /\ Panic(t)
        /\ UNCHANGED box
     \/ /\ box[inst[t]] \in {"up", "cancelled", "gone"}
        /\ box' = [box EXCEPT ![inst[t]] = IF @ = "up" THEN "cancelled" ELSE @]
        /\ Return(t)
  /\ UNCHANGED <<listVars, wrapVars, pollVars, scanVars, pushVars>>

-----------------------------------------------------------------------------
(* UpdateFromSettings(key, c)                                              *)

UpdateLookup(t) ==
  /\ At(t, "lookup") /\ op[t] = "update" /\ CanRLock
  /\ \/ /\ servers[arg[t]] = NONE
        /\ Return(t)
     \/ /\ servers[arg[t]] # NONE
        /\ inst' = [inst EXCEPT ![t] = servers[arg[t]]]
        /\ Goto(t, "fields")
        /\ UNCHANGED <<op, arg, conf>>
  /\ UNCHANGED <<listVars, wrapVars, pollVars, box, scanVars, pushVars>>

(* The fields compared to decide "dirty" do not include the login.         *)
UpdateFields(t) ==
  LET i == inst[t]
  IN /\ At(t, "fields")
     /\ \/ /\ name[i] = conf[t].name
           /\ Return(t)
           /\ UNCHANGED name
        \/ /\ name[i] # conf[t].name
           /\ name' = [name EXCEPT ![i] = conf[t].name]
           /\ Goto(t, "connString")
           /\ UNCHANGED frameVars
     /\ UNCHANGED <<listVars, keyOf, conn, pollVars, box, scanVars, pushVars>>

(* s.SetConectionString(key, c): its error is ignored.                     *)
UpdateConnString(t) ==
  LET i == inst[t]
  IN /\ At(t, "connString")
     /\ \/ /\ conf[t].login \in GoodLogins
           /\ conn' = [conn EXCEPT ![i] = conf[t]]
        \/ /\ conf[t].login \notin GoodLogins
           /\ UNCHANGED conn
     /\ Goto(t, "sort")
     /\ UNCHANGED <<listVars, keyOf, name, pollVars, box, frameVars, scanVars, pushVars>>

-----------------------------------------------------------------------------
(* AddFromSettings(key, c, pollNow)                                        *)

AddBuild(t) ==
  /\ At(t, "build")
  /\ \/ /\ conf[t].login \notin GoodLogins
        /\ Return(t)
        /\ UNCHANGED <<wrapVars, pollVars, box>>
     \/ /\ conf[t].login \in GoodLogins
        /\ \E i \in Insts :
             /\ Free(i)
             /\ inst' = [inst EXCEPT ![t] = i]
             /\ keyOf' = [keyOf EXCEPT ![i] = arg[t]]
             /\ name' = [name EXCEPT ![i] = conf[t].name]
             /\ conn' = [conn EXCEPT ![i] = conf[t]]
             /\ poller' = [poller EXCEPT ![i] = "none"]
             /\ stop' = [stop EXCEPT ![i] = FALSE]
             /\ box' = [box EXCEPT ![i] = "none"]
        /\ Goto(t, "publish")
        /\ UNCHANGED <<op, arg, conf>>
  /\ UNCHANGED <<listVars, scanVars, pushVars>>

AddPublish(t) ==
  /\ At(t, "publish") /\ CanLock
  /\ servers' = [servers EXCEPT ![arg[t]] = inst[t]]
  /\ Goto(t, "sort")
  /\ UNCHANGED <<sortedKeys, tags, leaked, wrapVars, pollVars, box, frameVars, scanVars, pushVars>>

(* Mutant: a new server waits for a poller that nobody launches.            *)
AddLaunchForgotten(t) ==
  /\ At(t, "launch")
  /\ Goto(t, "startBox")
  /\ UNCHANGED <<listVars, wrapVars, pollVars, box, frameVars, scanVars, pushVars>>

(* go PollRoutine(&s)                                                      *)
AddLaunch(t) ==
  /\ At(t, "launch")
  /\ poller' = [poller EXCEPT ![inst[t]] = "running"]
  /\ Goto(t, "startBox")
  /\ UNCHANGED <<listVars, wrapVars, stop, box, frameVars, scanVars, pushVars>>

(* s.WaitBox = &dwaits.Box{}; s.WaitBox.Start(...) launches a goroutine.   *)
AddStartBox(t) ==
  /\ At(t, "startBox")
  /\ box' = [box EXCEPT ![inst[t]] = "launched"]
  /\ Return(t)
  /\ UNCHANGED <<listVars, wrapVars, pollVars, scanVars, pushVars>>

-----------------------------------------------------------------------------
(* PollRoutine, as the list sees it: between two polls it looks at the stop *)
(* channel.  Module Poll models the polls.                                  *)
PollStop(i) ==
  /\ poller[i] = "running" /\ stop[i]
  /\ poller' = [poller EXCEPT ![i] = "gone"]
  /\ stop' = [stop EXCEPT ![i] = FALSE]
  /\ UNCHANGED <<listVars, wrapVars, box, pc, frameVars, scanVars, pushVars>>

(* The goroutine of Box.Start sets b.ctxCanel; it ends when the context is *)
(* done.  ("up" is also a box that gave up on a server of a low version:   *)
(* its ctxCanel can be called like any other's.)                           *)
BoxUp(i) ==
  /\ box[i] = "launched"
  /\ box' = [box EXCEPT ![i] = "up"]
  /\ UNCHANGED <<listVars, wrapVars, pollVars, pc, frameVars, scanVars, pushVars>>

BoxExit(i) ==
  /\ box[i] = "cancelled"
  /\ box' = [box EXCEPT ![i] = "gone"]
  /\ UNCHANGED <<listVars, wrapVars, pollVars, pc, frameVars, scanVars, pushVars>>

-----------------------------------------------------------------------------
(* PushC2Servers                                                           *)

(* The files are looked at once a minute and a user deletes what a page    *)
(* showed, while AddFromSettings and the new goroutine of its box take     *)
(* milliseconds: by then a registered server has a box with a context.     *)
Settled(k) == box[servers[k]] \notin {"none", "launched"}

ReloadBegin(t, c) ==
  /\ t \in Watchers /\ At(t, "idle") /\ CanRLock
  /\ \A k \in Registered : Settled(k)
  /\ config' = [config EXCEPT ![t] = c]
  /\ todo' = [todo EXCEPT ![t] = Registered \ DOMAIN c]
  /\ Goto(t, "deleting")
  /\ UNCHANGED <<listVars, wrapVars, pollVars, box, frameVars, scanVars>>

ReloadDelete(t, k) ==
  /\ At(t, "deleting") /\ k \in todo[t]
  /\ todo' = [todo EXCEPT ![t] = @ \ {k}]
  /\ op' = [op EXCEPT ![t] = "delete"]
  /\ arg' = [arg EXCEPT ![t] = k]
  /\ Goto(t, "lookup")
  /\ UNCHANGED <<listVars, wrapVars, pollVars, box, conf, inst, scanVars, config>>

ReloadDeleted(t) ==
  /\ At(t, "deleting") /\ todo[t] = {}
  /\ todo' = [todo EXCEPT ![t] = DOMAIN config[t]]
  /\ Goto(t, "applying")
  /\ UNCHANGED <<listVars, wrapVars, pollVars, box, frameVars, scanVars, config>>

(* Mutant: an entry counts as changed when its login changed.               *)
ReloadApplyLogin(t, k) ==
  LET i == servers[k]
      c == config[t][k]
      Call(o, label) ==
        /\ op' = [op EXCEPT ![t] = o]
        /\ arg' = [arg EXCEPT ![t] = k]
        /\ conf' = [conf EXCEPT ![t] = c]
        /\ Goto(t, label)
        /\ UNCHANGED inst
  IN /\ At(t, "applying") /\ k \in todo[t] /\ CanRLock
     /\ todo' = [todo EXCEPT ![t] = @ \ {k}]
     /\ \/ i = NONE /\ Call("add", "build")
        \/ i # NONE /\ conn[i].login # c.login /\ Call("update", "lookup")
        \/ i # NONE /\ conn[i].login = c.login /\ UNCHANGED <<pc, frameVars>>
     /\ UNCHANGED <<listVars, wrapVars, pollVars, box, scanVars, config>>

(* servers.CloneOne(k), then update, add or nothing.                       *)
ReloadApply(t, k) ==
  LET i == servers[k]
      c == config[t][k]
      Call(o, label) ==
        /\ op' = [op EXCEPT ![t] = o]
        /\ arg' = [arg EXCEPT ![t] = k]
        /\ conf' = [conf EXCEPT ![t] = c]
        /\ Goto(t, label)
        /\ UNCHANGED inst
  IN /\ At(t, "applying") /\ k \in todo[t] /\ CanRLock
     /\ todo' = [todo EXCEPT ![t] = @ \ {k}]
     /\ \/ i = NONE /\ Call("add", "build")
        \/ i # NONE /\ (name[i] # c.name \/ conn[i].login # c.login) /\ Call("update", "lookup")
        \/ i # NONE /\ name[i] = c.name /\ conn[i].login = c.login /\ UNCHANGED <<pc, frameVars>>
     /\ UNCHANGED <<listVars, wrapVars, pollVars, box, scanVars, config>>

ReloadEnd(t) ==
  /\ At(t, "applying") /\ todo[t] = {}
  /\ config' = [config EXCEPT ![t] = NONE]
  /\ Goto(t, "idle")
  /\ UNCHANGED <<listVars, wrapVars, pollVars, box, frameVars, scanVars, todo>>

-----------------------------------------------------------------------------
(* Settings pages.  A new server's key is a new UUID: one that nothing     *)
(* carries.  For a delete the page found the key in the settings file, for *)
(* an edit too, but the list may have changed since.                       *)

NewKey(k) ==
  /\ k \notin Registered
  /\ \A t \in Threads : arg[t] # k /\ k \notin snap[t]
  /\ \A i \in Insts : keyOf[i] = k => Free(i)

Request(t, o, k, c, label) ==
  /\ t \in Editors /\ At(t, "idle")
  /\ op' = [op EXCEPT ![t] = o]
  /\ arg' = [arg EXCEPT ![t] = k]
  /\ conf' = [conf EXCEPT ![t] = c]
  /\ Goto(t, label)
  /\ UNCHANGED <<listVars, wrapVars, pollVars, box, inst, scanVars, pushVars>>

AddRequest(t, k, c)  == NewKey(k) /\ Request(t, "add", k, c, "build")
EditRequest(t, k, c) == k \in Registered /\ Request(t, "update", k, c, "lookup")
DeleteRequest(t, k)  == k \in Registered /\ Settled(k) /\ Request(t, "delete", k, NONE, "lookup")

(* tagPage: the servers of a tag, then one SqlServer copied per key under  *)
(* list.RLock.  For a key that is gone this dereferences a nil wrapper,    *)
(* and RUnlock is not deferred.                                            *)
TagPageLookup(t, n) ==
  /\ t \in Viewers /\ At(t, "idle")
  /\ \E k \in Keys : <<n, k>> \in tags
  /\ snap' = [snap EXCEPT ![t] = {k \in Keys : <<n, k>> \in tags}]
  /\ Goto(t, "tagPage")
  /\ UNCHANGED <<listVars, wrapVars, pollVars, box, frameVars, blanks, found, pushVars>>

TagPageCopy(t) ==
  /\ At(t, "tagPage") /\ CanRLock
  /\ leaked' = (leaked \/ ~(snap[t] \subseteq Registered))
  /\ snap' = [snap EXCEPT ![t] = {}]
  /\ Goto(t, "idle")
  /\ UNCHANGED <<servers, sortedKeys, tags, wrapVars, pollVars, box, frameVars, blanks, found, pushVars>>

-----------------------------------------------------------------------------
ListStep(t) ==
  \/ SortSnapshot(t) \/ SortLen(t) \/ SortStore(t)
  \/ TagKeys(t) \/ (\E k \in Keys : TagScan(t, k)) \/ TagStore(t)
  \/ DeleteLookup(t) \/ DeleteRemove(t) \/ SendStop(t) \/ StopBox(t)
  \/ UpdateLookup(t) \/ UpdateFields(t) \/ UpdateConnString(t)
  \/ AddBuild(t) \/ AddPublish(t) \/ AddLaunch(t) \/ AddStartBox(t)
  \/ (\E k \in Keys : ReloadDelete(t, k)) \/ ReloadDeleted(t)
  \/ (\E k \in Keys : ReloadApply(t, k)) \/ ReloadEnd(t)
  \/ TagPageCopy(t)

Arrival(t) ==
  \/ \E c \in Configs : ReloadBegin(t, c)
  \/ \E k \in Keys, c \in Confs : AddRequest(t, k, c)
  \/ \E k \in Keys, c \in Confs : EditRequest(t, k, c)
  \/ \E k \in Keys : DeleteRequest(t, k)
  \/ \E n \in Names : TagPageLookup(t, n)

ServerStep(i) ==
  PollStop(i) \/ BoxUp(i) \/ BoxExit(i)

Next ==
  \/ \E t \in Threads : ListStep(t) \/ BatchTick(t) \/ Arrival(t)
  \/ \E i \in Insts : ServerStep(i)

Spec == Init /\ [][Next]_vars

(* Every goroutine that can run runs and the tickers tick; every poll ends, *)
(* so a poller comes to look at its stop channel.  Nothing is assumed of    *)
(* the arrival of requests and file changes.                                *)
Fairness ==
  /\ \A t \in Threads : WF_vars(ListStep(t)) /\ WF_vars(BatchTick(t))
  /\ \A i \in Insts : WF_vars(PollStop(i)) /\ WF_vars(BoxUp(i)) /\ WF_vars(BoxExit(i))

FairSpec == Spec /\ Fairness
-----------------------------------------------------------------------------
ThreadLabels == {"idle", "dead", "sort", "sortLen", "sortStore", "tags", "tagScan",
  "lookup", "remove", "sendStop", "stopBox", "fields", "connString", "build",
  "publish", "launch", "startBox", "deleting", "applying", "tagPage"}

(* Every variable holds a value of its type.                                *)
TypeOK ==
  /\ servers \in [Keys -> Insts \cup {NONE}]
  /\ sortedKeys \in [keys : SUBSET Keys, blanks : Nat]
  /\ tags \subseteq (Names \cup {NONE}) \X Keys
  /\ leaked \in BOOLEAN
  /\ keyOf \in [Insts -> Keys \cup {NONE}]
  /\ name \in [Insts -> Names \cup {NONE}]
  /\ conn \in [Insts -> Confs \cup {NONE}]
  /\ poller \in [Insts -> {"none", "running", "gone"}]
  /\ stop \in [Insts -> BOOLEAN]
  /\ box \in [Insts -> {"none", "launched", "up", "cancelled", "gone"}]
  /\ pc \in [Threads -> ThreadLabels]
  /\ op \in [Threads -> {"none", "add", "update", "delete", "batch"}]
  /\ arg \in [Threads -> Keys \cup {NONE}]
  /\ conf \in [Threads -> Confs \cup {NONE}]
  /\ inst \in [Threads -> Insts \cup {NONE}]
  /\ snap \in [Threads -> SUBSET Keys]
  /\ blanks \in [Threads -> Nat]
  /\ found \in [Threads -> SUBSET ((Names \cup {NONE}) \X Keys)]
  /\ config \in [Threads -> Configs \cup {NONE}]
  /\ todo \in [Threads -> SUBSET Keys]

Handled(i)    == \E t \in Threads : inst[t] = i

(* A server in the list is polled: its wrapper carries the key it is        *)
(* registered under, and its poller runs and has not been told to stop,     *)
(* unless the AddFromSettings that registered it has yet to launch it.      *)
(* Violated if a Delete stopped another wrapper than the one it removed.    *)
RegisteredIsPolled ==
  \A k \in Registered :
    LET i == servers[k]
    IN /\ keyOf[i] = k
       /\ ~stop[i]
       /\ \/ poller[i] = "running"
          \/ poller[i] = "none" /\ \E t \in Threads : inst[t] = i /\ op[t] = "add"

(* "Delete removes a server from polling" (sql_funcs.go): when no operation *)
(* holds a wrapper that is not in the list, its poller has ended or has a   *)
(* stop waiting for it, and its WaitBox has ended or has been cancelled.    *)
DeletedIsStopped ==
  \A i \in Insts : (i \notin {servers[k] : k \in Keys}) /\ ~Handled(i) =>
    /\ poller[i] = "running" => stop[i]
    /\ box[i] \notin {"launched", "up"}

(* When PushC2Servers is through, the list holds exactly the servers of the *)
(* files (less those that have no connection string and were not in the     *)
(* list before), each under the name that the files give it: its FQDN,      *)
(* friendly name, tags and backup flags.  Of its login and its connection   *)
(* string nothing is claimed, since they may be older: UpdateFields drops   *)
(* a change of the credential only, and UpdateConnString keeps the old      *)
(* connection string, for good, when the new one cannot be made.            *)
ReloadApplied ==
  \A t \in Watchers : pc[t] = "applying" /\ todo[t] = {} =>
    LET c == config[t]
    IN /\ Registered \subseteq DOMAIN c
       /\ \A k \in DOMAIN c :
            /\ c[k].login \in GoodLogins => k \in Registered
            /\ k \in Registered => name[servers[k]] = c[k].name

(* What the pages show is what the list holds: the sorted keys and the tags *)
(* are those of the registered servers.                                     *)
PagesCurrent ==
  /\ sortedKeys = [keys |-> Registered, blanks |-> 0]
  /\ tags = {<<name[servers[k]], k>> : k \in Registered}

Quiet == \A t \in Watchers \cup Editors : pc[t] = "idle"

(* Once the configuration stops changing, stale results of SortKeys and     *)
(* mapTags that an interleaved run stored late are repaired for good.       *)
Settles == <>[]Quiet => <>[]PagesCurrent
=============================================================================
