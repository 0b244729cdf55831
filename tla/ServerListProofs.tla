------------------------- MODULE ServerListProofs -------------------------
(***************************************************************************)
(* Theorems about ServerList, for every value of its constants: TypeOK;    *)
(* as long as one goroutine at a time changes the list, RegisteredIsPolled *)
(* and DeletedIsStopped; and ReloadApplied, which FILE mode relies on.     *)
(***************************************************************************)
EXTENDS ServerList, FiniteSetTheorems, TLAPS

SortLabels == {"sort", "sortLen", "sortStore", "tags", "tagScan"}

(* What the frames of the threads hold, beyond their types: each label     *)
(* belongs to certain operations, and an operation has the arguments its   *)
(* labels read.                                                            *)
LabelsOK ==
  \A t \in Threads :
    /\ pc[t] \in {"build", "publish", "launch", "startBox"} => op[t] = "add"
    /\ pc[t] \in {"fields", "connString"} => op[t] = "update"
    /\ pc[t] \in {"remove", "sendStop", "stopBox"} => op[t] = "delete"
    /\ pc[t] = "lookup" => op[t] \in {"update", "delete"}
    /\ pc[t] \in SortLabels => op[t] # "none"
    /\ pc[t] \in {"idle", "dead", "deleting", "applying", "tagPage"} => op[t] = "none"
    /\ op[t] \in {"add", "update"} => conf[t] \in Confs
    /\ op[t] \in {"add", "update", "delete"} => arg[t] \in Keys
    /\ op[t] = "batch" => t \in Batchers
    /\ pc[t] \in {"remove", "sendStop", "stopBox", "fields", "connString", "publish",
                   "launch", "startBox"} => inst[t] \in Insts
    /\ op[t] = "add" /\ pc[t] \in SortLabels => inst[t] \in Insts
    /\ op[t] = "delete" /\ pc[t] \in SortLabels => inst[t] \in Insts

PushOK ==
  \A t \in Threads :
    /\ pc[t] \in {"deleting", "applying"} => t \in Watchers
    /\ t \in Watchers /\ (pc[t] \in {"deleting", "applying"} \/ op[t] # "none") =>
         config[t] \in Configs
    /\ t \in Watchers /\ (pc[t] = "applying" \/ op[t] \in {"add", "update"}) =>
         todo[t] \subseteq DOMAIN config[t]

TypeInv == TypeOK /\ LabelsOK /\ PushOK

(* The types of the variables that the end of an operation changes.         *)
FrameType ==
  /\ pc \in [Threads -> ThreadLabels]
  /\ op \in [Threads -> {"none", "add", "update", "delete", "batch"}]
  /\ arg \in [Threads -> Keys \cup {NONE}]
  /\ conf \in [Threads -> Confs \cup {NONE}]
  /\ inst \in [Threads -> Insts \cup {NONE}]

LEMMA ConfigType == ASSUME NEW c \in Configs, NEW k \in DOMAIN c
                    PROVE  DOMAIN c \subseteq Keys /\ c[k] \in Confs
  BY ConstantsAssumption

LEMMA ConfigDomain == ASSUME NEW c \in Configs
                      PROVE  DOMAIN c \subseteq Keys
  BY ConstantsAssumption

LEMMA InitTypeInv == Init => TypeInv
<1>1. Init => TypeOK
  <2> SUFFICES ASSUME Init PROVE TypeOK
    OBVIOUS
  <2>1. sortedKeys \in [keys : SUBSET Keys, blanks : Nat]
    BY DEF Init
  <2>2. snap \in [Threads -> SUBSET Keys] /\ todo \in [Threads -> SUBSET Keys]
    BY DEF Init
  <2>3. found \in [Threads -> SUBSET ((Names \cup {NONE}) \X Keys)]
    BY DEF Init
  <2>4. pc \in [Threads -> ThreadLabels]
    BY DEF Init, ThreadLabels
  <2>5. tags \subseteq (Names \cup {NONE}) \X Keys
    BY DEF Init
  <2> QED
    BY <2>1, <2>2, <2>3, <2>4, <2>5 DEF Init, TypeOK
<1>2. Init => LabelsOK
  BY DEF Init, LabelsOK, SortLabels
<1>3. Init => PushOK
  BY DEF Init, PushOK
<1> QED
  BY <1>1, <1>2, <1>3 DEF TypeInv

(* When an operation returns, its thread goes home.                         *)
LEMMA ReturnType ==
  ASSUME TypeInv, NEW t \in Threads, op[t] # "none", Return(t), UNCHANGED pushVars
  PROVE  FrameType' /\ LabelsOK' /\ PushOK'
<1> USE DEF TypeInv, TypeOK, Return, Goto, Home, pushVars
<1>1. FrameType'
  BY DEF FrameType, ThreadLabels
<1>2. LabelsOK'
  BY DEF LabelsOK, SortLabels, ThreadLabels
<1>3. t \in Watchers => op[t] # "batch"
  BY ConstantsAssumption DEF LabelsOK
<1>4. PushOK'
  BY <1>3 DEF PushOK, ThreadLabels
<1> QED
  BY <1>1, <1>2, <1>4

LEMMA PanicType ==
  ASSUME TypeInv, NEW t \in Threads, Panic(t), UNCHANGED pushVars
  PROVE  FrameType' /\ LabelsOK' /\ PushOK'
<1> USE DEF TypeInv, TypeOK, Panic, Goto, pushVars
<1>1. FrameType'
  BY DEF FrameType, ThreadLabels
<1>2. LabelsOK'
  BY DEF LabelsOK, SortLabels, ThreadLabels
<1>3. PushOK'
  BY DEF PushOK, ThreadLabels
<1> QED
  BY <1>1, <1>2, <1>3

LEMMA StepTypeInv == TypeInv /\ [Next]_vars => TypeInv'
<1> SUFFICES ASSUME TypeInv, [Next]_vars PROVE TypeInv'
  OBVIOUS
<1> USE ConstantsAssumption
<1> USE DEF TypeInv, TypeOK, LabelsOK, PushOK, ThreadLabels, SortLabels, At, Goto,
            frameVars, listVars, wrapVars, pollVars, scanVars, pushVars
<1>1. ASSUME NEW t \in Threads, SortSnapshot(t) PROVE TypeInv'
  BY <1>1 DEF SortSnapshot, Registered
<1>2. ASSUME NEW t \in Threads, SortLen(t) PROVE TypeInv'
  <2>1. IsFiniteSet(Registered) /\ Registered \subseteq Keys
    BY <1>2, ConstantsAssumption, FS_Subset DEF Registered
  <2>2. IsFiniteSet(snap[t])
    BY <1>2, ConstantsAssumption, FS_Subset
  <2>3. Cardinality(Registered) \in Nat /\ Cardinality(snap[t]) \in Nat
    BY <2>1, <2>2, FS_CardinalityType
  <2>4. CASE Cardinality(snap[t]) > Cardinality(Registered)
    <3>1. FrameType' /\ LabelsOK' /\ PushOK'
      BY <1>2, <2>3, <2>4, PanicType DEF SortLen
    <3> QED
      <4>1. /\ UNCHANGED <<listVars, wrapVars, pollVars, box, found, pushVars, blanks>>
            /\ snap' = [snap EXCEPT ![t] = {}]
        BY <1>2, <2>3, <2>4 DEF SortLen
      <4>2. TypeOK'
        BY <3>1, <4>1 DEF FrameType
      <4> QED
        BY <3>1, <4>2
  <2>5. CASE /\ Cardinality(snap[t]) <= Cardinality(Registered)
             /\ blanks' = [blanks EXCEPT ![t] = Cardinality(Registered) - Cardinality(snap[t])]
             /\ Goto(t, "sortStore")
             /\ UNCHANGED <<frameVars, snap>>
    BY <1>2, <2>3, <2>5 DEF SortLen
  <2> QED
    BY <1>2, <2>3, <2>4, <2>5 DEF SortLen
<1>3. ASSUME NEW t \in Threads, SortStore(t) PROVE TypeInv'
  BY <1>3 DEF SortStore
<1>4. ASSUME NEW t \in Threads, TagKeys(t) PROVE TypeInv'
  BY <1>4 DEF TagKeys, Registered
<1>5. ASSUME NEW t \in Threads, \E k \in Keys : TagScan(t, k) PROVE TypeInv'
  BY <1>5 DEF TagScan
<1>6. ASSUME NEW t \in Threads, TagStore(t) PROVE TypeInv'
  <2>1. CASE Return(t)
    <3>1. FrameType' /\ LabelsOK' /\ PushOK'
      BY <1>6, <2>1, ReturnType DEF TagStore
    <3> QED
      BY <1>6, <2>1, <3>1 DEF TagStore, FrameType
  <2>3. CASE /\ \/ op[t] = "add" /\ Goto(t, "launch")
                \/ op[t] = "delete" /\ Goto(t, "sendStop")
             /\ UNCHANGED frameVars
    BY <1>6, <2>3 DEF TagStore
  <2> QED
    BY <1>6, <2>1, <2>3 DEF TagStore
<1>7. ASSUME NEW t \in Threads, BatchTick(t) PROVE TypeInv'
  BY <1>7 DEF BatchTick
<1>8. ASSUME NEW t \in Threads, DeleteLookup(t) PROVE TypeInv'
  <2>1. CASE Return(t)
    <3>1. FrameType' /\ LabelsOK' /\ PushOK'
      BY <1>8, <2>1, ReturnType DEF DeleteLookup
    <3> QED
      BY <1>8, <2>1, <3>1 DEF DeleteLookup, FrameType
  <2>3. CASE servers[arg[t]] # NONE
    <3>1. UNCHANGED <<op, arg, conf>> /\ Goto(t, "remove")
             /\ inst' = [inst EXCEPT ![t] = servers[arg[t]]] /\ servers[arg[t]] \in Insts
      BY <1>8, <2>3 DEF DeleteLookup
    <3> QED
      BY <1>8, <3>1 DEF DeleteLookup
  <2> QED
    BY <1>8, <2>1, <2>3 DEF DeleteLookup
<1>9. ASSUME NEW t \in Threads, DeleteRemove(t) PROVE TypeInv'
  BY <1>9 DEF DeleteRemove
<1>10. ASSUME NEW t \in Threads, SendStop(t) PROVE TypeInv'
  BY <1>10 DEF SendStop
<1>11. ASSUME NEW t \in Threads, StopBox(t) PROVE TypeInv'
  <2>1. CASE box[inst[t]] \in {"up", "cancelled", "gone"}
    <3>1. FrameType' /\ LabelsOK' /\ PushOK'
      BY <1>11, <2>1, ReturnType DEF StopBox
    <3>2. box' \in [Insts -> {"none", "launched", "up", "cancelled", "gone"}]
      BY <1>11, <2>1 DEF StopBox
    <3>3. UNCHANGED <<listVars, wrapVars, pollVars, scanVars, pushVars>>
      BY <1>11 DEF StopBox
    <3> QED
      BY <3>1, <3>2, <3>3 DEF FrameType
  <2>2. CASE box[inst[t]] \in {"none", "launched"}
    <3>1. FrameType' /\ LabelsOK' /\ PushOK'
      BY <1>11, <2>2, PanicType DEF StopBox
    <3> QED
      BY <1>11, <2>2, <3>1 DEF StopBox, FrameType
  <2> QED
    BY <1>11, <2>1, <2>2 DEF StopBox
<1>12. ASSUME NEW t \in Threads, UpdateLookup(t) PROVE TypeInv'
  <2>1. CASE Return(t)
    <3>1. FrameType' /\ LabelsOK' /\ PushOK'
      BY <1>12, <2>1, ReturnType DEF UpdateLookup
    <3> QED
      BY <1>12, <2>1, <3>1 DEF UpdateLookup, FrameType
  <2>3. CASE servers[arg[t]] # NONE
    <3>1. UNCHANGED <<op, arg, conf>> /\ Goto(t, "fields")
             /\ inst' = [inst EXCEPT ![t] = servers[arg[t]]] /\ servers[arg[t]] \in Insts
      BY <1>12, <2>3 DEF UpdateLookup
    <3> QED
      BY <1>12, <3>1 DEF UpdateLookup
  <2> QED
    BY <1>12, <2>1, <2>3 DEF UpdateLookup
<1>13. ASSUME NEW t \in Threads, UpdateFields(t) PROVE TypeInv'
  <2>1. CASE Return(t)
    <3>1. FrameType' /\ LabelsOK' /\ PushOK'
      BY <1>13, <2>1, ReturnType DEF UpdateFields
    <3> QED
      <4>1. UNCHANGED <<listVars, keyOf, conn, pollVars, box, scanVars, pushVars>>
        BY <1>13 DEF UpdateFields
      <4>2. inst[t] \in Insts /\ conf[t].name \in Names
        BY <1>13 DEF UpdateFields, Confs
      <4>3. name' \in [Insts -> Names \cup {NONE}]
        BY <1>13, <4>2 DEF UpdateFields
      <4>4. TypeOK'
        BY <3>1, <4>1, <4>3 DEF FrameType
      <4> QED
        BY <3>1, <4>4
  <2>3. CASE /\ Goto(t, "connString") /\ UNCHANGED frameVars
             /\ name' = [name EXCEPT ![inst[t]] = conf[t].name]
    BY <1>13, <2>3 DEF UpdateFields, Confs
  <2> QED
    BY <1>13, <2>1, <2>3 DEF UpdateFields
<1>14. ASSUME NEW t \in Threads, UpdateConnString(t) PROVE TypeInv'
  BY <1>14 DEF UpdateConnString
<1>15. ASSUME NEW t \in Threads, AddBuild(t) PROVE TypeInv'
  <2>1. CASE conf[t].login \notin GoodLogins
    <3>1. FrameType' /\ LabelsOK' /\ PushOK'
      BY <1>15, <2>1, ReturnType DEF AddBuild
    <3> QED
      BY <1>15, <2>1, <3>1 DEF AddBuild, FrameType, Confs
  <2>3. CASE conf[t].login \in GoodLogins
    <3>1. PICK i \in Insts :
             /\ inst' = [inst EXCEPT ![t] = i]
             /\ keyOf' = [keyOf EXCEPT ![i] = arg[t]]
             /\ name' = [name EXCEPT ![i] = conf[t].name]
             /\ conn' = [conn EXCEPT ![i] = conf[t]]
             /\ poller' = [poller EXCEPT ![i] = "none"]
             /\ stop' = [stop EXCEPT ![i] = FALSE]
             /\ box' = [box EXCEPT ![i] = "none"]
      BY <1>15, <2>3 DEF AddBuild
    <3>2. op[t] = "add" /\ arg[t] \in Keys /\ conf[t] \in Confs
      BY <1>15 DEF AddBuild
    <3>3. conf[t].name \in Names
      BY <3>2 DEF Confs
    <3>4. Goto(t, "publish") /\ UNCHANGED <<op, arg, conf>> /\ UNCHANGED <<listVars, scanVars, pushVars>>
      BY <1>15, <2>3 DEF AddBuild
    <3>5. TypeOK'
      BY <3>1, <3>2, <3>3, <3>4
    <3>6. LabelsOK'
      BY <1>15, <3>1, <3>2, <3>4 DEF AddBuild
    <3>7. PushOK'
      BY <3>4
    <3> QED
      BY <3>5, <3>6, <3>7
  <2> QED
    BY <1>15, <2>1, <2>3 DEF AddBuild
<1>16. ASSUME NEW t \in Threads, AddPublish(t) PROVE TypeInv'
  BY <1>16 DEF AddPublish
<1>17. ASSUME NEW t \in Threads, AddLaunch(t) PROVE TypeInv'
  BY <1>17 DEF AddLaunch
<1>18. ASSUME NEW t \in Threads, AddStartBox(t) PROVE TypeInv'
  <2>1. CASE Return(t)
    <3>1. FrameType' /\ LabelsOK' /\ PushOK'
      BY <1>18, <2>1, ReturnType DEF AddStartBox
    <3> QED
      BY <1>18, <2>1, <3>1 DEF AddStartBox, FrameType
  <2> QED
    BY <1>18, <2>1 DEF AddStartBox
<1>19. ASSUME NEW t \in Threads, \E c \in Configs : ReloadBegin(t, c) PROVE TypeInv'
  <2>1. PICK c \in Configs : ReloadBegin(t, c)
    BY <1>19
  <2>2. TypeOK'
    BY <2>1 DEF ReloadBegin, Registered
  <2>3. LabelsOK'
    BY <2>1 DEF ReloadBegin
  <2>4. PushOK'
    BY <2>1 DEF ReloadBegin
  <2> QED
    BY <2>2, <2>3, <2>4
<1>20. ASSUME NEW t \in Threads, \E k \in Keys : ReloadDelete(t, k) PROVE TypeInv'
  BY <1>20 DEF ReloadDelete
<1>21. ASSUME NEW t \in Threads, ReloadDeleted(t) PROVE TypeInv'
  <2>1. DOMAIN config[t] \subseteq Keys
    BY <1>21, ConfigDomain DEF ReloadDeleted
  <2> QED
    BY <1>21, <2>1 DEF ReloadDeleted
<1>22. ASSUME NEW t \in Threads, \E k \in Keys : ReloadApply(t, k) PROVE TypeInv'
  <2>1. PICK k \in Keys : ReloadApply(t, k)
    BY <1>22
  <2>2. config[t][k] \in Confs /\ t \in Watchers /\ config[t] \in Configs
    BY <2>1, ConfigType DEF ReloadApply
  <2>3. /\ UNCHANGED <<listVars, wrapVars, pollVars, box, scanVars, config, inst>>
        /\ todo' = [todo EXCEPT ![t] = @ \ {k}]
    BY <2>1 DEF ReloadApply
  <2>4. CASE UNCHANGED <<pc, frameVars>>
    BY <2>1, <2>2, <2>3, <2>4
  <2>5. CASE \E o \in {"add", "update"} :
               /\ op' = [op EXCEPT ![t] = o]
               /\ arg' = [arg EXCEPT ![t] = k]
               /\ conf' = [conf EXCEPT ![t] = config[t][k]]
               /\ Goto(t, IF o = "add" THEN "build" ELSE "lookup")
    <3>1. PICK o \in {"add", "update"} :
               /\ op' = [op EXCEPT ![t] = o]
               /\ arg' = [arg EXCEPT ![t] = k]
               /\ conf' = [conf EXCEPT ![t] = config[t][k]]
               /\ Goto(t, IF o = "add" THEN "build" ELSE "lookup")
      BY <2>5
    <3>2. TypeOK'
      BY <2>2, <2>3, <3>1
    <3>3. LabelsOK'
      BY <2>2, <2>3, <3>1
    <3>4. PushOK'
      BY <2>1, <2>2, <2>3, <3>1 DEF ReloadApply
    <3> QED
      BY <3>2, <3>3, <3>4
  <2> QED
    BY <2>1, <2>4, <2>5 DEF ReloadApply
<1>23. ASSUME NEW t \in Threads, ReloadEnd(t) PROVE TypeInv'
  <2>1. TypeOK'
    BY <1>23 DEF ReloadEnd
  <2>2. LabelsOK'
    BY <1>23 DEF ReloadEnd
  <2>3. t \in Watchers /\ op[t] = "none"
    BY <1>23 DEF ReloadEnd
  <2>4. PushOK'
    BY <1>23, <2>3 DEF ReloadEnd
  <2> QED
    BY <2>1, <2>2, <2>4
<1>24. ASSUME NEW t \in Threads, \E k \in Keys, c \in Confs : AddRequest(t, k, c) PROVE TypeInv'
  BY <1>24 DEF AddRequest, Request
<1>25. ASSUME NEW t \in Threads, \E k \in Keys, c \in Confs : EditRequest(t, k, c) PROVE TypeInv'
  BY <1>25 DEF EditRequest, Request
<1>26. ASSUME NEW t \in Threads, \E k \in Keys : DeleteRequest(t, k) PROVE TypeInv'
  BY <1>26 DEF DeleteRequest, Request
<1>27. ASSUME NEW t \in Threads, \E n \in Names : TagPageLookup(t, n) PROVE TypeInv'
  BY <1>27 DEF TagPageLookup
<1>28. ASSUME NEW t \in Threads, TagPageCopy(t) PROVE TypeInv'
  BY <1>28 DEF TagPageCopy
<1>29. ASSUME NEW i \in Insts, PollStop(i) PROVE TypeInv'
  BY <1>29 DEF PollStop
<1>30. ASSUME NEW i \in Insts, BoxUp(i) PROVE TypeInv'
  BY <1>30 DEF BoxUp
<1>31. ASSUME NEW i \in Insts, BoxExit(i) PROVE TypeInv'
  BY <1>31 DEF BoxExit
<1>32. CASE UNCHANGED vars
  BY <1>32 DEF vars
<1> QED
  BY <1>1, <1>2, <1>3, <1>4, <1>5, <1>6, <1>7, <1>8, <1>9, <1>10, <1>11, <1>12, <1>13, <1>14, <1>15, <1>16, <1>17, <1>18, <1>19, <1>20, <1>21, <1>22, <1>23, <1>24, <1>25, <1>26, <1>27, <1>28, <1>29, <1>30, <1>31, <1>32 DEF Next, ListStep, Arrival, ServerStep

(* Every reachable state has values of the declared types.                  *)
THEOREM TypeCorrect == Spec => []TypeOK
<1>1. Spec => []TypeInv
  BY InitTypeInv, StepTypeInv, PTL DEF Spec
<1>2. TypeInv => TypeOK
  BY DEF TypeInv
<1> QED
  BY <1>1, <1>2, PTL

-----------------------------------------------------------------------------
(* RegisteredIsPolled, as long as one goroutine at a time changes the list: *)
(* in FILE mode that is so; in GUI mode when no two settings requests of    *)
(* the same second overlap.                                                 *)
OneWriter == \A s, t \in Watchers \cup Editors : s = t

Writes(t) == op[t] \in {"add", "update", "delete"}

(* The AddFromSettings that will launch the poller of wrapper i.            *)
Launches(t, i) == inst[t] = i /\ op[t] = "add" /\ pc[t] \in SortLabels \cup {"launch"}

Polled ==
  \A k \in Registered :
    LET i == servers[k]
    IN /\ keyOf[i] = k
       /\ ~stop[i]
       /\ \/ poller[i] = "running"
          \/ poller[i] = "none" /\ \E t \in Threads : Launches(t, i)

(* What the running operation knows of the list.                            *)
WriterOK ==
  \A t \in Threads :
    /\ Writes(t) => t \in Watchers \cup Editors
    /\ pc[t] = "publish" =>
         keyOf[inst[t]] = arg[t] /\ poller[inst[t]] = "none" /\ ~stop[inst[t]]
    /\ op[t] = "add" /\ pc[t] \in SortLabels \cup {"launch"} =>
         servers[arg[t]] = inst[t] /\ poller[inst[t]] = "none"
    /\ pc[t] = "remove" => servers[arg[t]] = inst[t]
    /\ op[t] = "delete" /\ pc[t] \in SortLabels \cup {"sendStop"} =>
         \A k \in Keys : servers[k] # inst[t]
    /\ Writes(t) /\ pc[t] = "sortLen" => snap[t] \subseteq Registered

PollInv == Polled /\ WriterOK

LEMMA InitPollInv == Init => PollInv
  BY ConstantsAssumption DEF Init, PollInv, Polled, WriterOK, Writes, Registered, SortLabels

(* Two operations that change the list are one.                             *)
LEMMA SameWriter ==
  ASSUME OneWriter, WriterOK, NEW t \in Threads, NEW u \in Threads, Writes(t), Writes(u)
  PROVE  t = u
  BY DEF OneWriter, WriterOK

LEMMA StepPollInv == OneWriter /\ TypeInv /\ PollInv /\ [Next]_vars => PollInv'
<1> SUFFICES ASSUME OneWriter, TypeInv, PollInv, [Next]_vars PROVE PollInv'
  OBVIOUS
<1> USE ConstantsAssumption
<1> USE DEF PollInv, TypeInv, TypeOK, LabelsOK, ThreadLabels, SortLabels, At, Goto, Registered,
            frameVars, listVars, wrapVars, pollVars, scanVars, pushVars
<1>a. \A t, u \in Threads : Writes(t) /\ Writes(u) => t = u
  BY SameWriter
<1>1. ASSUME NEW t \in Threads, SortSnapshot(t) PROVE PollInv'
  <2>1. Polled'
    BY <1>1 DEF SortSnapshot, Polled, Launches
  <2>2. WriterOK'
    BY <1>1 DEF SortSnapshot, WriterOK, Writes
  <2> QED
    BY <2>1, <2>2
<1>2. ASSUME NEW t \in Threads, SortLen(t) PROVE PollInv'
  <2>a. IsFiniteSet(Registered)
    BY FS_Subset
  <2>b. Cardinality(Registered) \in Nat
    BY <2>a, FS_CardinalityType
  <2>c. Writes(t) => Cardinality(snap[t]) <= Cardinality(Registered) /\ Cardinality(snap[t]) \in Nat
    BY <1>2, <2>a, FS_Subset, FS_CardinalityType DEF SortLen, WriterOK
  <2>d. Writes(t) => Goto(t, "sortStore") /\ UNCHANGED <<frameVars, snap>>
    BY <1>2, <2>b, <2>c DEF SortLen
  <2>1. Polled'
    BY <1>2, <2>d DEF SortLen, Panic, Polled, Launches, Writes
  <2>2. WriterOK'
    BY <1>2, <2>d DEF SortLen, Panic, WriterOK, Writes
  <2> QED
    BY <2>1, <2>2
<1>3. ASSUME NEW t \in Threads, SortStore(t) PROVE PollInv'
  <2>1. Polled'
    BY <1>3 DEF SortStore, Polled, Launches
  <2>2. WriterOK'
    BY <1>3 DEF SortStore, WriterOK, Writes
  <2> QED
    BY <2>1, <2>2
<1>4. ASSUME NEW t \in Threads, TagKeys(t) PROVE PollInv'
  <2>1. Polled'
    BY <1>4 DEF TagKeys, Polled, Launches
  <2>2. WriterOK'
    BY <1>4 DEF TagKeys, WriterOK, Writes
  <2> QED
    BY <2>1, <2>2
<1>5. ASSUME NEW t \in Threads, NEW k \in Keys, TagScan(t, k) PROVE PollInv'
  <2>1. Polled'
    BY <1>5 DEF TagScan, Polled, Launches
  <2>2. WriterOK'
    BY <1>5 DEF TagScan, WriterOK, Writes
  <2> QED
    BY <2>1, <2>2
<1>6. ASSUME NEW t \in Threads, TagStore(t) PROVE PollInv'
  <2>1. Polled'
    BY <1>6 DEF TagStore, Return, Home, Polled, Launches
  <2>2. WriterOK'
    BY <1>6 DEF TagStore, Return, Home, WriterOK, Writes
  <2> QED
    BY <2>1, <2>2
<1>7. ASSUME NEW t \in Threads, BatchTick(t) PROVE PollInv'
  <2>1. Polled'
    BY <1>7 DEF BatchTick, Polled, Launches
  <2>2. WriterOK'
    BY <1>7 DEF BatchTick, WriterOK, Writes
  <2> QED
    BY <2>1, <2>2
<1>8. ASSUME NEW t \in Threads, DeleteLookup(t) PROVE PollInv'
  <2>1. Polled'
    BY <1>8 DEF DeleteLookup, Return, Polled, Launches
  <2>2. WriterOK'
    BY <1>8 DEF DeleteLookup, Return, Home, WriterOK, Writes
  <2> QED
    BY <2>1, <2>2
<1>9. ASSUME NEW t \in Threads, DeleteRemove(t) PROVE PollInv'
  <2>1. Polled'
    BY <1>9 DEF DeleteRemove, Polled, Launches
  <2>2. WriterOK'
    BY <1>9, <1>a DEF DeleteRemove, Polled, WriterOK, Writes
  <2> QED
    BY <2>1, <2>2
<1>10. ASSUME NEW t \in Threads, SendStop(t) PROVE PollInv'
  <2>1. Polled'
    BY <1>10 DEF SendStop, Polled, WriterOK, Launches
  <2>2. WriterOK'
    BY <1>10, <1>a DEF SendStop, WriterOK, Writes
  <2> QED
    BY <2>1, <2>2
<1>11. ASSUME NEW t \in Threads, StopBox(t) PROVE PollInv'
  <2>1. Polled'
    BY <1>11 DEF StopBox, Return, Panic, Polled, Launches
  <2>2. WriterOK'
    BY <1>11 DEF StopBox, Return, Home, Panic, WriterOK, Writes
  <2> QED
    BY <2>1, <2>2
<1>12. ASSUME NEW t \in Threads, UpdateLookup(t) PROVE PollInv'
  <2>1. Polled'
    BY <1>12 DEF UpdateLookup, Return, Polled, Launches
  <2>2. WriterOK'
    BY <1>12 DEF UpdateLookup, Return, Home, WriterOK, Writes
  <2> QED
    BY <2>1, <2>2
<1>13. ASSUME NEW t \in Threads, UpdateFields(t) PROVE PollInv'
  <2>1. Polled'
    BY <1>13 DEF UpdateFields, Return, Polled, Launches
  <2>2. WriterOK'
    BY <1>13 DEF UpdateFields, Return, Home, WriterOK, Writes
  <2> QED
    BY <2>1, <2>2
<1>14. ASSUME NEW t \in Threads, UpdateConnString(t) PROVE PollInv'
  <2>1. Polled'
    BY <1>14 DEF UpdateConnString, Polled, Launches
  <2>2. WriterOK'
    BY <1>14 DEF UpdateConnString, WriterOK, Writes
  <2> QED
    BY <2>1, <2>2
<1>15. ASSUME NEW t \in Threads, AddBuild(t) PROVE PollInv'
  <2>1. Polled'
    BY <1>15 DEF AddBuild, Free, Return, Polled, Launches
  <2>2. WriterOK'
    BY <1>15 DEF AddBuild, Free, Return, Home, WriterOK, Writes
  <2> QED
    BY <2>1, <2>2
<1>16. ASSUME NEW t \in Threads, AddPublish(t) PROVE PollInv'
  <2>1. Polled'
    BY <1>16 DEF AddPublish, Polled, WriterOK, Launches
  <2>2. WriterOK'
    BY <1>16, <1>a DEF AddPublish, WriterOK, Writes
  <2> QED
    BY <2>1, <2>2
<1>17. ASSUME NEW t \in Threads, AddLaunch(t) PROVE PollInv'
  <2>1. Polled'
    BY <1>17 DEF AddLaunch, Polled, Launches
  <2>2. WriterOK'
    BY <1>17, <1>a DEF AddLaunch, WriterOK, Writes
  <2> QED
    BY <2>1, <2>2
<1>18. ASSUME NEW t \in Threads, AddStartBox(t) PROVE PollInv'
  <2>1. Polled'
    BY <1>18 DEF AddStartBox, Return, Polled, Launches
  <2>2. WriterOK'
    BY <1>18 DEF AddStartBox, Return, Home, WriterOK, Writes
  <2> QED
    BY <2>1, <2>2
<1>19. ASSUME NEW t \in Threads, NEW c \in Configs, ReloadBegin(t, c) PROVE PollInv'
  <2>1. Polled'
    BY <1>19 DEF ReloadBegin, Polled, Launches
  <2>2. WriterOK'
    BY <1>19 DEF ReloadBegin, WriterOK, Writes
  <2> QED
    BY <2>1, <2>2
<1>20. ASSUME NEW t \in Threads, NEW k \in Keys, ReloadDelete(t, k) PROVE PollInv'
  <2>a. t \in Watchers
    BY <1>20 DEF ReloadDelete, PushOK
  <2>1. Polled'
    BY <1>20, <2>a DEF ReloadDelete, Polled, Launches
  <2>2. WriterOK'
    BY <1>20, <2>a DEF ReloadDelete, WriterOK, Writes
  <2> QED
    BY <2>1, <2>2
<1>21. ASSUME NEW t \in Threads, ReloadDeleted(t) PROVE PollInv'
  <2>1. Polled'
    BY <1>21 DEF ReloadDeleted, Polled, Launches
  <2>2. WriterOK'
    BY <1>21 DEF ReloadDeleted, WriterOK, Writes
  <2> QED
    BY <2>1, <2>2
<1>22. ASSUME NEW t \in Threads, NEW k \in Keys, ReloadApply(t, k) PROVE PollInv'
  <2>a. t \in Watchers
    BY <1>22 DEF ReloadApply, PushOK
  <2>1. Polled'
    BY <1>22, <2>a DEF ReloadApply, Polled, Launches
  <2>2. WriterOK'
    BY <1>22, <2>a DEF ReloadApply, WriterOK, Writes
  <2> QED
    BY <2>1, <2>2
<1>23. ASSUME NEW t \in Threads, ReloadEnd(t) PROVE PollInv'
  <2>1. Polled'
    BY <1>23 DEF ReloadEnd, Polled, Launches
  <2>2. WriterOK'
    BY <1>23 DEF ReloadEnd, WriterOK, Writes
  <2> QED
    BY <2>1, <2>2
<1>24. ASSUME NEW t \in Threads, NEW k \in Keys, NEW c \in Confs, AddRequest(t, k, c) PROVE PollInv'
  <2>1. Polled'
    BY <1>24 DEF AddRequest, Request, Polled, Launches
  <2>2. WriterOK'
    BY <1>24 DEF AddRequest, Request, WriterOK, Writes
  <2> QED
    BY <2>1, <2>2
<1>25. ASSUME NEW t \in Threads, NEW k \in Keys, NEW c \in Confs, EditRequest(t, k, c) PROVE PollInv'
  <2>1. Polled'
    BY <1>25 DEF EditRequest, Request, Polled, Launches
  <2>2. WriterOK'
    BY <1>25 DEF EditRequest, Request, WriterOK, Writes
  <2> QED
    BY <2>1, <2>2
<1>26. ASSUME NEW t \in Threads, NEW k \in Keys, DeleteRequest(t, k) PROVE PollInv'
  <2>1. Polled'
    BY <1>26 DEF DeleteRequest, Request, Polled, Launches
  <2>2. WriterOK'
    BY <1>26 DEF DeleteRequest, Request, WriterOK, Writes
  <2> QED
    BY <2>1, <2>2
<1>27. ASSUME NEW t \in Threads, NEW n \in Names, TagPageLookup(t, n) PROVE PollInv'
  <2>1. Polled'
    BY <1>27 DEF TagPageLookup, Polled, Launches
  <2>2. WriterOK'
    BY <1>27 DEF TagPageLookup, WriterOK, Writes
  <2> QED
    BY <2>1, <2>2
<1>28. ASSUME NEW t \in Threads, TagPageCopy(t) PROVE PollInv'
  <2>1. Polled'
    BY <1>28 DEF TagPageCopy, Polled, Launches
  <2>2. WriterOK'
    BY <1>28 DEF TagPageCopy, WriterOK, Writes
  <2> QED
    BY <2>1, <2>2
<1>29. ASSUME NEW i \in Insts, PollStop(i) PROVE PollInv'
  <2>1. Polled'
    BY <1>29 DEF PollStop, Polled, Launches
  <2>2. WriterOK'
    BY <1>29 DEF PollStop, WriterOK, Writes
  <2> QED
    BY <2>1, <2>2
<1>30. ASSUME NEW i \in Insts, BoxUp(i) PROVE PollInv'
  <2>1. Polled'
    BY <1>30 DEF BoxUp, Polled, Launches
  <2>2. WriterOK'
    BY <1>30 DEF BoxUp, WriterOK, Writes
  <2> QED
    BY <2>1, <2>2
<1>31. ASSUME NEW i \in Insts, BoxExit(i) PROVE PollInv'
  <2>1. Polled'
    BY <1>31 DEF BoxExit, Polled, Launches
  <2>2. WriterOK'
    BY <1>31 DEF BoxExit, WriterOK, Writes
  <2> QED
    BY <2>1, <2>2
<1>32. CASE UNCHANGED vars
  BY <1>32 DEF vars, Polled, WriterOK, Launches, Writes
<1> QED
  BY <1>1, <1>2, <1>3, <1>4, <1>5, <1>6, <1>7, <1>8, <1>9, <1>10, <1>11, <1>12, <1>13, <1>14, <1>15, <1>16, <1>17, <1>18, <1>19, <1>20, <1>21, <1>22, <1>23, <1>24, <1>25, <1>26, <1>27, <1>28, <1>29, <1>30, <1>31, <1>32 DEF Next, ListStep, Arrival, ServerStep

(* With one writer, a server in the list is polled, in every reachable      *)
(* state: whatever the batch ticker, the tag pages, the pollers and the     *)
(* boxes do between the critical sections of the writer.                    *)
THEOREM PollingCorrect == OneWriter => (Spec => []RegisteredIsPolled)
<1> SUFFICES ASSUME OneWriter PROVE Spec => []RegisteredIsPolled
  OBVIOUS
<1>1. Spec => []TypeInv
  BY InitTypeInv, StepTypeInv, PTL DEF Spec
<1>2. TypeInv /\ PollInv /\ [Next]_vars => PollInv'
  BY StepPollInv
<1>3. PollInv => RegisteredIsPolled
  BY DEF PollInv, Polled, RegisteredIsPolled, Launches
<1> QED
  BY InitPollInv, <1>1, <1>2, <1>3, PTL DEF Spec

-----------------------------------------------------------------------------
(* DeletedIsStopped, with one writer.                                       *)

(* The Delete that will send a value to the stop channel of wrapper i, or   *)
(* cancel its box.                                                          *)
WillStop(t, i)   == inst[t] = i /\ op[t] = "delete" /\ pc[t] \in SortLabels \cup {"sendStop"}
WillCancel(t, i) == inst[t] = i /\ op[t] = "delete" /\ pc[t] \in SortLabels \cup {"sendStop", "stopBox"}

Stopped ==
  \A i \in Insts : (\A k \in Keys : servers[k] # i) =>
    /\ poller[i] = "running" => stop[i] \/ \E t \in Threads : WillStop(t, i)
    /\ box[i] \in {"launched", "up"} => \E t \in Threads : WillCancel(t, i)

(* An add finds its key free and ends with its wrapper in the list; the box *)
(* of a wrapper that is being deleted has a context.                        *)
BoxOK ==
  \A t \in Threads :
    /\ pc[t] \in {"build", "publish"} => servers[arg[t]] = NONE
    /\ pc[t] = "publish" => box[inst[t]] = "none"
    /\ pc[t] = "startBox" => servers[arg[t]] = inst[t]
    /\ op[t] = "delete" /\ pc[t] = "lookup" /\ servers[arg[t]] # NONE => Settled(arg[t])
    /\ op[t] = "delete" /\ pc[t] \in SortLabels \cup {"remove", "sendStop", "stopBox"} =>
         box[inst[t]] \notin {"none", "launched"}
    /\ t \in Watchers /\ (pc[t] = "deleting" \/ op[t] = "delete") =>
         \A k \in Registered : Settled(k)

StopInv == Stopped /\ BoxOK

LEMMA InitStopInv == Init => StopInv
  BY ConstantsAssumption DEF Init, StopInv, Stopped, BoxOK, Registered, SortLabels

(* A step that neither touches the wrappers nor takes a Delete off one.     *)
LEMMA StoppedKept ==
  ASSUME Stopped, UNCHANGED <<servers, poller, stop, box>>,
         \A u \in Threads, i \in Insts :
           (WillStop(u, i) => WillStop(u, i)') /\ (WillCancel(u, i) => WillCancel(u, i)')
  PROVE  Stopped'
  BY DEF Stopped

LEMMA StepStopInv ==
  OneWriter /\ TypeInv /\ PollInv /\ StopInv /\ [Next]_vars => StopInv'
<1> SUFFICES ASSUME OneWriter, TypeInv, PollInv, StopInv, [Next]_vars PROVE StopInv'
  OBVIOUS
<1> USE ConstantsAssumption
<1> USE DEF PollInv, StopInv, TypeInv, TypeOK, LabelsOK, ThreadLabels, SortLabels, At, Goto, Registered,
            frameVars, listVars, wrapVars, pollVars, scanVars, pushVars, Settled, Writes
<1>a. \A t, u \in Threads : Writes(t) /\ Writes(u) => t = u
  BY SameWriter
<1>b. \A t, u \in Watchers \cup Editors : t = u
  BY DEF OneWriter
<1>1. ASSUME NEW t \in Threads, SortSnapshot(t) PROVE StopInv'
  <2>k. \A u \in Threads, i \in Insts :
           (WillStop(u, i) => WillStop(u, i)') /\ (WillCancel(u, i) => WillCancel(u, i)')
    BY <1>1 DEF SortSnapshot, WillStop, WillCancel
  <2>1. Stopped'
    BY <1>1, <2>k, StoppedKept DEF SortSnapshot
  <2>2. BoxOK'
    BY <1>1 DEF SortSnapshot, BoxOK
  <2> QED
    BY <2>1, <2>2
<1>2. ASSUME NEW t \in Threads, SortLen(t) PROVE StopInv'
  <2>a. IsFiniteSet(Registered)
    BY FS_Subset
  <2>b. Cardinality(Registered) \in Nat
    BY <2>a, FS_CardinalityType
  <2>c. Writes(t) => Cardinality(snap[t]) <= Cardinality(Registered) /\ Cardinality(snap[t]) \in Nat
    BY <1>2, <2>a, FS_Subset, FS_CardinalityType DEF SortLen, WriterOK
  <2>d. Writes(t) => Goto(t, "sortStore") /\ UNCHANGED <<frameVars, snap>>
    BY <1>2, <2>b, <2>c DEF SortLen
  <2>k. \A u \in Threads, i \in Insts :
           (WillStop(u, i) => WillStop(u, i)') /\ (WillCancel(u, i) => WillCancel(u, i)')
    BY <1>2, <2>d DEF SortLen, Panic, WillStop, WillCancel
  <2>1. Stopped'
    BY <1>2, <2>k, StoppedKept DEF SortLen
  <2>2. BoxOK'
    BY <1>2, <2>d DEF SortLen, Panic, BoxOK
  <2> QED
    BY <2>1, <2>2
<1>3. ASSUME NEW t \in Threads, SortStore(t) PROVE StopInv'
  <2>k. \A u \in Threads, i \in Insts :
           (WillStop(u, i) => WillStop(u, i)') /\ (WillCancel(u, i) => WillCancel(u, i)')
    BY <1>3 DEF SortStore, WillStop, WillCancel
  <2>1. Stopped'
    BY <1>3, <2>k, StoppedKept DEF SortStore
  <2>2. BoxOK'
    BY <1>3 DEF SortStore, BoxOK
  <2> QED
    BY <2>1, <2>2
<1>4. ASSUME NEW t \in Threads, TagKeys(t) PROVE StopInv'
  <2>k. \A u \in Threads, i \in Insts :
           (WillStop(u, i) => WillStop(u, i)') /\ (WillCancel(u, i) => WillCancel(u, i)')
    BY <1>4 DEF TagKeys, WillStop, WillCancel
  <2>1. Stopped'
    BY <1>4, <2>k, StoppedKept DEF TagKeys
  <2>2. BoxOK'
    BY <1>4 DEF TagKeys, BoxOK
  <2> QED
    BY <2>1, <2>2
<1>5. ASSUME NEW t \in Threads, NEW k \in Keys, TagScan(t, k) PROVE StopInv'
  <2>k. \A u \in Threads, i \in Insts :
           (WillStop(u, i) => WillStop(u, i)') /\ (WillCancel(u, i) => WillCancel(u, i)')
    BY <1>5 DEF TagScan, WillStop, WillCancel
  <2>1. Stopped'
    BY <1>5, <2>k, StoppedKept DEF TagScan
  <2>2. BoxOK'
    BY <1>5 DEF TagScan, BoxOK
  <2> QED
    BY <2>1, <2>2
<1>6. ASSUME NEW t \in Threads, TagStore(t) PROVE StopInv'
  <2>k. \A u \in Threads, i \in Insts :
           (WillStop(u, i) => WillStop(u, i)') /\ (WillCancel(u, i) => WillCancel(u, i)')
    BY <1>6 DEF TagStore, Return, WillStop, WillCancel
  <2>1. Stopped'
    BY <1>6, <2>k, StoppedKept DEF TagStore
  <2>2. BoxOK'
    BY <1>6 DEF TagStore, Return, Home, BoxOK
  <2> QED
    BY <2>1, <2>2
<1>7. ASSUME NEW t \in Threads, BatchTick(t) PROVE StopInv'
  <2>k. \A u \in Threads, i \in Insts :
           (WillStop(u, i) => WillStop(u, i)') /\ (WillCancel(u, i) => WillCancel(u, i)')
    BY <1>7 DEF BatchTick, WillStop, WillCancel
  <2>1. Stopped'
    BY <1>7, <2>k, StoppedKept DEF BatchTick
  <2>2. BoxOK'
    BY <1>7 DEF BatchTick, BoxOK
  <2> QED
    BY <2>1, <2>2
<1>8. ASSUME NEW t \in Threads, DeleteLookup(t) PROVE StopInv'
  <2>k. \A u \in Threads, i \in Insts :
           (WillStop(u, i) => WillStop(u, i)') /\ (WillCancel(u, i) => WillCancel(u, i)')
    BY <1>8 DEF DeleteLookup, Return, WillStop, WillCancel
  <2>1. Stopped'
    BY <1>8, <2>k, StoppedKept DEF DeleteLookup
  <2>2. BoxOK'
    BY <1>8 DEF DeleteLookup, Return, Home, BoxOK
  <2> QED
    BY <2>1, <2>2
<1>9. ASSUME NEW t \in Threads, DeleteRemove(t) PROVE StopInv'
  <2>1. Stopped'
    BY <1>9 DEF DeleteRemove, Stopped, WillStop, WillCancel, WriterOK
  <2>2. BoxOK'
    BY <1>9, <1>a DEF DeleteRemove, BoxOK
  <2> QED
    BY <2>1, <2>2
<1>10. ASSUME NEW t \in Threads, SendStop(t) PROVE StopInv'
  <2>1. Stopped'
    BY <1>10 DEF SendStop, Stopped, WillStop, WillCancel
  <2>2. BoxOK'
    BY <1>10 DEF SendStop, BoxOK
  <2> QED
    BY <2>1, <2>2
<1>11. ASSUME NEW t \in Threads, StopBox(t) PROVE StopInv'
  <2>e. box[inst[t]] \notin {"none", "launched"} /\ inst[t] \in Insts /\ op[t] = "delete"
    BY <1>11 DEF StopBox, BoxOK
  <2>f. /\ box' = [box EXCEPT ![inst[t]] = IF @ = "up" THEN "cancelled" ELSE @]
        /\ UNCHANGED <<servers, poller, stop>>
    BY <1>11, <2>e DEF StopBox
  <2>g. \A u \in Threads \ {t} : pc'[u] = pc[u] /\ op'[u] = op[u] /\ inst'[u] = inst[u]
    BY <1>11, <2>e DEF StopBox, Return
  <2>h. \A u \in Threads, i \in Insts : WillStop(u, i) => WillStop(u, i)'
    BY <1>11, <2>g DEF StopBox, WillStop
  <2>i. \A u \in Threads, i \in Insts :
          WillCancel(u, i) => WillCancel(u, i)' \/ i = inst[t]
    BY <2>g DEF WillCancel
  <2>j. \A i \in Insts : /\ box'[i] \in {"launched", "up"} => box[i] \in {"launched", "up"}
                         /\ box'[i] \in {"launched", "up"} => i # inst[t]
    BY <2>e, <2>f
  <2>1. Stopped'
    BY <2>f, <2>h, <2>i, <2>j DEF Stopped
  <2>2. BoxOK'
    BY <1>11 DEF StopBox, Return, Home, Panic, BoxOK
  <2> QED
    BY <2>1, <2>2
<1>12. ASSUME NEW t \in Threads, UpdateLookup(t) PROVE StopInv'
  <2>k. \A u \in Threads, i \in Insts :
           (WillStop(u, i) => WillStop(u, i)') /\ (WillCancel(u, i) => WillCancel(u, i)')
    BY <1>12 DEF UpdateLookup, Return, WillStop, WillCancel
  <2>1. Stopped'
    BY <1>12, <2>k, StoppedKept DEF UpdateLookup
  <2>2. BoxOK'
    BY <1>12 DEF UpdateLookup, Return, Home, BoxOK
  <2> QED
    BY <2>1, <2>2
<1>13. ASSUME NEW t \in Threads, UpdateFields(t) PROVE StopInv'
  <2>k. \A u \in Threads, i \in Insts :
           (WillStop(u, i) => WillStop(u, i)') /\ (WillCancel(u, i) => WillCancel(u, i)')
    BY <1>13 DEF UpdateFields, Return, WillStop, WillCancel
  <2>1. Stopped'
    BY <1>13, <2>k, StoppedKept DEF UpdateFields
  <2>2. BoxOK'
    BY <1>13 DEF UpdateFields, Return, Home, BoxOK
  <2> QED
    BY <2>1, <2>2
<1>14. ASSUME NEW t \in Threads, UpdateConnString(t) PROVE StopInv'
  <2>k. \A u \in Threads, i \in Insts :
           (WillStop(u, i) => WillStop(u, i)') /\ (WillCancel(u, i) => WillCancel(u, i)')
    BY <1>14 DEF UpdateConnString, WillStop, WillCancel
  <2>1. Stopped'
    BY <1>14, <2>k, StoppedKept DEF UpdateConnString
  <2>2. BoxOK'
    BY <1>14 DEF UpdateConnString, BoxOK
  <2> QED
    BY <2>1, <2>2
<1>15. ASSUME NEW t \in Threads, AddBuild(t) PROVE StopInv'
  <2>c. ASSUME conf[t].login \notin GoodLogins PROVE Stopped'
    <3>1. \A u \in Threads, i \in Insts :
           (WillStop(u, i) => WillStop(u, i)') /\ (WillCancel(u, i) => WillCancel(u, i)')
      BY <1>15, <2>c DEF AddBuild, Return, WillStop, WillCancel
    <3>2. UNCHANGED pollVars /\ UNCHANGED box /\ UNCHANGED listVars
      BY <1>15, <2>c DEF AddBuild
    <3>3. UNCHANGED <<servers, poller, stop, box>>
      BY <3>2
    <3> QED
      BY <3>1, <3>3, StoppedKept
  <2>d. ASSUME conf[t].login \in GoodLogins PROVE Stopped'
    <3>1. PICK j \in Insts : /\ inst' = [inst EXCEPT ![t] = j]
                            /\ poller' = [poller EXCEPT ![j] = "none"]
                            /\ stop' = [stop EXCEPT ![j] = FALSE]
                            /\ box' = [box EXCEPT ![j] = "none"]
      BY <1>15, <2>d DEF AddBuild
    <3>2. Goto(t, "publish") /\ UNCHANGED <<servers, op>>
      BY <1>15, <2>d DEF AddBuild
    <3>3. \A u \in Threads, i \in Insts :
           (WillStop(u, i) => WillStop(u, i)') /\ (WillCancel(u, i) => WillCancel(u, i)')
      <4>1. op[t] = "add"
        BY <1>15 DEF AddBuild
      <4>2. \A u \in Threads \ {t} : pc'[u] = pc[u] /\ op'[u] = op[u] /\ inst'[u] = inst[u]
        BY <3>1, <3>2
      <4> QED
        BY <4>1, <4>2 DEF WillStop, WillCancel
    <3>4. /\ poller'[j] = "none" /\ box'[j] = "none"
          /\ \A i \in Insts \ {j} : poller'[i] = poller[i] /\ (stop[i] => stop'[i]) /\ box'[i] = box[i]
      BY <3>1
    <3>5. \A i \in Insts : (\A k \in Keys : servers'[k] # i) <=> (\A k \in Keys : servers[k] # i)
      BY <3>2
    <3>6. ASSUME NEW i \in Insts, \A k \in Keys : servers'[k] # i, i # j
          PROVE  /\ poller'[i] = "running" => stop'[i] \/ \E u \in Threads : WillStop(u, i)'
                 /\ box'[i] \in {"launched", "up"} => \E u \in Threads : WillCancel(u, i)'
      BY <3>3, <3>4, <3>5, <3>6 DEF Stopped
    <3>7. ASSUME NEW i \in Insts, i = j
          PROVE  /\ poller'[i] = "running" => stop'[i] \/ \E u \in Threads : WillStop(u, i)'
                 /\ box'[i] \in {"launched", "up"} => \E u \in Threads : WillCancel(u, i)'
      BY <3>4, <3>7
    <3>8. \A i \in Insts : (\A k \in Keys : servers'[k] # i) =>
             /\ poller'[i] = "running" => stop'[i] \/ \E u \in Threads : WillStop(u, i)'
             /\ box'[i] \in {"launched", "up"} => \E u \in Threads : WillCancel(u, i)'
      BY <3>6, <3>7
    <3> QED
      BY <3>8 DEF Stopped
  <2>1. Stopped'
    BY <2>c, <2>d
  <2>2. BoxOK'
    BY <1>15 DEF AddBuild, Free, Return, Home, BoxOK
  <2> QED
    BY <2>1, <2>2
<1>16. ASSUME NEW t \in Threads, AddPublish(t) PROVE StopInv'
  <2>1. Stopped'
    BY <1>16 DEF AddPublish, Stopped, WillStop, WillCancel, BoxOK
  <2>2. BoxOK'
    BY <1>16, <1>b DEF AddPublish, BoxOK, WriterOK
  <2> QED
    BY <2>1, <2>2
<1>17. ASSUME NEW t \in Threads, AddLaunch(t) PROVE StopInv'
  <2>1. Stopped'
    BY <1>17 DEF AddLaunch, Stopped, WillStop, WillCancel, WriterOK
  <2>2. BoxOK'
    BY <1>17 DEF AddLaunch, BoxOK, WriterOK
  <2> QED
    BY <2>1, <2>2
<1>18. ASSUME NEW t \in Threads, AddStartBox(t) PROVE StopInv'
  <2>1. Stopped'
    BY <1>18 DEF AddStartBox, Return, Stopped, WillStop, WillCancel, BoxOK
  <2>2. BoxOK'
    BY <1>18, <1>b DEF AddStartBox, Return, Home, BoxOK, WriterOK
  <2> QED
    BY <2>1, <2>2
<1>19. ASSUME NEW t \in Threads, NEW c \in Configs, ReloadBegin(t, c) PROVE StopInv'
  <2>k. \A u \in Threads, i \in Insts :
           (WillStop(u, i) => WillStop(u, i)') /\ (WillCancel(u, i) => WillCancel(u, i)')
    BY <1>19 DEF ReloadBegin, WillStop, WillCancel
  <2>1. Stopped'
    BY <1>19, <2>k, StoppedKept DEF ReloadBegin
  <2>2. BoxOK'
    BY <1>19 DEF ReloadBegin, BoxOK
  <2> QED
    BY <2>1, <2>2
<1>20. ASSUME NEW t \in Threads, NEW k \in Keys, ReloadDelete(t, k) PROVE StopInv'
  <2>k. \A u \in Threads, i \in Insts :
           (WillStop(u, i) => WillStop(u, i)') /\ (WillCancel(u, i) => WillCancel(u, i)')
    BY <1>20 DEF ReloadDelete, WillStop, WillCancel
  <2>1. Stopped'
    BY <1>20, <2>k, StoppedKept DEF ReloadDelete
  <2>2. BoxOK'
    BY <1>20 DEF ReloadDelete, BoxOK, PushOK
  <2> QED
    BY <2>1, <2>2
<1>21. ASSUME NEW t \in Threads, ReloadDeleted(t) PROVE StopInv'
  <2>k. \A u \in Threads, i \in Insts :
           (WillStop(u, i) => WillStop(u, i)') /\ (WillCancel(u, i) => WillCancel(u, i)')
    BY <1>21 DEF ReloadDeleted, WillStop, WillCancel
  <2>1. Stopped'
    BY <1>21, <2>k, StoppedKept DEF ReloadDeleted
  <2>2. BoxOK'
    BY <1>21 DEF ReloadDeleted, BoxOK
  <2> QED
    BY <2>1, <2>2
<1>22. ASSUME NEW t \in Threads, NEW k \in Keys, ReloadApply(t, k) PROVE StopInv'
  <2>k. \A u \in Threads, i \in Insts :
           (WillStop(u, i) => WillStop(u, i)') /\ (WillCancel(u, i) => WillCancel(u, i)')
    BY <1>22 DEF ReloadApply, WillStop, WillCancel
  <2>1. Stopped'
    BY <1>22, <2>k, StoppedKept DEF ReloadApply
  <2>2. BoxOK'
    BY <1>22 DEF ReloadApply, BoxOK
  <2> QED
    BY <2>1, <2>2
<1>23. ASSUME NEW t \in Threads, ReloadEnd(t) PROVE StopInv'
  <2>k. \A u \in Threads, i \in Insts :
           (WillStop(u, i) => WillStop(u, i)') /\ (WillCancel(u, i) => WillCancel(u, i)')
    BY <1>23 DEF ReloadEnd, WillStop, WillCancel
  <2>1. Stopped'
    BY <1>23, <2>k, StoppedKept DEF ReloadEnd
  <2>2. BoxOK'
    BY <1>23 DEF ReloadEnd, BoxOK
  <2> QED
    BY <2>1, <2>2
<1>24. ASSUME NEW t \in Threads, NEW k \in Keys, NEW c \in Confs, AddRequest(t, k, c) PROVE StopInv'
  <2>k. \A u \in Threads, i \in Insts :
           (WillStop(u, i) => WillStop(u, i)') /\ (WillCancel(u, i) => WillCancel(u, i)')
    BY <1>24 DEF AddRequest, Request, WillStop, WillCancel
  <2>1. Stopped'
    BY <1>24, <2>k, StoppedKept DEF AddRequest, Request
  <2>2. BoxOK'
    BY <1>24 DEF AddRequest, Request, NewKey, BoxOK
  <2> QED
    BY <2>1, <2>2
<1>25. ASSUME NEW t \in Threads, NEW k \in Keys, NEW c \in Confs, EditRequest(t, k, c) PROVE StopInv'
  <2>k. \A u \in Threads, i \in Insts :
           (WillStop(u, i) => WillStop(u, i)') /\ (WillCancel(u, i) => WillCancel(u, i)')
    BY <1>25 DEF EditRequest, Request, WillStop, WillCancel
  <2>1. Stopped'
    BY <1>25, <2>k, StoppedKept DEF EditRequest, Request
  <2>2. BoxOK'
    BY <1>25 DEF EditRequest, Request, BoxOK
  <2> QED
    BY <2>1, <2>2
<1>26. ASSUME NEW t \in Threads, NEW k \in Keys, DeleteRequest(t, k) PROVE StopInv'
  <2>k. \A u \in Threads, i \in Insts :
           (WillStop(u, i) => WillStop(u, i)') /\ (WillCancel(u, i) => WillCancel(u, i)')
    BY <1>26 DEF DeleteRequest, Request, WillStop, WillCancel
  <2>1. Stopped'
    BY <1>26, <2>k, StoppedKept DEF DeleteRequest, Request
  <2>2. BoxOK'
    BY <1>26 DEF DeleteRequest, Request, BoxOK
  <2> QED
    BY <2>1, <2>2
<1>27. ASSUME NEW t \in Threads, NEW n \in Names, TagPageLookup(t, n) PROVE StopInv'
  <2>k. \A u \in Threads, i \in Insts :
           (WillStop(u, i) => WillStop(u, i)') /\ (WillCancel(u, i) => WillCancel(u, i)')
    BY <1>27 DEF TagPageLookup, WillStop, WillCancel
  <2>1. Stopped'
    BY <1>27, <2>k, StoppedKept DEF TagPageLookup
  <2>2. BoxOK'
    BY <1>27 DEF TagPageLookup, BoxOK
  <2> QED
    BY <2>1, <2>2
<1>28. ASSUME NEW t \in Threads, TagPageCopy(t) PROVE StopInv'
  <2>k. \A u \in Threads, i \in Insts :
           (WillStop(u, i) => WillStop(u, i)') /\ (WillCancel(u, i) => WillCancel(u, i)')
    BY <1>28 DEF TagPageCopy, WillStop, WillCancel
  <2>1. Stopped'
    BY <1>28, <2>k, StoppedKept DEF TagPageCopy
  <2>2. BoxOK'
    BY <1>28 DEF TagPageCopy, BoxOK
  <2> QED
    BY <2>1, <2>2
<1>29. ASSUME NEW i \in Insts, PollStop(i) PROVE StopInv'
  <2>1. Stopped'
    BY <1>29 DEF PollStop, Stopped, WillStop, WillCancel
  <2>2. BoxOK'
    BY <1>29 DEF PollStop, BoxOK
  <2> QED
    BY <2>1, <2>2
<1>30. ASSUME NEW i \in Insts, BoxUp(i) PROVE StopInv'
  <2>1. Stopped'
    BY <1>30 DEF BoxUp, Stopped, WillStop, WillCancel
  <2>2. BoxOK'
    BY <1>30 DEF BoxUp, BoxOK
  <2> QED
    BY <2>1, <2>2
<1>31. ASSUME NEW i \in Insts, BoxExit(i) PROVE StopInv'
  <2>1. Stopped'
    BY <1>31 DEF BoxExit, Stopped, WillStop, WillCancel
  <2>2. BoxOK'
    BY <1>31 DEF BoxExit, BoxOK
  <2> QED
    BY <2>1, <2>2
<1>32. CASE UNCHANGED vars
  BY <1>32 DEF vars, Stopped, WillStop, WillCancel, BoxOK
<1> QED
  BY <1>1, <1>2, <1>3, <1>4, <1>5, <1>6, <1>7, <1>8, <1>9, <1>10, <1>11, <1>12, <1>13, <1>14, <1>15, <1>16, <1>17, <1>18, <1>19, <1>20, <1>21, <1>22, <1>23, <1>24, <1>25, <1>26, <1>27, <1>28, <1>29, <1>30, <1>31, <1>32 DEF Next, ListStep, Arrival, ServerStep

(* With one writer, Delete removes a server from polling: no poller and no  *)
(* WaitBox outlives the wrapper's place in the list and the operation that  *)
(* removed it, without a stop sent and the box's context cancelled.         *)
THEOREM StoppingCorrect == OneWriter => (Spec => []DeletedIsStopped)
<1> SUFFICES ASSUME OneWriter PROVE Spec => []DeletedIsStopped
  OBVIOUS
<1>1. Spec => []TypeInv
  BY InitTypeInv, StepTypeInv, PTL DEF Spec
<1>2. TypeInv /\ PollInv /\ [Next]_vars => PollInv'
  BY StepPollInv
<1>3. TypeInv /\ PollInv /\ StopInv /\ [Next]_vars => StopInv'
  BY StepStopInv
<1>4. TypeInv /\ StopInv => DeletedIsStopped
  BY ConstantsAssumption DEF TypeInv, TypeOK, StopInv, Stopped, DeletedIsStopped, WillStop, WillCancel, Handled
<1> QED
  BY InitPollInv, InitStopInv, <1>1, <1>2, <1>3, <1>4, PTL DEF Spec

-----------------------------------------------------------------------------
(* ReloadApplied.  In FILE mode the watcher is the only writer of the list. *)

(* Entry k of the configuration that thread t is applying is in the list    *)
(* with its settings, or could not be added.                                *)
Applied(t, k) ==
  /\ config[t][k].login \in GoodLogins => k \in Registered
  /\ k \in Registered => name[servers[k]] = config[t][k].name

(* The first loop: a registered server is in the files, or its delete is    *)
(* still to come or has yet to take it off the list.                        *)
DeletesOK(t) ==
  pc[t] = "deleting" \/ op[t] = "delete" =>
    /\ todo[t] \cap DOMAIN config[t] = {}
    /\ op[t] = "delete" => arg[t] \notin DOMAIN config[t]
    /\ \A k \in Registered :
         \/ k \in DOMAIN config[t] \cup todo[t]
         \/ /\ pc[t] \in {"lookup", "remove"}
            /\ k = arg[t]

(* The second loop: only servers of the files are registered, and an entry  *)
(* is applied unless it is still to do or at work.                          *)
AppliesOK(t) ==
  pc[t] = "applying" \/ op[t] \in {"add", "update"} =>
    /\ Registered \subseteq DOMAIN config[t]
    /\ \A k \in DOMAIN config[t] \ todo[t] :
         Applied(t, k) \/ (op[t] \in {"add", "update"} /\ k = arg[t])

(* The entry at work: what its operation has done to the wrapper.           *)
EntryOK(t) ==
  /\ op[t] \in {"add", "update"} => arg[t] \in DOMAIN config[t] /\ conf[t] = config[t][arg[t]]
  /\ op[t] = "update" => arg[t] \in Registered
  /\ op[t] = "update" /\ pc[t] # "lookup" => inst[t] = servers[arg[t]]
  /\ op[t] = "update" /\ pc[t] \notin {"lookup", "fields"} => name[inst[t]] = conf[t].name
  /\ op[t] = "add" /\ pc[t] # "build" => name[inst[t]] = conf[t].name

ReloadOK(t) == DeletesOK(t) /\ AppliesOK(t) /\ EntryOK(t)

ReloadInv == \A t \in Watchers : ReloadOK(t)

LEMMA InitReloadInv == Init => ReloadInv
  BY ConstantsAssumption DEF Init, ReloadInv, ReloadOK, DeletesOK, AppliesOK, EntryOK, Threads

(* A step of another thread that changes no server.                         *)
LEMMA ReloadKept ==
  ASSUME NEW w \in Watchers, ReloadOK(w), UNCHANGED <<servers, name>>,
         pc'[w] = pc[w], op'[w] = op[w], arg'[w] = arg[w], conf'[w] = conf[w],
         inst'[w] = inst[w], config'[w] = config[w], todo'[w] = todo[w]
  PROVE  ReloadOK(w)'
  BY DEF ReloadOK, DeletesOK, AppliesOK, EntryOK, Applied, Registered


LEMMA StepReloadInv ==
  OneWriter /\ TypeInv /\ PollInv /\ StopInv /\ ReloadInv /\ [Next]_vars => ReloadInv'
<1> SUFFICES ASSUME OneWriter, TypeInv, PollInv, StopInv, ReloadInv, [Next]_vars,
                    NEW w \in Watchers
             PROVE  ReloadOK(w)'
  BY DEF ReloadInv
<1> USE ConstantsAssumption
<1> USE DEF PollInv, StopInv, TypeInv, TypeOK, LabelsOK, ThreadLabels, SortLabels, At, Goto, Registered,
            frameVars, listVars, wrapVars, pollVars, scanVars, pushVars
<1>r. ReloadOK(w) /\ w \in Threads
  BY DEF ReloadInv, Threads
<1>a. \A t \in Threads : Writes(t) => t = w
  BY DEF OneWriter, WriterOK
<1>b. \A t \in Watchers : t = w
  BY DEF OneWriter
<1>c. Editors = {}
  BY DEF OneWriter
<1>1. ASSUME NEW t \in Threads, SortSnapshot(t) PROVE ReloadOK(w)'
  <2>1. CASE t # w
    BY <1>1, <2>1, <1>r, ReloadKept DEF SortSnapshot
  <2>2. CASE t = w
    BY <1>1, <2>2, <1>r DEF SortSnapshot, ReloadOK, DeletesOK, AppliesOK, EntryOK, Applied
  <2> QED
    BY <2>1, <2>2
<1>2. ASSUME NEW t \in Threads, SortLen(t) PROVE ReloadOK(w)'
  <2>1. CASE t # w
    <3>1. UNCHANGED <<servers, name, config, todo>>
      BY <1>2 DEF SortLen
    <3>2. pc'[w] = pc[w] /\ op'[w] = op[w] /\ arg'[w] = arg[w]
      BY <1>2, <2>1, <1>r DEF SortLen, Panic
    <3>3. conf'[w] = conf[w] /\ inst'[w] = inst[w]
      BY <1>2, <2>1, <1>r DEF SortLen, Panic
    <3> QED
      BY <3>1, <3>2, <3>3, <1>r, ReloadKept
  <2>2. CASE t = w
    BY <1>2, <2>2, <1>r DEF SortLen, Panic, ReloadOK, DeletesOK, AppliesOK, EntryOK, Applied
  <2> QED
    BY <2>1, <2>2
<1>3. ASSUME NEW t \in Threads, SortStore(t) PROVE ReloadOK(w)'
  <2>1. CASE t # w
    BY <1>3, <2>1, <1>r, ReloadKept DEF SortStore
  <2>2. CASE t = w
    BY <1>3, <2>2, <1>r DEF SortStore, ReloadOK, DeletesOK, AppliesOK, EntryOK, Applied
  <2> QED
    BY <2>1, <2>2
<1>4. ASSUME NEW t \in Threads, TagKeys(t) PROVE ReloadOK(w)'
  <2>1. CASE t # w
    BY <1>4, <2>1, <1>r, ReloadKept DEF TagKeys
  <2>2. CASE t = w
    BY <1>4, <2>2, <1>r DEF TagKeys, ReloadOK, DeletesOK, AppliesOK, EntryOK, Applied
  <2> QED
    BY <2>1, <2>2
<1>5. ASSUME NEW t \in Threads, NEW k \in Keys, TagScan(t, k) PROVE ReloadOK(w)'
  <2>1. CASE t # w
    BY <1>5, <2>1, <1>r, ReloadKept DEF TagScan
  <2>2. CASE t = w
    BY <1>5, <2>2, <1>r DEF TagScan, ReloadOK, DeletesOK, AppliesOK, EntryOK, Applied
  <2> QED
    BY <2>1, <2>2
<1>6. ASSUME NEW t \in Threads, TagStore(t) PROVE ReloadOK(w)'
  <2>1. CASE t # w
    <3>1. UNCHANGED <<servers, name, config, todo>>
      BY <1>6 DEF TagStore
    <3>2. pc'[w] = pc[w] /\ op'[w] = op[w] /\ arg'[w] = arg[w]
      BY <1>6, <2>1, <1>r DEF TagStore, Return
    <3>3. conf'[w] = conf[w] /\ inst'[w] = inst[w]
      BY <1>6, <2>1, <1>r DEF TagStore, Return
    <3> QED
      BY <3>1, <3>2, <3>3, <1>r, ReloadKept
  <2>2. CASE t = w
    BY <1>6, <2>2, <1>r DEF TagStore, Return, Home, ReloadOK, DeletesOK, AppliesOK, EntryOK, Applied
  <2> QED
    BY <2>1, <2>2
<1>7. ASSUME NEW t \in Threads, BatchTick(t) PROVE ReloadOK(w)'
  BY <1>7, <1>r, ReloadKept DEF BatchTick
<1>8. ASSUME NEW t \in Threads, DeleteLookup(t) PROVE ReloadOK(w)'
  <2>1. t = w
    BY <1>8, <1>a DEF Writes, DeleteLookup
  <2>2. DeletesOK(w)'
    BY <1>8, <1>r, <2>1 DEF DeleteLookup, Return, Home, ReloadOK, DeletesOK, AppliesOK, EntryOK, Applied
  <2>3. AppliesOK(w)'
    BY <1>8, <1>r, <2>1 DEF DeleteLookup, Return, Home, ReloadOK, DeletesOK, AppliesOK, EntryOK, Applied
  <2>4. EntryOK(w)'
    BY <1>8, <1>r, <2>1 DEF DeleteLookup, Return, Home, ReloadOK, DeletesOK, AppliesOK, EntryOK, Applied
  <2> QED
    BY <2>2, <2>3, <2>4 DEF ReloadOK
<1>9. ASSUME NEW t \in Threads, DeleteRemove(t) PROVE ReloadOK(w)'
  <2>1. t = w
    BY <1>9, <1>a DEF Writes, DeleteRemove
  <2>2. DeletesOK(w)'
    BY <1>9, <1>r, <2>1 DEF DeleteRemove, ReloadOK, DeletesOK, AppliesOK, EntryOK, Applied
  <2>3. AppliesOK(w)'
    BY <1>9, <1>r, <2>1 DEF DeleteRemove, ReloadOK, DeletesOK, AppliesOK, EntryOK, Applied
  <2>4. EntryOK(w)'
    BY <1>9, <1>r, <2>1 DEF DeleteRemove, ReloadOK, DeletesOK, AppliesOK, EntryOK, Applied
  <2> QED
    BY <2>2, <2>3, <2>4 DEF ReloadOK
<1>10. ASSUME NEW t \in Threads, SendStop(t) PROVE ReloadOK(w)'
  <2>1. t = w
    BY <1>10, <1>a DEF Writes, SendStop
  <2>2. DeletesOK(w)'
    BY <1>10, <1>r, <2>1 DEF SendStop, ReloadOK, DeletesOK, AppliesOK, EntryOK, Applied
  <2>3. AppliesOK(w)'
    BY <1>10, <1>r, <2>1 DEF SendStop, ReloadOK, DeletesOK, AppliesOK, EntryOK, Applied
  <2>4. EntryOK(w)'
    BY <1>10, <1>r, <2>1 DEF SendStop, ReloadOK, DeletesOK, AppliesOK, EntryOK, Applied
  <2> QED
    BY <2>2, <2>3, <2>4 DEF ReloadOK
<1>11. ASSUME NEW t \in Threads, StopBox(t) PROVE ReloadOK(w)'
  <2>1. t = w
    BY <1>11, <1>a DEF Writes, StopBox
  <2>2. DeletesOK(w)'
    BY <1>11, <1>r, <2>1 DEF StopBox, Return, Home, Panic, ReloadOK, DeletesOK, AppliesOK, EntryOK, Applied
  <2>3. AppliesOK(w)'
    BY <1>11, <1>r, <2>1 DEF StopBox, Return, Home, Panic, ReloadOK, DeletesOK, AppliesOK, EntryOK, Applied
  <2>4. EntryOK(w)'
    BY <1>11, <1>r, <2>1 DEF StopBox, Return, Home, Panic, ReloadOK, DeletesOK, AppliesOK, EntryOK, Applied
  <2> QED
    BY <2>2, <2>3, <2>4 DEF ReloadOK
<1>12. ASSUME NEW t \in Threads, UpdateLookup(t) PROVE ReloadOK(w)'
  <2>1. t = w
    BY <1>12, <1>a DEF Writes, UpdateLookup
  <2>2. DeletesOK(w)'
    BY <1>12, <1>r, <2>1 DEF UpdateLookup, Return, Home, ReloadOK, DeletesOK, AppliesOK, EntryOK, Applied
  <2>3. AppliesOK(w)'
    BY <1>12, <1>r, <2>1 DEF UpdateLookup, Return, Home, ReloadOK, DeletesOK, AppliesOK, EntryOK, Applied
  <2>4. EntryOK(w)'
    BY <1>12, <1>r, <2>1 DEF UpdateLookup, Return, Home, ReloadOK, DeletesOK, AppliesOK, EntryOK, Applied
  <2> QED
    BY <2>2, <2>3, <2>4 DEF ReloadOK
<1>13. ASSUME NEW t \in Threads, UpdateFields(t) PROVE ReloadOK(w)'
  <2>1. t = w
    BY <1>13, <1>a DEF Writes, UpdateFields
  <2>2. DeletesOK(w)'
    BY <1>13, <1>r, <2>1 DEF UpdateFields, Return, Home, ReloadOK, DeletesOK, AppliesOK, EntryOK, Applied
  <2>3. AppliesOK(w)'
    <3>1. /\ inst[w] = servers[arg[w]] /\ arg[w] \in Registered /\ op[w] = "update"
          /\ arg[w] \in DOMAIN config[w] /\ conf[w] = config[w][arg[w]] /\ pc[w] = "fields"
      BY <1>13, <1>r, <2>1 DEF UpdateFields, ReloadOK, EntryOK
    <3>2. UNCHANGED <<servers, config, todo>>
      BY <1>13 DEF UpdateFields
    <3>3. CASE name[inst[w]] = conf[w].name /\ Return(w) /\ UNCHANGED name
      BY <1>r, <3>1, <3>2, <3>3 DEF Return, Home, ReloadOK, AppliesOK, Applied
    <3>4. CASE /\ name' = [name EXCEPT ![inst[w]] = conf[w].name]
               /\ Goto(w, "connString") /\ UNCHANGED frameVars
      <4>1. \A k \in Registered : k # arg[w] => name'[servers[k]] = name[servers[k]]
        BY <3>1, <3>4 DEF Polled
      <4>2. \A k \in DOMAIN config[w] \ todo[w] : Applied(w, k) /\ k # arg[w] => Applied(w, k)'
        BY <3>2, <4>1 DEF Applied
      <4> QED
        BY <1>r, <3>1, <3>2, <3>4, <4>2 DEF ReloadOK, AppliesOK
    <3> QED
      BY <1>13, <2>1, <3>3, <3>4 DEF UpdateFields
  <2>4. EntryOK(w)'
    BY <1>13, <1>r, <2>1 DEF UpdateFields, Return, Home, ReloadOK, DeletesOK, AppliesOK, EntryOK, Applied
  <2> QED
    BY <2>2, <2>3, <2>4 DEF ReloadOK
<1>14. ASSUME NEW t \in Threads, UpdateConnString(t) PROVE ReloadOK(w)'
  <2>1. t = w
    BY <1>14, <1>a DEF Writes, UpdateConnString
  <2>2. DeletesOK(w)'
    BY <1>14, <1>r, <2>1 DEF UpdateConnString, ReloadOK, DeletesOK, AppliesOK, EntryOK, Applied
  <2>3. AppliesOK(w)'
    BY <1>14, <1>r, <2>1 DEF UpdateConnString, ReloadOK, DeletesOK, AppliesOK, EntryOK, Applied
  <2>4. EntryOK(w)'
    BY <1>14, <1>r, <2>1 DEF UpdateConnString, ReloadOK, DeletesOK, AppliesOK, EntryOK, Applied
  <2> QED
    BY <2>2, <2>3, <2>4 DEF ReloadOK
<1>15. ASSUME NEW t \in Threads, AddBuild(t) PROVE ReloadOK(w)'
  <2>1. t = w
    BY <1>15, <1>a DEF Writes, AddBuild
  <2>2. DeletesOK(w)'
    BY <1>15, <1>r, <2>1 DEF AddBuild, Return, Home, ReloadOK, DeletesOK, AppliesOK, EntryOK, Applied
  <2>3. AppliesOK(w)'
    <3>1. /\ servers[arg[w]] = NONE /\ op[w] = "add" /\ pc[w] = "build"
          /\ arg[w] \in DOMAIN config[w] /\ conf[w] = config[w][arg[w]]
      BY <1>15, <1>r, <2>1 DEF AddBuild, ReloadOK, EntryOK, BoxOK
    <3>2. UNCHANGED <<servers, config, todo>>
      BY <1>15 DEF AddBuild
    <3>3. CASE conf[w].login \notin GoodLogins
      <4>1. Return(w) /\ UNCHANGED name
        BY <1>15, <2>1, <3>3 DEF AddBuild
      <4> QED
        BY <1>r, <3>1, <3>2, <3>3, <4>1 DEF Return, Home, ReloadOK, AppliesOK, Applied
    <3>4. CASE conf[w].login \in GoodLogins
      <4>1. PICK i \in Insts : Free(i) /\ name' = [name EXCEPT ![i] = conf[w].name]
        BY <1>15, <2>1, <3>4 DEF AddBuild
      <4>2. \A k \in Registered : name'[servers[k]] = name[servers[k]]
        BY <4>1 DEF Free
      <4>3. Goto(w, "publish") /\ UNCHANGED <<op, arg>>
        BY <1>15, <2>1, <3>4 DEF AddBuild
      <4>4. \A k \in DOMAIN config[w] \ todo[w] : Applied(w, k) => Applied(w, k)'
        BY <3>2, <4>2 DEF Applied
      <4> QED
        BY <1>r, <3>1, <3>2, <4>3, <4>4 DEF ReloadOK, AppliesOK
    <3> QED
      BY <3>3, <3>4
  <2>4. EntryOK(w)'
    BY <1>15, <1>r, <2>1 DEF AddBuild, Return, Home, ReloadOK, DeletesOK, AppliesOK, EntryOK, Applied
  <2> QED
    BY <2>2, <2>3, <2>4 DEF ReloadOK
<1>16. ASSUME NEW t \in Threads, AddPublish(t) PROVE ReloadOK(w)'
  <2>1. t = w
    BY <1>16, <1>a DEF Writes, AddPublish
  <2>2. DeletesOK(w)'
    BY <1>16, <1>r, <2>1 DEF AddPublish, ReloadOK, DeletesOK, AppliesOK, EntryOK, Applied
  <2>3. AppliesOK(w)'
    BY <1>16, <1>r, <2>1 DEF AddPublish, ReloadOK, DeletesOK, AppliesOK, EntryOK, Applied
  <2>4. EntryOK(w)'
    BY <1>16, <1>r, <2>1 DEF AddPublish, ReloadOK, DeletesOK, AppliesOK, EntryOK, Applied
  <2> QED
    BY <2>2, <2>3, <2>4 DEF ReloadOK
<1>17. ASSUME NEW t \in Threads, AddLaunch(t) PROVE ReloadOK(w)'
  <2>1. t = w
    BY <1>17, <1>a DEF Writes, AddLaunch
  <2>2. DeletesOK(w)'
    BY <1>17, <1>r, <2>1 DEF AddLaunch, ReloadOK, DeletesOK, AppliesOK, EntryOK, Applied
  <2>3. AppliesOK(w)'
    BY <1>17, <1>r, <2>1 DEF AddLaunch, ReloadOK, DeletesOK, AppliesOK, EntryOK, Applied
  <2>4. EntryOK(w)'
    BY <1>17, <1>r, <2>1 DEF AddLaunch, ReloadOK, DeletesOK, AppliesOK, EntryOK, Applied
  <2> QED
    BY <2>2, <2>3, <2>4 DEF ReloadOK
<1>18. ASSUME NEW t \in Threads, AddStartBox(t) PROVE ReloadOK(w)'
  <2>1. t = w
    BY <1>18, <1>a DEF Writes, AddStartBox
  <2>2. DeletesOK(w)'
    BY <1>18, <1>r, <2>1 DEF AddStartBox, Return, Home, ReloadOK, DeletesOK, AppliesOK, EntryOK, Applied
  <2>3. AppliesOK(w)'
    <3>1. /\ servers[arg[w]] = inst[w] /\ op[w] = "add" /\ inst[w] \in Insts
          /\ name[inst[w]] = conf[w].name
          /\ arg[w] \in DOMAIN config[w] /\ conf[w] = config[w][arg[w]]
      BY <1>18, <1>r, <2>1 DEF AddStartBox, ReloadOK, EntryOK, BoxOK
    <3>2. arg[w] \in Registered /\ Applied(w, arg[w])
      BY <1>r, <3>1 DEF Applied
    <3>3. UNCHANGED <<servers, name, config, todo>> /\ Return(w)
      BY <1>18, <2>1 DEF AddStartBox
    <3>4. \A k \in DOMAIN config[w] : Applied(w, k) => Applied(w, k)'
      BY <3>3 DEF Applied
    <3> QED
      BY <1>r, <3>1, <3>2, <3>3, <3>4 DEF Return, Home, ReloadOK, AppliesOK
  <2>4. EntryOK(w)'
    BY <1>18, <1>r, <2>1 DEF AddStartBox, Return, Home, ReloadOK, DeletesOK, AppliesOK, EntryOK, Applied
  <2> QED
    BY <2>2, <2>3, <2>4 DEF ReloadOK
<1>19. ASSUME NEW t \in Threads, NEW c \in Configs, ReloadBegin(t, c) PROVE ReloadOK(w)'
  <2>1. t = w
    BY <1>19, <1>b DEF PushOK, ReloadBegin
  <2>2. DeletesOK(w)'
    BY <1>19, <1>r, <2>1 DEF ReloadBegin, ReloadOK, DeletesOK, AppliesOK, EntryOK, Applied
  <2>3. AppliesOK(w)'
    BY <1>19, <1>r, <2>1 DEF ReloadBegin, ReloadOK, DeletesOK, AppliesOK, EntryOK, Applied
  <2>4. EntryOK(w)'
    BY <1>19, <1>r, <2>1 DEF ReloadBegin, ReloadOK, DeletesOK, AppliesOK, EntryOK, Applied
  <2> QED
    BY <2>2, <2>3, <2>4 DEF ReloadOK
<1>20. ASSUME NEW t \in Threads, NEW k \in Keys, ReloadDelete(t, k) PROVE ReloadOK(w)'
  <2>1. t = w
    BY <1>20, <1>b DEF PushOK, ReloadDelete
  <2>2. DeletesOK(w)'
    BY <1>20, <1>r, <2>1 DEF ReloadDelete, ReloadOK, DeletesOK, AppliesOK, EntryOK, Applied
  <2>3. AppliesOK(w)'
    BY <1>20, <1>r, <2>1 DEF ReloadDelete, ReloadOK, DeletesOK, AppliesOK, EntryOK, Applied
  <2>4. EntryOK(w)'
    BY <1>20, <1>r, <2>1 DEF ReloadDelete, ReloadOK, DeletesOK, AppliesOK, EntryOK, Applied
  <2> QED
    BY <2>2, <2>3, <2>4 DEF ReloadOK
<1>21. ASSUME NEW t \in Threads, ReloadDeleted(t) PROVE ReloadOK(w)'
  <2>1. t = w
    BY <1>21, <1>b DEF PushOK, ReloadDeleted
  <2>2. DeletesOK(w)'
    BY <1>21, <1>r, <2>1 DEF ReloadDeleted, ReloadOK, DeletesOK, AppliesOK, EntryOK, Applied
  <2>3. AppliesOK(w)'
    BY <1>21, <1>r, <2>1 DEF ReloadDeleted, ReloadOK, DeletesOK, AppliesOK, EntryOK, Applied
  <2>4. EntryOK(w)'
    BY <1>21, <1>r, <2>1 DEF ReloadDeleted, ReloadOK, DeletesOK, AppliesOK, EntryOK, Applied
  <2> QED
    BY <2>2, <2>3, <2>4 DEF ReloadOK
<1>22. ASSUME NEW t \in Threads, NEW k \in Keys, ReloadApply(t, k) PROVE ReloadOK(w)'
  <2>1. t = w
    BY <1>22, <1>b DEF PushOK, ReloadApply
  <2>2. DeletesOK(w)'
    BY <1>22, <1>r, <2>1 DEF ReloadApply, ReloadOK, DeletesOK, AppliesOK, EntryOK, Applied
  <2>3. AppliesOK(w)'
    BY <1>22, <1>r, <2>1 DEF ReloadApply, ReloadOK, DeletesOK, AppliesOK, EntryOK, Applied
  <2>4. EntryOK(w)'
    <3>1. /\ w \in Watchers /\ config[w] \in Configs /\ todo[w] \subseteq DOMAIN config[w]
          /\ k \in todo[w] /\ op[w] = "none"
      BY <1>22, <2>1 DEF ReloadApply, PushOK
    <3>2. UNCHANGED <<servers, name, config, inst>>
      BY <1>22 DEF ReloadApply
    <3>3. CASE UNCHANGED <<pc, frameVars>>
      BY <3>1, <3>2, <3>3 DEF EntryOK
    <3>4. CASE /\ servers[k] = NONE /\ Goto(w, "build") /\ op' = [op EXCEPT ![w] = "add"]
               /\ arg' = [arg EXCEPT ![w] = k] /\ conf' = [conf EXCEPT ![w] = config[w][k]]
      BY <3>1, <3>2, <3>4 DEF EntryOK
    <3>5. CASE /\ servers[k] # NONE /\ Goto(w, "lookup") /\ op' = [op EXCEPT ![w] = "update"]
               /\ arg' = [arg EXCEPT ![w] = k] /\ conf' = [conf EXCEPT ![w] = config[w][k]]
      BY <3>1, <3>2, <3>5 DEF EntryOK
    <3> QED
      BY <1>22, <2>1, <3>3, <3>4, <3>5 DEF ReloadApply
  <2> QED
    BY <2>2, <2>3, <2>4 DEF ReloadOK
<1>23. ASSUME NEW t \in Threads, ReloadEnd(t) PROVE ReloadOK(w)'
  <2>1. t = w
    BY <1>23, <1>b DEF PushOK, ReloadEnd
  <2>2. DeletesOK(w)'
    BY <1>23, <1>r, <2>1 DEF ReloadEnd, ReloadOK, DeletesOK, AppliesOK, EntryOK, Applied
  <2>3. AppliesOK(w)'
    BY <1>23, <1>r, <2>1 DEF ReloadEnd, ReloadOK, DeletesOK, AppliesOK, EntryOK, Applied
  <2>4. EntryOK(w)'
    BY <1>23, <1>r, <2>1 DEF ReloadEnd, ReloadOK, DeletesOK, AppliesOK, EntryOK, Applied
  <2> QED
    BY <2>2, <2>3, <2>4 DEF ReloadOK
<1>24. ASSUME NEW t \in Threads, NEW k \in Keys, NEW c \in Confs, AddRequest(t, k, c) PROVE ReloadOK(w)'
  BY <1>24, <1>c DEF AddRequest, Request
<1>25. ASSUME NEW t \in Threads, NEW k \in Keys, NEW c \in Confs, EditRequest(t, k, c) PROVE ReloadOK(w)'
  BY <1>25, <1>c DEF EditRequest, Request
<1>26. ASSUME NEW t \in Threads, NEW k \in Keys, DeleteRequest(t, k) PROVE ReloadOK(w)'
  BY <1>26, <1>c DEF DeleteRequest, Request
<1>27. ASSUME NEW t \in Threads, NEW n \in Names, TagPageLookup(t, n) PROVE ReloadOK(w)'
  BY <1>27, <1>r, ReloadKept DEF TagPageLookup
<1>28. ASSUME NEW t \in Threads, TagPageCopy(t) PROVE ReloadOK(w)'
  <2>1. CASE t # w
    BY <1>28, <2>1, <1>r, ReloadKept DEF TagPageCopy
  <2>2. CASE t = w
    BY <1>28, <2>2, <1>r DEF TagPageCopy, ReloadOK, DeletesOK, AppliesOK, EntryOK, Applied
  <2> QED
    BY <2>1, <2>2
<1>29. ASSUME NEW i \in Insts, PollStop(i) PROVE ReloadOK(w)'
  BY <1>29, <1>r, ReloadKept DEF PollStop
<1>30. ASSUME NEW i \in Insts, BoxUp(i) PROVE ReloadOK(w)'
  BY <1>30, <1>r, ReloadKept DEF BoxUp
<1>31. ASSUME NEW i \in Insts, BoxExit(i) PROVE ReloadOK(w)'
  BY <1>31, <1>r, ReloadKept DEF BoxExit
<1>32. CASE UNCHANGED vars
  BY <1>32, <1>r, ReloadKept DEF vars
<1> QED
  BY <1>1, <1>2, <1>3, <1>4, <1>5, <1>6, <1>7, <1>8, <1>9, <1>10, <1>11, <1>12, <1>13, <1>14, <1>15, <1>16, <1>17, <1>18, <1>19, <1>20, <1>21, <1>22, <1>23, <1>24, <1>25, <1>26, <1>27, <1>28, <1>29, <1>30, <1>31, <1>32 DEF Next, ListStep, Arrival, ServerStep

(* When PushC2Servers is through, the list has the servers of the files     *)
(* under the names that the files give them, in every reachable state:      *)
(* whatever the batch ticker, the tag pages, the pollers and the boxes do   *)
(* between the critical sections of the watcher.  (Logins and connection    *)
(* strings may be older, see ReloadApplied.)                                *)
THEOREM ReloadCorrect == Spec => []ReloadApplied
<1>1. CASE Watchers = {}
  <2>1. ReloadApplied
    BY <1>1 DEF ReloadApplied
  <2> QED
    BY <2>1, PTL
<1>2. CASE Watchers # {}
  <2>1. OneWriter
    BY <1>2, ModeAssumption DEF OneWriter
  <2>2. Spec => []TypeInv
    BY InitTypeInv, StepTypeInv, PTL DEF Spec
  <2>3. TypeInv /\ PollInv /\ [Next]_vars => PollInv'
    BY <2>1, StepPollInv
  <2>4. TypeInv /\ PollInv /\ StopInv /\ [Next]_vars => StopInv'
    BY <2>1, StepStopInv
  <2>5. TypeInv /\ PollInv /\ StopInv /\ ReloadInv /\ [Next]_vars => ReloadInv'
    BY <2>1, StepReloadInv
  <2>6. TypeInv /\ ReloadInv => ReloadApplied
    BY ConstantsAssumption DEF TypeInv, LabelsOK, ReloadInv, ReloadOK, AppliesOK, Applied, ReloadApplied, Threads
  <2> QED
    BY InitPollInv, InitStopInv, InitReloadInv, <2>2, <2>3, <2>4, <2>5, <2>6, PTL DEF Spec
<1> QED
  BY <1>1, <1>2

===========================================================================
