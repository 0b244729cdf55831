----------------------------- MODULE MetricRing -----------------------------
(***************************************************************************)
(* One metric of one server: the poller, which works on a copy of the      *)
(* Metric it finds in the server's map and puts the copy back, the pages   *)
(* that draw it, and the cache file.                                       *)
(*                                                                         *)
(* A copy of a Metric shares its array with the one in the map.  The       *)
(* poller writes the array under the server's lock when a query failed     *)
(* and without it when the query succeeded.  ApiDisk reads with the        *)
(* read lock held; ApiCpu copies the Metric under it and reads after.      *)
(*                                                                         *)
(* An absent Metric is EmptyRing: one in the map is never empty.  No file  *)
(* is <<>>.                                                                *)
(***************************************************************************)
EXTENDS Ring

CONSTANTS
  Readings,  (* what queries return                                        *)
  UNPOLLED,  (* the value of a minute without a reading                    *)
  Pages      (* web requests                                               *)

Recorded == Readings \cup {UNPOLLED}

ASSUME RecordedAssumption == NIL \notin Recorded

VARIABLES
  stored,    (* the Metric in the map                                      *)
  buff,      (* its array                                                  *)
  copy,      (* the poller's copy: v of GetMetric, or s of GetCachedServer *)
  pc,        (* where the poller is                                        *)
  cache,     (* the values in the cache file                               *)
  page,      (* where a page is, whether it holds the read lock, its copy  *)
             (* of the header, what it read so far, and as history: what   *)
             (* the ring held when the header was stored, and how many     *)
             (* entries were written since                                 *)
  published  (* history: what the ring held when stored was assigned       *)

vars == <<stored, buff, copy, pc, cache, page, published>>

Closed == [pc |-> "closed", locks |-> FALSE, header |-> EmptyRing,
           series |-> <<>>, seen |-> <<>>, stale |-> 0]

Init ==
  /\ stored = EmptyRing /\ copy = EmptyRing
  /\ buff = FreshBuff
  /\ pc = "idle"
  /\ cache = <<>>
  /\ page = [p \in Pages |-> Closed]
  /\ published = <<>>

(* sync.RWMutex: a writer waits for the readers.  The sections in which    *)
(* the poller holds the write lock are single steps.                       *)
CanLock == \A p \in Pages : ~ page[p].locks

(***************************************************************************)
(* GetMetric                                                               *)
(***************************************************************************)

(* The array is made by the first Enqueue of a Metric that is not there. *)
GetCopy ==
  /\ pc = "idle"
  /\ copy' = stored
  /\ IF stored = EmptyRing
     THEN pc' = "filling" /\ buff' = FreshBuff
     ELSE pc' = "query" /\ UNCHANGED buff
  /\ UNCHANGED <<stored, cache, page, published>>

(* One round of the loop that fills a new Metric: METRIC_ARRAY_SIZE is the *)
(* capacity of the ring.                                                   *)
Fill ==
  /\ pc = "filling"
  /\ CanLock
  /\ buff' = Written(buff, copy, UNPOLLED)
  /\ copy' = Advanced(copy)
  /\ pc' = IF Size(copy') = Capacity THEN "query" ELSE "filling"
  /\ UNCHANGED <<stored, cache, page, published>>

(* History: an entry was written while the pages read. *)
Age ==
  page' = [p \in Pages |->
             IF page[p].pc = "reading" /\ page[p].stale < Capacity
             THEN [page[p] EXCEPT !.stale = @ + 1]
             ELSE page[p]]

Publish(header) ==
  /\ stored' = header
  /\ published' = Values(buff', header)

QueryFailsUnlocked ==
  /\ pc = "query"
  /\ buff' = Written(buff, copy, UNPOLLED)
  /\ Publish(Advanced(copy))
  /\ pc' = "idle"
  /\ Age
  /\ UNCHANGED <<copy, cache>>

QueryFails ==
  /\ pc = "query"
  /\ CanLock
  /\ buff' = Written(buff, copy, UNPOLLED)
  /\ Publish(Advanced(copy))
  /\ pc' = "idle"
  /\ Age
  /\ UNCHANGED <<copy, cache>>

QuerySucceeds(v) ==
  /\ pc = "query"
  /\ buff' = Written(buff, copy, v)
  /\ copy' = Advanced(copy)
  /\ pc' = "enqueued"
  /\ Age
  /\ UNCHANGED <<stored, cache, published>>

Store ==
  /\ pc = "enqueued"
  /\ CanLock
  /\ UNCHANGED buff
  /\ Publish(copy)
  /\ pc' = "idle"
  /\ UNCHANGED <<copy, cache, page>>

(***************************************************************************)
(* The cache: newpoll writes it after a big poll, in which every GetMetric *)
(* stored its Metric; GetCachedServer enqueues what it reads, before the   *)
(* server is in the list.                                                  *)
(***************************************************************************)
WriteCache ==
  /\ pc = "idle"
  /\ stored # EmptyRing
  /\ cache' = Values(buff, stored)
  /\ UNCHANGED <<stored, buff, copy, pc, page, published>>

(* IsItSQL ends anywhere and is started again; the file may be too old. *)
Start ==
  /\ stored' = EmptyRing /\ copy' = EmptyRing
  /\ buff' = FreshBuff
  /\ pc' \in IF cache = <<>> THEN {"idle"} ELSE {"idle", "loading"}
  /\ page' = [p \in Pages |-> Closed]
  /\ published' = <<>>
  /\ UNCHANGED cache

(* One round of the loop in UnmarshalJSON. *)
Load ==
  /\ pc = "loading"
  /\ Size(copy) < Len(cache)
  /\ buff' = Written(buff, copy, cache[Size(copy) + 1])
  /\ copy' = Advanced(copy)
  /\ UNCHANGED <<stored, pc, cache, page, published>>

Register ==
  /\ pc = "loading"
  /\ Size(copy) = Len(cache)
  /\ UNCHANGED buff
  /\ Publish(copy)
  /\ pc' = "idle"
  /\ UNCHANGED <<copy, cache, page>>

(***************************************************************************)
(* Pages                                                                   *)
(***************************************************************************)

(* A page takes the header under the read lock; locks says whether it      *)
(* keeps the lock.  A page of an absent Metric draws nothing.              *)
Open(p, locks) ==
  /\ pc # "loading"
  /\ page[p].pc = "closed"
  /\ stored # EmptyRing
  /\ page' = [page EXCEPT ![p] =
                [pc |-> "reading", locks |-> locks, header |-> stored,
                 series |-> <<>>, seen |-> published,
                 stale |-> IF pc = "enqueued" THEN 1 ELSE 0]]
  /\ UNCHANGED <<stored, buff, copy, pc, cache, published>>

ApiDisk(p) == Open(p, TRUE)
ApiCpu(p)  == Open(p, FALSE)

(* One round of the loop in Values, on the page's header and the array     *)
(* that everyone shares.                                                   *)
Read(p) ==
  LET pg   == page[p]
      i    == Len(pg.series)
      idx  == Slot(pg.header, i)
      last == idx = pg.header.head \/ i + 1 = Capacity
  IN  /\ pg.pc = "reading"
      /\ page' = [page EXCEPT
                    ![p].series = Append(@, buff[idx]),
                    ![p].pc     = IF last THEN "drawn" ELSE @]
      /\ UNCHANGED <<stored, buff, copy, pc, cache, published>>

(* RUnlock, if the page kept the lock, and the response.                   *)
Respond(p) ==
  /\ page[p].pc = "drawn"
  /\ page' = [page EXCEPT ![p] = Closed]
  /\ UNCHANGED <<stored, buff, copy, pc, cache, published>>

Poller == GetCopy \/ Fill \/ QueryFails \/ (\E v \in Readings : QuerySucceeds(v)) \/ Store
Cache  == WriteCache \/ Start \/ Load \/ Register
Page   == \E p \in Pages : ApiDisk(p) \/ ApiCpu(p) \/ Read(p) \/ Respond(p)

Next == Poller \/ Cache \/ Page

Spec == Init /\ [][Next]_vars

(***************************************************************************)
(* Properties                                                              *)
(***************************************************************************)
PageOK ==
  [pc: {"closed", "reading", "drawn"}, locks: BOOLEAN, header: Header,
   series: Seq(Recorded), seen: Seq(Recorded), stale: 0..Capacity]

(* Every variable has its type.  No page ever gets a nil entry, which it   *)
(* would dereference.                                                      *)
TypeOK ==
  /\ stored \in Header /\ copy \in Header
  /\ buff \in [Index -> Recorded \cup {NIL}]
  /\ pc \in {"idle", "filling", "query", "enqueued", "loading"}
  /\ cache \in Seq(Recorded)
  /\ page \in [Pages -> PageOK]
  /\ published \in Seq(Recorded)

(* What the poller has recorded: in GetMetric that is what its copy shows, *)
(* and while the cache is read, what the file says.                        *)
Window ==
  CASE pc = "idle"    -> Values(buff, stored)
    [] pc = "loading" -> cache
    [] OTHER          -> Values(buff, copy)

W == INSTANCE Window WITH window <- Window, saved <- cache

(* The ring, its sharing copies and the cache implement a window: every    *)
(* Enqueue of GetMetric is one Push, taking effect when the array is       *)
(* written, and storing the copy, filling a new Metric, UnmarshalJSON and  *)
(* a restart neither lose, repeat nor reorder a value (Enqueue and Values  *)
(* of metricvaluering.go with GetMetric, writeCache, GetCachedServer).     *)
IsWindow == W!Spec

(* A page draws as many entries as the ring held, and an enqueue replaces  *)
(* only the oldest of what the page has still to read: after n of them,    *)
(* what differs from the window is among the first n entries.              *)
OnlyOldestReplaced ==
  \A p \in Pages :
    LET pg == page[p]
    IN  /\ pg.pc = "drawn" => Len(pg.series) = Len(pg.seen)
        /\ \A i \in DOMAIN pg.series : i > pg.stale => pg.series[i] = pg.seen[i]

(* A page that holds the read lock while it reads (ApiDisk) gets the       *)
(* window except for at most its oldest entry: the poller cannot enqueue   *)
(* twice without taking the lock in between.                               *)
LockLimitsDamage ==
  \A p \in Pages :
    LET pg == page[p]
    IN  pg.locks => \A i \in DOMAIN pg.series : i > 1 => pg.series[i] = pg.seen[i]
=============================================================================
