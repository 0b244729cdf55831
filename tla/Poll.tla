-------------------------------- MODULE Poll --------------------------------
(***************************************************************************)
(* The polling of one server: PollRoutine, newpoll and getAllMetrics, the  *)
(* cache file that a big poll writes and AddFromSettings reads when        *)
(* IsItSQL starts again, and the SQL Server instance behind the name,      *)
(* which restarts and fails over to another instance.                      *)
(*                                                                         *)
(* The queries of a poll are grouped by what their failure leaves behind:  *)
(* open (resetDB), name (getName), info (getServerInfo and the first       *)
(* pollAG), conn (getConnectionInfo), sample (the accumulating GetMetrics, *)
(* PollWaits and getDiskIO, one at a time), rest (from pollBackups to      *)
(* getInstallDate), ip and ipStore (getIP), jobs (the agent's jobs).  A    *)
(* poll that takes longer than longPollThreshold returns an error after    *)
(* the query: the same as a failed query, with the query's effect.         *)
(*                                                                         *)
(* An instance is a server name with a start time: one that restarts is    *)
(* another instance.  Counters are left out: two samples differ, or not,   *)
(* and what matters is whether they are of one instance.  The instance     *)
(* changes between polls only: a change in the middle of a poll is not     *)
(* seen by that poll.                                                      *)
(***************************************************************************)
EXTENDS Naturals

CONSTANTS
  Instances,  (* instances the server's name can lead to                   *)
  NumAccs,    (* accumulators: Metrics, then the waits, then the disks'    *)
  LookupMayFail, (* the name server may not know the host                  *)
  NONE

ASSUME PollAssumption ==
  /\ NumAccs \in Nat \ {0, 1}
  /\ LookupMayFail \in BOOLEAN
  /\ NONE \notin Instances

Accs  == 1..NumAccs
Metrics == 1..(NumAccs - 2)

VARIABLES
  id,        (* SQL Server: the instance the name leads to                 *)
  up,        (* queries succeed                                            *)
  pc,        (* where PollRoutine is                                       *)
  quick,     (* forcequick of the poll in progress                         *)
  big,       (* getAllMetrics's first result                               *)
  failed,    (* its second result                                          *)
  next,      (* the accumulator to sample next                             *)
  isPolling, reset, known, due, lastError, (* of the wrapper: IsPolling,    *)
             (* ResetOnThisPoll, ServerName and StartTime, LastBigPoll is   *)
             (* 51 s ago, LastPollError # ""                                *)
  last,      (* of the wrapper: the instance each accumulator's newest     *)
             (* sample is of                                               *)
  mixed,     (* of the wrapper: the accumulators whose newest recorded     *)
             (* value is the difference of samples of two instances        *)
  leaked,    (* the wrapper is read-locked by a call that has returned     *)
  stop,      (* a value is buffered in the stop channel                    *)
  cache,     (* the cache file                                             *)
  clean      (* history: no query failed and IsItSQL was not restarted     *)

sqlVars  == <<id, up>>
pollVars == <<pc, quick, big, failed, next>>
wrapVars == <<isPolling, reset, known, due, lastError>>
dataVars == <<last, mixed>>
vars == <<sqlVars, pollVars, wrapVars, dataVars, leaked, stop, cache, clean>>

NoSamples == [a \in Accs |-> NONE]

InPoll ==
  pc \in {"open", "name", "info", "conn", "sample", "rest", "ip", "ipStore", "jobs", "done"}

(* A server nothing is cached of.                                          *)
Init ==
  /\ id \in Instances /\ up = TRUE
  /\ pc = "launched" /\ quick = FALSE /\ big = FALSE /\ failed = FALSE /\ next = 1
  /\ isPolling = FALSE /\ reset = FALSE /\ known = NONE /\ due = TRUE
  /\ lastError = FALSE
  /\ last = NoSamples /\ mixed = {}
  /\ leaked = FALSE /\ stop = FALSE
  /\ cache = NONE
  /\ clean = TRUE
-----------------------------------------------------------------------------
(* SQL Server                                                              *)

(* A restart, or a failover, between polls.                                *)
Switch(x) ==
  /\ x # id /\ ~InPoll
  /\ id' = x
  /\ UNCHANGED <<up, pollVars, wrapVars, dataVars, leaked, stop, cache, clean>>

Outage ==
  /\ up' = ~up
  /\ UNCHANGED <<id, pollVars, wrapVars, dataVars, leaked, stop, cache, clean>>

(* Time passes: LastBigPoll becomes 51 seconds old.                        *)
Age ==
  /\ ~due
  /\ due' = TRUE
  /\ UNCHANGED <<sqlVars, pollVars, isPolling, reset, known, lastError, dataVars, leaked, stop, cache, clean>>
-----------------------------------------------------------------------------
(* newpoll                                                                 *)

(* PollRoutine polls, naps up to 10 seconds, polls, and then at each tick  *)
(* of its select.                                                          *)
Awake == pc \in {"launched", "nap", "loop"}

(* Mutant: PollRoutine sleeps between polls and has no select.             *)
AfterPollNoSelect == "nap"
AfterPoll == IF quick THEN "nap" ELSE "loop"

(* "If we're already polling, don't start again"                           *)
BeginPoll ==
  /\ Awake
  /\ quick' = (pc = "launched")
  /\ IF isPolling
       THEN pc' = (IF pc = "launched" THEN "nap" ELSE "loop") /\ UNCHANGED <<isPolling, next>>
       ELSE pc' = "open" /\ isPolling' = TRUE /\ next' = 1
  /\ UNCHANGED <<sqlVars, big, failed, reset, known, due, lastError, dataVars, leaked, stop, cache, clean>>

(* A query fails, or ends the poll by its duration; getAllMetrics returns  *)
(* b and an error.                                                         *)
Fail(b) ==
  /\ ~up
  /\ pc' = "done" /\ failed' = TRUE /\ big' = b
  /\ clean' = FALSE
  /\ UNCHANGED <<sqlVars, quick, leaked, stop, cache>>

Pass(label) ==
  /\ pc' = label
  /\ UNCHANGED <<sqlVars, quick, failed, leaked, stop, cache, clean>>

OpenDB ==
  /\ pc = "open"
  /\ (Pass("name") \/ Fail(FALSE))
  /\ UNCHANGED <<big, next, wrapVars, dataVars>>

(* getName: a start time that changed on the same server, or another name. *)
GetName ==
  /\ pc = "name"
  /\ \/ /\ (Pass("info") \/ Fail(FALSE))
        /\ known' = id
        /\ reset' = (reset \/ known \notin {NONE, id})
     \/ /\ Fail(FALSE)
        /\ UNCHANGED <<known, reset>>
  /\ UNCHANGED <<big, next, isPolling, due, lastError, dataVars>>

GetServerInfo ==
  /\ pc = "info"
  /\ (Pass(IF quick THEN "done" ELSE "conn") \/ Fail(FALSE))
  /\ UNCHANGED <<big, next, wrapVars, dataVars>>

(* Mutant: a reset does not make the poll a big one.                       *)
GetConnectionInfoNoReset ==
  /\ pc = "conn"
  /\ \/ /\ due
        /\ Pass("sample")
        /\ big' = TRUE /\ due' = FALSE
     \/ /\ ~due
        /\ Pass("done")
        /\ UNCHANGED <<big, due>>
     \/ /\ Fail(FALSE)
        /\ UNCHANGED <<big, due>>
  /\ UNCHANGED <<next, isPolling, reset, known, lastError, dataVars>>

(* getConnectionInfo, and whether it is time for a big poll.               *)
GetConnectionInfo ==
  /\ pc = "conn"
  /\ \/ /\ reset \/ due
        /\ Pass("sample")
        /\ big' = TRUE /\ due' = FALSE
     \/ /\ ~reset /\ ~due
        /\ Pass("done")
        /\ UNCHANGED <<big, due>>
     \/ /\ Fail(FALSE)
        /\ UNCHANGED <<big, due>>
  /\ UNCHANGED <<next, isPolling, reset, known, lastError, dataVars>>

(* Mutant: one more sample after the last.                                 *)
SamplePastLast ==
  /\ pc = "sample"
  /\ \/ /\ (Pass(IF next > NumAccs THEN "rest" ELSE "sample") \/ Fail(TRUE))
        /\ big' = TRUE /\ next' = next + 1
        /\ last' = [last EXCEPT ![next] = id]
        /\ \/ mixed' = mixed \ {next}
           \/ /\ ~reset /\ last[next] \notin {NONE, id}
              /\ mixed' = mixed \cup {next}
     \/ /\ Fail(TRUE) /\ next' = next
        /\ IF next \in Metrics
             THEN last' = [last EXCEPT ![next] = NONE] /\ mixed' = mixed \ {next}
             ELSE UNCHANGED dataVars
  /\ UNCHANGED wrapVars

(* One accumulating GetMetric, PollWaits or getDiskIO: the sample replaces *)
(* the last one, and the difference is recorded when the counter has grown *)
(* and the poll does not reset.  A Metric that could not be read is a      *)
(* sample of 0, of which no difference is taken.                           *)
Sample ==
  /\ pc = "sample"
  /\ \/ /\ (Pass(IF next = NumAccs THEN "rest" ELSE "sample") \/ Fail(TRUE))
        /\ big' = TRUE /\ next' = next + 1
        /\ last' = [last EXCEPT ![next] = id]
        /\ \/ mixed' = mixed \ {next}
           \/ /\ ~reset /\ last[next] \notin {NONE, id}
              /\ mixed' = mixed \cup {next}
     \/ /\ Fail(TRUE) /\ next' = next
        /\ IF next \in Metrics
             THEN last' = [last EXCEPT ![next] = NONE] /\ mixed' = mixed \ {next}
             ELSE UNCHANGED dataVars
  /\ UNCHANGED wrapVars

(* The second pollAG returns false with its error, the others true.        *)
Rest ==
  /\ pc = "rest"
  /\ \/ Pass("ip") /\ UNCHANGED big
     \/ Fail(TRUE) \/ Fail(FALSE)
  /\ UNCHANGED <<next, wrapVars, dataVars>>

(* getIP: what goes wrong before the lookup is only logged; a lookup that  *)
(* fails takes the read lock for its message and keeps it.                 *)
GetIP ==
  /\ pc = "ip"
  /\ \/ pc' = "jobs" /\ UNCHANGED leaked
     \/ pc' = "ipStore" /\ leaked' \in {leaked, LookupMayFail}
  /\ UNCHANGED <<sqlVars, quick, big, failed, next, wrapVars, dataVars, stop, cache, clean>>

(* The result is stored under the write lock.                              *)
StoreIP ==
  /\ pc = "ipStore" /\ ~leaked
  /\ Pass("jobs")
  /\ UNCHANGED <<big, next, wrapVars, dataVars>>

(* FetchRunningJobs and FetchRecentFailures, then WriteToRepository.       *)
Jobs ==
  /\ pc = "jobs"
  /\ \/ Pass("done") /\ UNCHANGED big
     \/ Fail(TRUE)
  /\ UNCHANGED <<next, wrapVars, dataVars>>

(* Mutant: the clean up is skipped on an error.                            *)
DoneOnSuccess ==
  /\ pc = "done"
  /\ lastError' = failed
  /\ isPolling' = failed
  /\ reset' = FALSE
  /\ pc' = IF ~quick /\ big THEN "write" ELSE AfterPoll
  /\ big' = FALSE /\ failed' = FALSE /\ next' = 1
  /\ UNCHANGED <<sqlVars, quick, known, due, dataVars, leaked, stop, cache, clean>>

(* Mutant: a poll without an error leaves LastPollError.                   *)
DoneKeepingError ==
  /\ pc = "done"
  /\ lastError' = (lastError \/ failed)
  /\ isPolling' = FALSE
  /\ reset' = FALSE
  /\ pc' = IF ~quick /\ big THEN "write" ELSE AfterPoll
  /\ big' = FALSE /\ failed' = FALSE /\ next' = 1
  /\ UNCHANGED <<sqlVars, quick, known, due, dataVars, leaked, stop, cache, clean>>

(* newpoll records the error or its absence and cleans up.                 *)
Done ==
  /\ pc = "done"
  /\ lastError' = failed
  /\ isPolling' = FALSE
  /\ reset' = FALSE
  /\ pc' = IF ~quick /\ big THEN "write" ELSE AfterPoll
  /\ big' = FALSE /\ failed' = FALSE /\ next' = 1
  /\ UNCHANGED <<sqlVars, quick, known, due, dataVars, leaked, stop, cache, clean>>

(* writeCache: an error of os.WriteFile is logged, what is left of the     *)
(* file is unreadable.                                                     *)
WriteCache ==
  /\ pc = "write"
  /\ cache' \in {[known |-> known, last |-> last], NONE}
  /\ pc' = AfterPoll
  /\ UNCHANGED <<sqlVars, quick, big, failed, next, wrapVars, dataVars, leaked, stop, clean>>
-----------------------------------------------------------------------------
(* ServerList.Delete, and PollRoutine's select that receives from stop.    *)
SendStop ==
  /\ pc # "down" /\ ~stop
  /\ stop' = TRUE
  /\ UNCHANGED <<sqlVars, pollVars, wrapVars, dataVars, leaked, cache, clean>>

ReceiveStop ==
  /\ pc = "loop" /\ stop
  /\ pc' = "gone" /\ stop' = FALSE
  /\ UNCHANGED <<sqlVars, quick, big, failed, next, wrapVars, dataVars, leaked, cache, clean>>

Forgotten ==
  /\ quick' = FALSE /\ big' = FALSE /\ failed' = FALSE /\ next' = 1
  /\ isPolling' = FALSE /\ reset' = FALSE /\ known' = NONE /\ due' = TRUE
  /\ lastError' = FALSE
  /\ last' = NoSamples /\ mixed' = {}
  /\ leaked' = FALSE /\ stop' = FALSE

(* IsItSQL ends; in the middle of os.WriteFile it leaves half a file.      *)
Crash ==
  /\ pc # "down"
  /\ pc' = "down"
  /\ Forgotten
  /\ cache' \in IF pc = "write" THEN {cache, NONE} ELSE {cache}
  /\ clean' = FALSE
  /\ UNCHANGED sqlVars

(* AddFromSettings in the new process: GetCachedServer, which leaves a file *)
(* that is an hour old, then PollRoutine.                                  *)
Start ==
  /\ pc = "down"
  /\ pc' = "launched"
  /\ \/ /\ cache # NONE
        /\ known' = cache.known /\ last' = cache.last
        /\ due' \in BOOLEAN
        /\ reset' = TRUE
     \/ UNCHANGED <<known, last, due, reset>>
  /\ UNCHANGED <<sqlVars, quick, big, failed, next, isPolling, lastError, mixed, leaked, stop, cache, clean>>
-----------------------------------------------------------------------------
PollStep ==
  \/ BeginPoll \/ OpenDB \/ GetName \/ GetServerInfo \/ GetConnectionInfo
  \/ Sample \/ Rest \/ GetIP \/ StoreIP \/ Jobs \/ Done \/ WriteCache

Environment ==
  (\E x \in Instances : Switch(x)) \/ Outage \/ SendStop \/ Crash

Next == PollStep \/ ReceiveStop \/ Age \/ Start \/ Environment

Spec == Init /\ [][Next]_vars

(* Every query returns and the ticker ticks; time passes; the service      *)
(* manager starts IsItSQL again.  A select with several cases ready picks   *)
(* one at random: a stop that waits is not passed over for ever.            *)
Fairness ==
  WF_vars(PollStep) /\ SF_vars(ReceiveStop) /\ WF_vars(Age) /\ WF_vars(Start)

FairSpec == Spec /\ Fairness
-----------------------------------------------------------------------------
Flags ==
  /\ up \in BOOLEAN /\ quick \in BOOLEAN /\ big \in BOOLEAN /\ failed \in BOOLEAN
  /\ isPolling \in BOOLEAN /\ reset \in BOOLEAN /\ due \in BOOLEAN /\ lastError \in BOOLEAN
  /\ leaked \in BOOLEAN /\ stop \in BOOLEAN /\ clean \in BOOLEAN

Values ==
  /\ id \in Instances
  /\ pc \in {"launched", "nap", "loop", "open", "name", "info", "conn", "sample", "rest",
             "ip", "ipStore", "jobs", "done", "write", "gone", "down"}
  /\ next \in 1..(NumAccs + 1) /\ (pc = "sample" => next \in Accs)
  /\ known \in Instances \cup {NONE}
  /\ last \in [Accs -> Instances \cup {NONE}]
  /\ mixed \subseteq Accs
  /\ cache \in [known : Instances \cup {NONE}, last : [Accs -> Instances \cup {NONE}]] \cup {NONE}

(* Every variable holds a value of its type.                               *)
TypeOK == Flags /\ Values

(* "ResetOnThisPoll will be set to true if the server name or start time   *)
(* changes.  This tells us to reset all the accumulated values"            *)
(* (sql_structure.go): no recorded value is the difference of the counters *)
(* of two instances while polls do not fail and IsItSQL has not started    *)
(* from a cache file: the poll that sees the change resets every           *)
(* accumulator, even when no big poll is due.                              *)
CleanDeltasWithinInstance == clean => mixed = {}

(* A poller never finds IsPolling left over: not from a poll that failed,  *)
(* not from the cache.                                                     *)
NeverSkips == Awake => ~isPolling

(* Once queries succeed again and IsItSQL keeps running, the error is      *)
(* cleared and big polls are made again and again.                         *)
Recovers ==
  <>[](up /\ pc \notin {"down", "gone"}) => <>[]~lastError /\ []<>(pc = "jobs")

(* "Delete removes a server from polling": a poller that is told to stop   *)
(* stops, however busy it is.                                              *)
Stops == stop ~> pc \in {"gone", "down"}
=============================================================================
