------------------------------ MODULE WaitStore ------------------------------
(***************************************************************************)
(* What the boxes emit: internal/dwaits/repository.go with the ring of     *)
(* internal/waitring that pages read, and the files of internal/bucket     *)
(* from which the rings are filled when IsItSQL starts again.              *)
(*                                                                         *)
(* A tick is a minute; a box emits at most once in it, and an emission is  *)
(* known by its key and its age in ticks.  All times are ages: a line that *)
(* is Expired is too old to be read, a file that is Ancient too old to be  *)
(* kept.  A file's name is the second in which it was opened: files are in *)
(* the order of their names.  Lines that do not parse, which ReadHistory   *)
(* skips, are left out.                                                    *)
(***************************************************************************)
EXTENDS Naturals, Sequences, SequencesExt

CONSTANTS
  Keys,        (* servers                                                  *)
  Capacity,    (* of a ring: 60                                            *)
  FileTicks,   (* bw.fileDuration: 10 minutes                              *)
  HourTicks,   (* the limit of ReadHistory: 60 minutes                     *)
  RetainTicks, (* of purgeFilesPath: 85 minutes                            *)
  MaxFiles     (* bound: with so many files IsItSQL is not started again   *)

ASSUME StoreAssumption ==
  /\ {Capacity, FileTicks, HourTicks, RetainTicks, MaxFiles} \subseteq Nat \ {0}
  /\ RetainTicks >= HourTicks + FileTicks
  /\ Capacity >= HourTicks

Expired == HourTicks + 1
Ancient == RetainTicks + 1

VARIABLES
  running,   (* IsItSQL runs                                               *)
  rings,     (* the ring of each key: its array and the next slot          *)
  writing,   (* the keys whose Write has filled the ring and not the file  *)
  files,     (* the files: when each was opened, and its lines             *)
  open,      (* bw.file is not nil: it is the last file                    *)
  torn,      (* that file ends in the middle of a line                     *)
  emitted,   (* the keys that emitted in this tick                         *)
  durable,   (* history: the emissions written to a good disk, not onto a  *)
             (* torn line                                                  *)
  complete   (* history: the last start could read every file              *)

vars == <<running, rings, writing, files, open, torn, emitted, durable, complete>>

Line == [key : Keys, age : 0..Expired]
File == [opened : 0..Ancient, lines : Seq(Line)]

(* The loops below, over files, over lines and over waits, go through a    *)
(* sequence from its first element to its last: what they have after i     *)
(* elements is a function of i.                                            *)

(* The elements of s that are in S.                                        *)
Chosen(s, S) ==
  LET chosen[i \in 0..Len(s)] ==
        IF i = 0 THEN <<>>
        ELSE IF s[i] \in S THEN Append(chosen[i - 1], s[i]) ELSE chosen[i - 1]
  IN  chosen[Len(s)]
-----------------------------------------------------------------------------
(* waitring                                                                *)
EmptyRing == [data |-> [i \in 0..Capacity - 1 |-> Expired], p |-> 0]

Ring == [data : [0..Capacity - 1 -> 0..Expired], p : 0..2 * Capacity - 1]

(* Mutant: a full array keeps replacing its last slot.                      *)
EnqueueAtEnd(r, age) ==
  [data |-> [r.data EXCEPT ![IF r.p < Capacity THEN r.p ELSE Capacity - 1] = age],
   p    |-> IF r.p + 1 = 2 * Capacity THEN Capacity ELSE r.p + 1]

(* Mutant: the array grows.                                                *)
EnqueueGrowing(r, age) ==
  [data |-> [i \in DOMAIN r.data \cup {r.p} |-> IF i = r.p THEN age ELSE r.data[i]],
   p    |-> r.p + 1]

(* p matters modulo the capacity once the ring is full: the model keeps it *)
(* below twice the capacity.                                               *)
Enqueue(r, age) ==
  [data |-> [r.data EXCEPT ![r.p % Capacity] = age],
   p    |-> IF r.p + 1 = 2 * Capacity THEN Capacity ELSE r.p + 1]

(* Mutant: a full ring is read from its first slot.                        *)
ValuesUnrotated(r) ==
  IF r.p <= Capacity
  THEN [j \in 1..r.p |-> r.data[j - 1]]
  ELSE [j \in 1..Capacity |-> r.data[j - 1]]

(* Oldest first: the array from p on and then up to p, or the first slots  *)
(* of a ring that is not full.                                             *)
Values(r) ==
  IF r.p <= Capacity
  THEN [j \in 1..r.p |-> r.data[j - 1]]
  ELSE [j \in 1..Capacity |-> r.data[(r.p + j - 1) % Capacity]]
-----------------------------------------------------------------------------
(* bucket                                                                  *)
NewFile == [opened |-> 0, lines |-> <<>>]

(* Mutant: a file is purged when its oldest line is no longer used.        *)
PurgedByHour(fs) == Chosen(fs, {f \in File : f.opened <= HourTicks})

Purged(fs) == Chosen(fs, {f \in File : f.opened <= RetainTicks})

(* A new file is due: the last one is old, or was not opened.              *)
Rolls == open => Last(files).opened > FileTicks

(* The Reader: the lines of every file.                                    *)
AllLines(fs) ==
  LET read[i \in 0..Len(fs)] == IF i = 0 THEN <<>> ELSE read[i - 1] \o fs[i].lines
  IN  read[Len(fs)]

Recent(lines) == Chosen(lines, {l \in Line : l.age <= HourTicks})

LinesOf(k, lines) == Chosen(lines, {l \in Line : l.key = k})

Ages(lines) == [i \in DOMAIN lines |-> lines[i].age]

(* ReadHistory: what the files say of a key, in their order.               *)
History(k, fs) == Ages(LinesOf(k, Recent(AllLines(fs))))

(* writehistory, for every one of them.                                    *)
Filled(ages) ==
  LET filled[i \in 0..Len(ages)] ==
        IF i = 0 THEN EmptyRing ELSE Enqueue(filled[i - 1], ages[i])
  IN  filled[Len(ages)]
-----------------------------------------------------------------------------
Init ==
  /\ running = FALSE /\ rings = [k \in Keys |-> EmptyRing] /\ writing = {}
  /\ files = <<>> /\ open = FALSE /\ torn = FALSE
  /\ emitted = {} /\ durable = <<>> /\ complete = FALSE

(* NewRepository, whose error of bw.Start is not looked at, and            *)
(* ReadHistory, before any box is started: purge, list, read.  A read that *)
(* fails or takes more than 30 seconds leaves what came before it.         *)
Start ==
  /\ ~running /\ Len(files) < MaxFiles
  /\ running' = TRUE
  /\ torn' = FALSE
  /\ \E opens \in BOOLEAN :
       /\ open' = opens
       /\ files' = Purged(IF opens THEN Append(files, NewFile) ELSE files)
  /\ \E n \in 0..Len(files') :
       /\ rings' = [k \in Keys |-> Filled(History(k, SubSeq(files', 1, n)))]
       /\ complete' = (n = Len(files'))
  /\ UNCHANGED <<writing, emitted, durable>>

(* Repository.Write, from emitWaits: the ring first.                       *)
WriteRing(k) ==
  /\ running /\ k \notin writing /\ k \notin emitted
  /\ rings' = [rings EXCEPT ![k] = Enqueue(@, 0)]
  /\ writing' = writing \cup {k} /\ emitted' = emitted \cup {k}
  /\ UNCHANGED <<running, files, open, torn, durable, complete>>

Appended(fs, k) ==
  [fs EXCEPT ![Len(fs)].lines = Append(@, [key |-> k, age |-> 0])]

(* bw.Write on a good disk: a new file when it is time or there is none,   *)
(* then the line, which joins a torn one and is lost with it.              *)
WriteFile(k) ==
  /\ k \in writing
  /\ writing' = writing \ {k}
  /\ LET joins == torn /\ ~Rolls
         fs    == IF Rolls THEN Purged(Append(files, NewFile)) ELSE files
     IN  /\ files' = IF joins THEN fs ELSE Appended(fs, k)
         /\ durable' = IF joins THEN durable ELSE Append(durable, [key |-> k, age |-> 0])
  /\ open' = (open \/ Rolls)
  /\ torn' = FALSE
  /\ UNCHANGED <<running, rings, emitted, complete>>

(* On a bad one a step of it fails, and its error is not looked at: the    *)
(* file cannot be closed or opened, or the line is not written to its end. *)
(* (A purge that could not remove a file left one nobody reads.)           *)
WriteFileFails(k) ==
  /\ k \in writing
  /\ writing' = writing \ {k}
  /\ \/ Rolls /\ open' = FALSE /\ torn' = FALSE /\ UNCHANGED files
     \/ Rolls /\ open' = TRUE /\ torn' \in BOOLEAN /\ files' = Purged(Append(files, NewFile))
     \/ ~Rolls /\ torn' \in {torn, TRUE} /\ UNCHANGED <<open, files>>
  /\ UNCHANGED <<running, rings, emitted, durable, complete>>

(* IsItSQL ends, also between the ring and the file or in the middle of a  *)
(* line.                                                                   *)
Crash ==
  /\ running
  /\ running' = FALSE /\ rings' = [k \in Keys |-> EmptyRing] /\ writing' = {}
  /\ open' = FALSE /\ torn' = FALSE
  /\ UNCHANGED <<files, emitted, durable, complete>>

Older(age, oldest) == IF age < oldest THEN age + 1 ELSE oldest

AgedLines(lines) == [i \in DOMAIN lines |-> [lines[i] EXCEPT !.age = Older(@, Expired)]]

AgedFiles(fs) ==
  [i \in DOMAIN fs |->
     [opened |-> Older(fs[i].opened, Ancient), lines |-> AgedLines(fs[i].lines)]]

AgedRing(r) ==
  [data |-> [i \in DOMAIN r.data |-> Older(r.data[i], Expired)], p |-> r.p]

(* A minute passes.  No write takes a minute.                              *)
Tick ==
  /\ writing = {}
  /\ rings' = [k \in Keys |-> AgedRing(rings[k])]
  /\ files' = AgedFiles(files)
  /\ durable' = Recent(AgedLines(durable))
  /\ emitted' = {}
  /\ UNCHANGED <<running, writing, open, torn, complete>>

Next ==
  \/ Start \/ Crash \/ Tick
  \/ \E k \in Keys : WriteRing(k) \/ WriteFile(k) \/ WriteFileFails(k)

Spec == Init /\ [][Next]_vars
-----------------------------------------------------------------------------
(* Every variable holds a value of its type.                               *)
TypeOK ==
  /\ {running, open, torn, complete} \subseteq BOOLEAN
  /\ rings \in [Keys -> Ring]
  /\ writing \subseteq emitted /\ emitted \subseteq Keys
  /\ files \in Seq(File)
  /\ (open => files # <<>>) /\ (torn => open)
  /\ durable \in Seq(Line)

(* Whenever IsItSQL ends, a start that can read the files restores, in     *)
(* their order, exactly the emissions of the last hour that reached a good *)
(* disk: the one in progress at most is lost, whatever was torn, purged or *)
(* could not be opened before ("Read the files and populate the history.   *)
(* Ignore more than 1 hour old", dwaits/README.md).                        *)
HourRestored ==
  \A k \in Keys : History(k, files) = Ages(LinesOf(k, durable))

(* A page draws a server's waits in the order of time, also across         *)
(* restarts, with no minute twice.                                         *)
InOrder ==
  \A k \in Keys :
    \A i, j \in DOMAIN Values(rings[k]) :
      i < j => \/ Values(rings[k])[i] > Values(rings[k])[j]
               \/ Values(rings[k])[i] = Expired

(* The ring of a key lacks no minute of the last hour that is on the disk, *)
(* once a start has read all of it.                                        *)
RingCoversHour ==
  running /\ complete =>
    \A i \in DOMAIN durable :
      durable[i].age < HourTicks => durable[i].age \in Range(Values(rings[durable[i].key]))
=============================================================================
