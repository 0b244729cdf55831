-------------------------------- MODULE Ring --------------------------------
(***************************************************************************)
(* The ring buffer of internal/metricvaluering.  The code of               *)
(* internal/cpuring, internal/appringlog and app/ring_waits.go is the      *)
(* same.                                                                   *)
(*                                                                         *)
(* A MetricValueRing is a struct: a copy of it has a head and a tail of    *)
(* its own and shares the array.  So the array and the header are two      *)
(* values here.  The zero struct, which has no array yet, reads like the   *)
(* empty ring that checkInit makes of it: EmptyRing with FreshBuff.        *)
(***************************************************************************)
EXTENDS Integers, Sequences

CONSTANTS
  Capacity,  (* 60 in the code, for every ring                             *)
  NIL        (* what a fresh array holds                                   *)

ASSUME CapacityAssumption == Capacity \in Nat \ {0}

Index  == 0 .. Capacity - 1
Header == [head: Index \cup {-1}, tail: Index]

EmptyRing == [head |-> -1, tail |-> 0]
FreshBuff == [p \in Index |-> NIL]

Mod(p) == p % Capacity

WrittenAtHead(buff, h, v) == [buff EXCEPT ![IF h.head = -1 THEN 0 ELSE h.head] = v]

(* Enqueue, the array: it is written at once, whoever shares it.           *)
Written(buff, h, v) == [buff EXCEPT ![Mod(h.head + 1)] = v]

AdvancedPastEnd(h) == [h EXCEPT !.head = @ + 1]

AdvancedKeepingTail(h) == [h EXCEPT !.head = Mod(@ + 1)]

(* Enqueue, the header. *)
Advanced(h) ==
  LET head == Mod(h.head + 1)
      full == h.head # -1 /\ head = h.tail
  IN  [head |-> head, tail |-> IF full THEN Mod(h.tail + 1) ELSE h.tail]

(* Where Values and get find the i-th entry from the oldest, i from 0. *)
Slot(h, i) == Mod(i + h.tail)

Size(h) ==
  CASE h.head = -1      -> 0
    [] h.head >= h.tail -> h.head - h.tail + 1
    [] OTHER            -> Capacity

(* Values, when nobody writes meanwhile. *)
Values(buff, h) == [i \in 1..Size(h) |-> buff[Slot(h, i - 1)]]
=============================================================================
