------------------------------- MODULE Window -------------------------------
(***************************************************************************)
(* What a ring buffer of IsItSQL promises: it holds the newest Capacity    *)
(* values in the order in which they came.  The cache file holds the       *)
(* values of the moment it was written; a restart goes back to them, or    *)
(* starts with nothing when there is no file or it is too old.             *)
(***************************************************************************)
EXTENDS Naturals, Sequences

CONSTANTS
  Capacity,  (* values the ring holds                                      *)
  Recorded   (* the values that are enqueued                               *)

VARIABLES window, saved

Pushed(w, v) == Append(IF Len(w) < Capacity THEN w ELSE Tail(w), v)

Init ==
  /\ window = <<>>
  /\ saved = <<>>

Push(v) ==
  /\ window' = Pushed(window, v)
  /\ UNCHANGED saved

Save ==
  /\ saved' = window
  /\ UNCHANGED window

Restart ==
  /\ window' \in {saved, <<>>}
  /\ UNCHANGED saved

Next == (\E v \in Recorded : Push(v)) \/ Save \/ Restart

Spec == Init /\ [][Next]_<<window, saved>>
=============================================================================
