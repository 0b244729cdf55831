---------------------------- MODULE MCServerList ----------------------------
(* Instances of ServerList for TLC.                                         *)
EXTENDS ServerList, TLC

CONSTANTS k1, k2, n1, n2, good, bad

Entry(n, l) == [name |-> n, login |-> l]

(* What the HCL files hold: no server; one; the same server renamed while   *)
(* its credential does not exist, next to a second server.                  *)
FileConfigs == {
  <<>>,
  k1 :> Entry(n1, good),
  k1 :> Entry(n2, bad) @@ k2 :> Entry(n1, good)}

(* Keys, wrappers and names are interchangeable where no configuration      *)
(* names one: in the GUI runs, which check invariants only.                 *)
GuiSymmetry == Permutations(Keys) \cup Permutations(Insts) \cup Permutations(Names)
=============================================================================
