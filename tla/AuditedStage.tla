---------------------------- MODULE AuditedStage ----------------------------
(***************************************************************************)
(* What the stage endpoints promise, without requests, transactions or     *)
(* mail: one application has a stage, and an audit trail with one row per  *)
(* transition.  A transition changes both at once, its row obeys the rule  *)
(* table and is newer than every row before it.                            *)
(*                                                                         *)
(* Trail is the promise the code keeps under any interleaving.  StrictTrail*)
(* adds that a transition starts from the stage the application is in,     *)
(* hence that a terminal stage is final.                                   *)
(***************************************************************************)
EXTENDS Naturals, PipelineStages

VARIABLES stage, trail

Row == [id : Nat, from : Stages, to : Stages]

Init == stage \in Stages /\ trail = {}

(* Record a transition to the stage the application now has.               *)
Record(row) ==
  /\ row \in Row
  /\ IsValidTransition(row.from, row.to)
  /\ \A older \in trail : older.id < row.id
  /\ trail' = trail \cup {row}
  /\ stage' = row.to

Move == \E row \in trail' : Record(row)

StrictMove == \E row \in trail' : row.from = stage /\ Record(row)

Trail == Init /\ [][Move]_<<stage, trail>>

StrictTrail == Init /\ [][StrictMove]_<<stage, trail>>
=============================================================================
