---------------------------- MODULE LaggingView ----------------------------
(***************************************************************************)
(* What a status page promises: it shows a value the row has had, perhaps  *)
(* not the latest, and never goes back to an earlier one.                  *)
(***************************************************************************)
EXTENDS Naturals, Sequences

CONSTANT Values

VARIABLES rows,          \* the value the view last took and those the row
                         \* has had since
          shown          \* what the view shows, at first nothing

Init == rows \in {<<v>> : v \in Values} /\ shown \notin Values

Write == \E v \in Values : rows' = Append(rows, v) /\ UNCHANGED shown

Look == \E i \in 1..Len(rows) : /\ rows' = SubSeq(rows, i, Len(rows))
                                /\ shown' = rows[i]

Spec == Init /\ [][Write \/ Look]_<<rows, shown>>
=============================================================================
