----------------------------- MODULE WorkQueue -----------------------------
(***************************************************************************)
(* What the deploy stream and its consumers promise together, seen from    *)
(* outside: a first-in first-out queue with at-least-once processing.  A   *)
(* message is sent at most once, first handed out in the order of sending, *)
(* held by the consumers until one of them settles it (redelivery among    *)
(* them is not visible here), and never comes back once settled.  Under    *)
(* FairSpec every message sent is settled.                                 *)
(***************************************************************************)
EXTENDS Naturals, Sequences

CONSTANT Messages

VARIABLES waiting,       \* sent and not yet handed out, oldest first
          held,          \* handed out and not settled
          settled

qvars == <<waiting, held, settled>>

InQueue(n) == {waiting[i] : i \in 1..n}

Init == waiting = <<>> /\ held = {} /\ settled = {}

Send(m) == /\ m \notin InQueue(Len(waiting)) \cup held \cup settled
           /\ waiting' = Append(waiting, m)
           /\ UNCHANGED <<held, settled>>

HandOut(n) == /\ held' = held \cup InQueue(n)
              /\ waiting' = SubSeq(waiting, n + 1, Len(waiting))
              /\ UNCHANGED settled

Settle(m) == /\ m \in held
             /\ held' = held \ {m}
             /\ settled' = settled \cup {m}
             /\ UNCHANGED waiting

SomeHandOut == \E n \in 1..Len(waiting) : HandOut(n)

Next == SomeHandOut \/ \E m \in Messages : Send(m) \/ Settle(m)

Spec == Init /\ [][Next]_qvars

FairSpec == Spec /\ WF_qvars(SomeHandOut) /\ \A m \in Messages : WF_qvars(Settle(m))
=============================================================================
