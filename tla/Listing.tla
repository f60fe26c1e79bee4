------------------------------ MODULE Listing -------------------------------
(***************************************************************************)
(* A client walks the list of deployments, newest first, a page at a time  *)
(* (list_deployments: keyset pagination over (updated_at, deployment_id)), *)
(* while deployments are inserted and workers update them, which moves a   *)
(* row in the list (the updates of the API and the controller leave        *)
(* updated_at alone).  Timestamps may be equal, and need not be written in *)
(* their order: they are taken before the UPDATE, by clocks of several     *)
(* machines.                                                               *)
(***************************************************************************)
EXTENDS Naturals, FiniteSets

CONSTANTS Rows,          \* deployments, ordered as their ids are
          MaxTime,       \* timestamps are 1..MaxTime
          Limit          \* rows of a page

ASSUME ListingAssumption == Rows \subseteq Nat /\ MaxTime \in Nat /\ Limit \in Nat \ {0}

VARIABLES stamp,         \* updated_at, or 0 when there is no such row yet
          cursor,        \* key of the last row of the page before, or none
          shown,         \* how often each row has been listed
          done,          \* the last page was empty
          touched        \* rows written since the walk began (history)

vars == <<stamp, cursor, shown, done, touched>>

Keys == (1..MaxTime) \X Rows

None == <<MaxTime + 1, 0>>

TypeOK == /\ stamp \in [Rows -> 0..MaxTime]
          /\ cursor \in Keys \cup {None}
          /\ shown \in [Rows -> Nat]
          /\ done \in BOOLEAN
          /\ touched \subseteq Rows

Init == /\ stamp \in [Rows -> 0..MaxTime]
        /\ cursor = None
        /\ shown = [r \in Rows |-> 0] /\ done = FALSE
        /\ touched = {}

Key(r) == <<stamp[r], r>>

(* Mutant: rows are compared by their timestamp alone, as in               *)
(* database.get_deployments_paginated.                                     *)
OlderByTime(a, b) == a[1] < b[1]

(* (updated_at, deployment_id) < (...): PostgreSQL compares rows as pairs. *)
Older(a, b) == a[1] < b[1] \/ (a[1] = b[1] /\ a[2] < b[2])

(* Mutant: rows that are not the project's are listed with it.            *)
RestUnfiltered == {r \in Rows : Older(Key(r), cursor)}

Rest == {r \in Rows : stamp[r] # 0 /\ Older(Key(r), cursor)}

(* The first Limit of them in ORDER BY updated_at DESC, deployment_id DESC *)
IsPage(page) == /\ page \subseteq Rest
                /\ Cardinality(page) = IF Cardinality(Rest) < Limit THEN Cardinality(Rest)
                                                                    ELSE Limit
                /\ \A r \in page, q \in Rest \ page : ~Older(Key(r), Key(q))

NextPage ==
    /\ ~done
    /\ \/ /\ Rest # {}
          /\ \E page \in (SUBSET Rest) \ {{}} :
               /\ IsPage(page)
               /\ shown' = [r \in Rows |-> IF r \in page THEN shown[r] + 1 ELSE shown[r]]
               /\ cursor' \in {Key(r) : r \in page}
               /\ \A r \in page : ~Older(Key(r), cursor')
          /\ UNCHANGED done
       \/ Rest = {} /\ done' = TRUE /\ UNCHANGED <<shown, cursor>>
    /\ UNCHANGED <<stamp, touched>>

(* INSERT, or StateMachine.update_state.  *)
WriteRow(r) == /\ ~done
               /\ \E s \in 1..MaxTime : stamp' = [stamp EXCEPT ![r] = s]
               /\ touched' = touched \cup {r}
               /\ UNCHANGED <<cursor, shown, done>>

Next == NextPage \/ \E r \in Rows : WriteRow(r)

Spec == Init /\ [][Next]_vars

-----------------------------------------------------------------------------
Untouched == {r \in Rows : stamp[r] # 0 /\ r \notin touched}

(* The walk lists a row nobody writes meanwhile exactly once, and before   *)
(* every older one, however the other rows move and however many have the  *)
(* timestamp of a page's last row.                                         *)
ListedOnce ==
    \A r \in Untouched :
        /\ shown[r] <= 1
        /\ done => shown[r] = 1
        /\ \A q \in Untouched : shown[q] = 1 /\ shown[r] = 0 => Older(Key(r), Key(q))
=============================================================================
