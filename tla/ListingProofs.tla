--------------------------- MODULE ListingProofs ---------------------------
(***************************************************************************)
(* The walk over the list is exact for rows nobody writes, whatever the    *)
(* number of rows, the page size and the timestamps: a row has been listed *)
(* when it is not older than the cursor, and not otherwise.                *)
(***************************************************************************)
EXTENDS Listing, TLAPS

WalkInv ==
    /\ TypeOK
    /\ \A r \in Untouched : shown[r] = IF Older(Key(r), cursor) THEN 0 ELSE 1
    /\ done => Rest = {}

LEMMA InitWalk == Init => WalkInv
<1> SUFFICES ASSUME Init PROVE WalkInv
  OBVIOUS
<1>1. TypeOK /\ ~done
  BY DEF Init, TypeOK
<1>2. ASSUME NEW r \in Rows PROVE shown[r] = 0 /\ Older(Key(r), cursor)
  BY ListingAssumption DEF Init, Older, Key, None
<1> QED BY <1>1, <1>2 DEF WalkInv, Untouched

(* The order of the keys is total, which the id makes it.                  *)
LEMMA OlderOrder ==
    ASSUME TypeOK, NEW r \in Rows, NEW q \in Rows, stamp[r] # 0, stamp[q] # 0,
           NEW c \in Keys \cup {None}
    PROVE  /\ Key(r) \in Keys
           /\ Older(Key(r), Key(q)) /\ Older(Key(q), c) => Older(Key(r), c)
           /\ Older(Key(r), c) /\ ~Older(Key(q), c) => Older(Key(r), Key(q))
           /\ Older(Key(r), Key(q)) \/ r = q \/ Older(Key(q), Key(r))
           /\ ~Older(Key(r), Key(r))
<1>1. Key(r) = <<stamp[r], r>> /\ Key(q) = <<stamp[q], q>>
  BY DEF Key
<1>2. stamp[r] \in 1..MaxTime /\ stamp[q] \in 1..MaxTime /\ r \in Nat /\ q \in Nat
  BY ListingAssumption DEF TypeOK
<1>3. c[1] \in Nat /\ c[2] \in Nat
  <2>1. CASE c \in Keys
    <3>1. c[1] \in 1..MaxTime /\ c[2] \in Rows
      BY <2>1 DEF Keys
    <3>2. c[2] \in Nat
      BY <3>1, ListingAssumption
    <3>3. 1..MaxTime \subseteq Nat
      OBVIOUS
    <3> QED BY <3>1, <3>2, <3>3
  <2>2. CASE c = None
    <3>1. MaxTime + 1 \in Nat
      BY ListingAssumption
    <3>2. c[1] = MaxTime + 1 /\ c[2] = 0
      BY <2>2 DEF None
    <3> QED BY <3>1, <3>2
  <2> QED BY <2>1, <2>2
<1>4. Key(r) \in Keys
  BY <1>1, <1>2 DEF Keys
<1> QED BY <1>1, <1>2, <1>3, <1>4, ListingAssumption DEF Older

LEMMA PageStep == ASSUME WalkInv, NextPage PROVE WalkInv'
<1>1. stamp' = stamp /\ touched' = touched /\ ~done
  BY DEF NextPage
<1>2. Untouched' = Untouched /\ \A r \in Rows : Key(r)' = Key(r)
  BY <1>1 DEF Untouched, Key
<1>3. CASE Rest = {} /\ done' = TRUE /\ UNCHANGED <<shown, cursor>>
  <2>1. Rest' = Rest
    BY <1>1, <1>2, <1>3 DEF Rest
  <2>2. TypeOK'
    BY <1>1, <1>3 DEF WalkInv, TypeOK
  <2>3. ASSUME NEW r \in Untouched
        PROVE  shown'[r] = IF Older(Key(r)', cursor') THEN 0 ELSE 1
    <3>1. r \in Rows
      BY DEF Untouched
    <3> QED BY <1>2, <1>3, <3>1 DEF WalkInv
  <2> QED BY <1>2, <1>3, <2>1, <2>2, <2>3 DEF WalkInv
<1>4. ASSUME NEW page \in SUBSET Rest, IsPage(page), UNCHANGED done,
             shown' = [r \in Rows |-> IF r \in page THEN shown[r] + 1 ELSE shown[r]],
             NEW last \in page, cursor' = Key(last),
             \A r \in page : ~Older(Key(r), cursor')
      PROVE  WalkInv'
  <2>1. page \subseteq Rows /\ last \in Rows /\ stamp[last] # 0 /\ Older(Key(last), cursor)
    BY <1>4 DEF Rest
  <2>2. TypeOK'
    BY <1>1, <1>4, <2>1, OlderOrder DEF WalkInv, TypeOK
  <2>3. ASSUME NEW r \in Untouched PROVE shown'[r] = IF Older(Key(r), cursor') THEN 0 ELSE 1
    <3>1. r \in Rows /\ stamp[r] # 0 /\ shown[r] \in Nat
          /\ shown[r] = IF Older(Key(r), cursor) THEN 0 ELSE 1
      BY DEF Untouched, WalkInv, TypeOK
    <3>2. CASE r \in page
      BY <1>4, <2>1, <3>1, <3>2 DEF Rest
    <3>3. CASE r \notin page /\ ~Older(Key(r), cursor)
      <4>1. ~Older(Key(r), Key(last))
        BY <2>1, <3>1, <3>3, OlderOrder DEF WalkInv, TypeOK
      <4> QED BY <1>4, <3>1, <3>3, <4>1
    <3>4. CASE r \notin page /\ Older(Key(r), cursor)
      <4>1. r \in Rest \ page
        BY <3>1, <3>4 DEF Rest
      <4>2. ~Older(Key(last), Key(r)) /\ r # last
        BY <1>4, <4>1 DEF IsPage
      <4>3. Older(Key(r), Key(last))
        BY <2>1, <3>1, <4>2, OlderOrder DEF WalkInv, TypeOK
      <4> QED BY <1>4, <3>1, <3>4, <4>3
    <3> QED BY <3>2, <3>3, <3>4
  <2>4. ~done'
    BY <1>1, <1>4
  <2>5. \A r \in Untouched' : shown'[r] = IF Older(Key(r)', cursor') THEN 0 ELSE 1
    BY <1>2, <2>3 DEF Untouched
  <2> QED BY <2>2, <2>4, <2>5 DEF WalkInv
<1> QED BY <1>3, <1>4 DEF NextPage

LEMMA WriteStep == ASSUME WalkInv, NEW r \in Rows, WriteRow(r) PROVE WalkInv'
<1>1. TypeOK' /\ ~done' /\ UNCHANGED <<shown, cursor>>
  BY DEF WriteRow, WalkInv, TypeOK
<1>2. ASSUME NEW q \in Untouched' PROVE q \in Untouched /\ Key(q)' = Key(q)
  BY DEF WriteRow, Untouched, Key, WalkInv, TypeOK
<1> QED BY <1>1, <1>2 DEF WalkInv

LEMMA WalkStep == WalkInv /\ [Next]_vars => WalkInv'
<1> SUFFICES ASSUME WalkInv, [Next]_vars PROVE WalkInv'
  OBVIOUS
<1>1. CASE UNCHANGED vars
  BY <1>1 DEF vars, WalkInv, TypeOK, Untouched, Key, Rest
<1> QED BY <1>1, PageStep, WriteStep DEF Next

LEMMA WalkListsOnce == WalkInv => ListedOnce
<1> SUFFICES ASSUME WalkInv, NEW r \in Untouched
             PROVE  /\ shown[r] <= 1
                    /\ done => shown[r] = 1
                    /\ \A q \in Untouched : shown[q] = 1 /\ shown[r] = 0 => Older(Key(r), Key(q))
  BY DEF ListedOnce
<1>1. r \in Rows /\ stamp[r] # 0 /\ shown[r] = IF Older(Key(r), cursor) THEN 0 ELSE 1
  BY DEF Untouched, WalkInv
<1>2. done => ~Older(Key(r), cursor)
  BY <1>1 DEF WalkInv, Rest
<1>3. ASSUME NEW q \in Untouched, shown[q] = 1, shown[r] = 0 PROVE Older(Key(r), Key(q))
  <2>1. q \in Rows /\ stamp[q] # 0 /\ ~Older(Key(q), cursor) /\ Older(Key(r), cursor)
    BY <1>1, <1>3 DEF Untouched, WalkInv
  <2> QED BY <1>1, <2>1, OlderOrder DEF WalkInv, TypeOK
<1> QED BY <1>1, <1>2, <1>3

LEMMA WalkInvHolds == Spec => []WalkInv
  BY InitWalk, WalkStep, PTL DEF Spec

(* The variables of the list keep their types; in particular a cursor is   *)
(* empty or a timestamp with the id of a row (main.py:625-642).            *)
THEOREM ListTypes == Spec => []TypeOK
<1>1. WalkInv => TypeOK
  BY DEF WalkInv
<1> QED BY <1>1, WalkInvHolds, PTL

(* A deployment nobody writes while a client walks the list is listed once *)
(* and in its place (main.py:625-642), for every page size.                *)
THEOREM WalkIsExact == Spec => []ListedOnce
  BY WalkInvHolds, WalkListsOnce, PTL
=============================================================================
