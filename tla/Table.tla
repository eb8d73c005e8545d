------------------------------- MODULE Table ------------------------------
(***************************************************************************)
(* What a table of the store promises whoever draws it, whatever tasks     *)
(* write it and in whatever order their messages come                      *)
(* (crates/core/src/store.rs): its rows are one walk of the collection,    *)
(* whole, and what single reads have brought since.                        *)
(*                                                                         *)
(* Store implements it: its property Implements maps these variables.      *)
(***************************************************************************)
EXTENDS Naturals

CONSTANT Rows \* the rows of the collection, in the order it lists them: 1..some number

VARIABLES
  rows,       \* the rows held, each with the generation that read it
  walk,       \* the generation of the walk they are, 0 for none
  walked,     \* how far that walk went
  not_served, \* the collection's list answered 404
  walking     \* the walk that is said to be under way, 0 for none

vars == <<rows, walk, walked, not_served, walking>>

\* Nothing, or what the cache held.
Init ==
  /\ rows \in {<<>>, [r \in Rows |-> 0]}
  /\ walk = 0 /\ walked = 0 /\ walking = 0 /\ not_served = FALSE

MayStop == walking' \in {walking, 0}

\* A newer walk takes the place of the last one: every row it read, and no other.
Land ==
  /\ walk' > walk
  /\ rows' = [r \in {n \in Rows : n <= walked'} |-> walk']
  /\ not_served' = FALSE
  /\ MayStop

\* A cycle completes that had nothing new to list.
Confirm ==
  /\ not_served' = FALSE
  /\ MayStop
  /\ UNCHANGED <<rows, walk, walked>>

\* A single read that is not older than the walk.
Read ==
  /\ \E row \in Rows :
       /\ row \in DOMAIN rows' /\ rows'[row] >= walk
       /\ rows' = [r \in DOMAIN rows \cup {row} |-> IF r = row THEN rows'[r] ELSE rows[r]]
  /\ UNCHANGED <<walk, walked, not_served, walking>>

\* A cycle fails: what is held stays.
Fail ==
  /\ not_served' \in {not_served, TRUE}
  /\ MayStop
  /\ UNCHANGED <<rows, walk, walked>>

\* A walk that could still land begins, and takes the clock from an older one.
Begin ==
  /\ walking' > walk /\ walking' > walking
  /\ UNCHANGED <<rows, walk, walked, not_served>>

\* Nobody walks any more.
Abandon ==
  /\ walking' = 0
  /\ UNCHANGED <<rows, walk, walked, not_served>>

Next == Land \/ Confirm \/ Read \/ Fail \/ Begin \/ Abandon

Spec == Init /\ [][Next]_vars
===========================================================================
