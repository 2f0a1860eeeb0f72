------------------------------ MODULE Workshop -----------------------------
(***************************************************************************)
(* What seminar_9/task.cpp promises: a product is two wrenches and one     *)
(* screw, and nothing of the next product is made before it is assembled.  *)
(***************************************************************************)
EXTENDS Integers

VARIABLES wrenches, screws, products

Init == wrenches = 0 /\ screws = 0 /\ products = 0

Wrench ==
  /\ wrenches < 2 * products + 2
  /\ wrenches' = wrenches + 1
  /\ UNCHANGED <<screws, products>>

Screw ==
  /\ screws < products + 1
  /\ screws' = screws + 1
  /\ UNCHANGED <<wrenches, products>>

Assemble ==
  /\ wrenches = 2 * products + 2 /\ screws = products + 1
  /\ products' = products + 1
  /\ UNCHANGED <<wrenches, screws>>

Next == Wrench \/ Screw \/ Assemble

Spec == Init /\ [][Next]_<<wrenches, screws, products>>
=============================================================================
