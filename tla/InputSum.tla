------------------------------- MODULE InputSum -------------------------------
(***************************************************************************)
(* What the round 2 methods of SecAggServerProtocolImpl promise: a masked  *)
(* input that was accepted is added to the sum once, at some later moment, *)
(* and the sum is handed to round 3 only when nothing is left to add.      *)
(* SecAggServer uses the collection of masked inputs in this form.         *)
(***************************************************************************)
CONSTANT Clients

VARIABLES pendingInputs, \* accepted, not yet in the sum
          sum,           \* the clients whose inputs the sum holds
          phase          \* "open", "final" or "cancelled"

vars == <<pendingInputs, sum, phase>>

Init == pendingInputs = {} /\ sum = {} /\ phase = "open"

Accept(c) ==
  /\ phase = "open" /\ c \notin pendingInputs \cup sum
  /\ pendingInputs' = pendingInputs \cup {c}
  /\ UNCHANGED <<sum, phase>>

\* An addition that is under way when the collection is cancelled still ends.
AccumulateInputs ==
  \E S \in (SUBSET pendingInputs) \ {{}} :
    /\ phase # "final"
    /\ pendingInputs' = pendingInputs \ S
    /\ sum' = sum \cup S
    /\ UNCHANGED phase

Finalize ==
  /\ phase = "open" /\ pendingInputs = {}
  /\ phase' = "final"
  /\ UNCHANGED <<pendingInputs, sum>>

Cancel ==
  /\ phase = "open"
  /\ phase' = "cancelled"
  /\ UNCHANGED <<pendingInputs, sum>>

Next == (\E c \in Clients : Accept(c)) \/ AccumulateInputs \/ Finalize \/ Cancel

Spec == Init /\ [][Next]_vars
=============================================================================
