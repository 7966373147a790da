----------------------------- MODULE RemoteCall -----------------------------
(***************************************************************************)
(* What a caller may conclude from how its call ended, whatever lies       *)
(* between it and the service: a call that is acknowledged has been        *)
(* carried out, one that is refused has not and never will be, and of one  *)
(* that ends otherwise nothing is known: it may be carried out later.      *)
(***************************************************************************)
CONSTANT Calls

VARIABLES
  carriedOut, \* calls that have had their effect
  told        \* what each caller has been told

Init == carriedOut = {} /\ told = [c \in Calls |-> "nothing"]

CarryOut(c) ==
  /\ c \notin carriedOut /\ told[c] # "refused"
  /\ carriedOut' = carriedOut \cup {c}
  /\ UNCHANGED told

Tell(c, what) ==
  /\ told[c] = "nothing"
  /\ told' = [told EXCEPT ![c] = what]
  /\ UNCHANGED carriedOut

Acknowledge(c) == c \in carriedOut /\ Tell(c, "done")
Refuse(c)      == c \notin carriedOut /\ Tell(c, "refused")
GiveUp(c)      == Tell(c, "unknown")

Next == \E c \in Calls : CarryOut(c) \/ Acknowledge(c) \/ Refuse(c) \/ GiveUp(c)

Spec == Init /\ [][Next]_<<carriedOut, told>>
=============================================================================
