--------------------------- MODULE SponsoredOnce ---------------------------
(***************************************************************************)
(* What the vault promises to everyone who relies on it, without registry, *)
(* calls or failures: whoever receives a sponsorship receives one, and no  *)
(* later transaction takes it back.  One transaction may sponsor several   *)
(* recipients: while one of them is being paid it may have others paid.    *)
(***************************************************************************)
EXTENDS Naturals

CONSTANT Recipients

VARIABLE payments  \* sponsorships each recipient has received for good

Init == payments \in [Recipients -> 0..1]

Sponsor(S) ==
  /\ \A r \in S : payments[r] = 0
  /\ payments' = [r \in Recipients |-> IF r \in S THEN 1 ELSE payments[r]]

Next == \E S \in SUBSET Recipients : Sponsor(S)

Spec == Init /\ [][Next]_payments
=============================================================================
