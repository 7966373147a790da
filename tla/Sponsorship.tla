---------------------------- MODULE Sponsorship ----------------------------
(***************************************************************************)
(* What ArcPass promises, without locks, transactions, relays or timers:   *)
(* a wallet has one request under way, is paid at most once and only when  *)
(* it asked, and a request is settled once, as completed only if its       *)
(* wallet has been paid.  A wallet may be paid and its request fail: the   *)
(* payment and the record of it are two steps, and the second may go       *)
(* wrong.                                                                  *)
(***************************************************************************)
CONSTANTS Wallets, Requests, Owner

VARIABLES
  outcome,  \* what a client reads of each request
  paid      \* wallets that have received their sponsorship

Outcomes == {"absent", "inProgress", "rejected", "completed", "failed"}

OneUnderWay ==
  \A r, s \in Requests :
    outcome[r] = "inProgress" /\ outcome[s] = "inProgress" /\ Owner[r] = Owner[s] => r = s

Init ==
  /\ outcome \in [Requests -> {"absent", "inProgress"}]
  /\ OneUnderWay
  /\ paid \in SUBSET Wallets

Submit(r) ==
  /\ outcome[r] = "absent"
  /\ \A s \in Requests : Owner[s] = Owner[r] => outcome[s] # "inProgress"
  /\ outcome' = [outcome EXCEPT ![r] = "inProgress"]
  /\ UNCHANGED paid

Pay(w) ==
  /\ w \notin paid
  /\ \E r \in Requests : Owner[r] = w /\ outcome[r] # "absent"
  /\ paid' = paid \cup {w}
  /\ UNCHANGED outcome

Settle(r, o) ==
  /\ outcome[r] = "inProgress"
  /\ o \in {"rejected", "completed", "failed"}
  /\ o = "completed" => Owner[r] \in paid
  /\ outcome' = [outcome EXCEPT ![r] = o]
  /\ UNCHANGED paid

Next ==
  \/ \E r \in Requests : Submit(r)
  \/ \E w \in Wallets : Pay(w)
  \/ \E r \in Requests, o \in Outcomes : Settle(r, o)

Spec == Init /\ [][Next]_<<outcome, paid>>
=============================================================================
