----------------------- MODULE SponsorshipRefinement -----------------------
(***************************************************************************)
(* SponsorshipRelay implements Sponsorship: a client that reads a request  *)
(* while a worker has it sees "in progress"; the registry on the chain is  *)
(* the record of who has been paid.                                        *)
(***************************************************************************)
EXTENDS SponsorshipRelay

OutcomeOf(s) == IF s \in ActiveStatus THEN "inProgress" ELSE s

outcome == [r \in Requests |-> OutcomeOf(status[r])]

Promise == INSTANCE Sponsorship WITH paid <- registry

\* Every step of handlers, workers and chain is a step of the promise or
\* changes nothing a client can see: no crash, lost lock, late answer or
\* duplicate relay shows through.
ImplementsPromise == Promise!Spec

\* Sponsorships that calls of sponsorTransfer have brought a wallet.
SuccessfulCalls(w) == {t \in TxIds : txState[t] = "success" /\ Recipient(t) = w}

Vault == INSTANCE SponsoredOnce WITH
           Recipients <- Wallets,
           payments <- [w \in Wallets |-> Cardinality(SuccessfulCalls(w))]

\* What the core takes the chain to do is what SponsorVault is shown to do.
RestsOnSponsoredOnce == Vault!Spec
=============================================================================
