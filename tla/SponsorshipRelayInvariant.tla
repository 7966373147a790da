--------------------- MODULE SponsorshipRelayInvariant ---------------------
(***************************************************************************)
(* The inductive invariant behind the safety theorems of SponsorshipRelay: *)
(* what a worker at each stage holds, and how what it is about to commit   *)
(* is tied to the rows it has locked and to the chain.                     *)
(***************************************************************************)
EXTENDS SponsorshipRelay

\* A worker that is not idle has a job, an idle one neither a transaction nor
\* a call; a call that was made has a request.
StageOK ==
  /\ \A k \in Workers : pc[k] # "idle" => job[k] \in Requests
  /\ \A k \in Workers : pc[k] = "idle" => ~open[k] /\ hash[k] = None
  /\ \A t \in TxIds : txState[t] # "free" => txReq[t] \in Requests

Typing == TypeOK /\ StageOK

\* The call a worker waits for is a call for its job.
CallMatches(k) ==
  hash[k] # None => txReq[hash[k]] = job[k] /\ txState[hash[k]] # "free"

CallIsForJob == \A k \in Workers : CallMatches(k)

\* A call that paid, or was told that the vault has paid, has its recipient in
\* the registry.
PaidIsRegistered ==
  \A t \in TxIds : txState[t] \in {"success", "duplicate"} => Recipient(t) \in registry

\* A committed relay row is confirmed only for a registered wallet.
ConfirmedIsRegistered ==
  \A r \in Requests : \A i \in DOMAIN relays[r] :
    relays[r][i] = "confirmed" => Owner[r] \in registry

\* What a live transaction has written never runs ahead of the chain.
Honest(k) ==
  open[k] =>
    /\ draft[k].status # "absent"
    /\ pc[k] # "committing" => draft[k].status \in {"pending", "relayed"}
    /\ \/ draft[k].status = "completed"
       \/ \E i \in DOMAIN draft[k].relays : draft[k].relays[i] = "confirmed"
       \/ pc[k] = "concluding" /\ CountsAsSuccess(result[k])
       => Owner[job[k]] \in registry

DraftIsHonest == \A k \in Workers : Honest(k)

\* Every conjunct is kept by every step only together with the others: a commit
\* needs the lock to be exclusive and the draft to be honest, the draft needs
\* the call and the registry, the INSERT needs the index.
SafetyInv ==
  /\ Typing
  /\ LockIsExclusive /\ NoLostResult /\ OneRequestInProgress
  /\ CallIsForJob /\ PaidIsRegistered /\ PaidAtMostOnce
  /\ ConfirmedIsRegistered /\ DraftIsHonest /\ CompletedIsSponsored

\* What a handler saw when it started is of its wallet and stays settled once
\* a lookup has found it so.
SeenStaysSettled ==
  \A h \in Handlers : \A r \in hseen[h] :
    /\ Owner[r] = hwallet[h] /\ status[r] # "absent"
    /\ hpc[h] = "completed" => status[r] \in TerminalStatus
    /\ hpc[h] = "insert" => status[r] \in {"failed", "rejected"}

\* A payment is only ever under way for a request that was accepted.
CalledIsAccepted ==
  /\ \A k \in Workers : pc[k] # "idle" => status[job[k]] # "absent"
  /\ \A t \in TxIds : txState[t] # "free" => status[txReq[t]] # "absent"

\* A live transaction has counted its wallet up exactly if it completes the
\* request.
CountsOnce(k) ==
  open[k] => draft[k].inc = (IF draft[k].status = "completed" THEN 1 ELSE 0)

DraftCountsOnce == \A k \in Workers : CountsOnce(k)

\* A worker adds a relay row at the end of those it has locked, none of which
\* is active, and below both limits.
AddsRow(k, row) ==
  /\ draft[k].relays = Append(relays[job[k]], row)
  /\ ~HasActiveRelay(relays[job[k]])
  /\ Len(relays[job[k]]) < MaxRetries /\ Len(relays[job[k]]) < MaxRelayAttempts

KeepsRows(k) == draft[k].relays = relays[job[k]]

HasConfirmedRelay(rows) == \E i \in DOMAIN rows : rows[i] = "confirmed"

\* What a live transaction has made, at each stage, of the relay rows it has
\* locked, and what the status it writes says about them.
RowsFollow(k) ==
  open[k] =>
    /\ pc[k] = "locked" => KeepsRows(k)
    /\ pc[k] \in {"relaying", "concluding"} => AddsRow(k, "submitted")
    /\ pc[k] = "committing" =>
         \/ /\ KeepsRows(k)
            /\ draft[k].status = "completed" => HasConfirmedRelay(relays[job[k]])
            /\ draft[k].status = "failed" => /\ Len(relays[job[k]]) >= MaxRetries
                                             /\ ~HasActiveRelay(relays[job[k]])
         \/ draft[k].status = "completed" /\ AddsRow(k, "confirmed")
         \/ draft[k].status = "failed" /\ AddsRow(k, "failed")

DraftRowsFollow == \A k \in Workers : RowsFollow(k)

\* A live transaction holds the status it has locked, and is about to commit
\* either that or one that settles the request.
SettlesOrKeeps(k) ==
  open[k] =>
    /\ pc[k] = "locked" => draft[k].status = status[job[k]]
    /\ pc[k] = "committing" => \/ draft[k].status = status[job[k]]
                               \/ draft[k].status \in TerminalStatus

DraftSettles == \A k \in Workers : SettlesOrKeeps(k)

-----------------------------------------------------------------------------
(* What follows for the system as a whole.                                  *)

\* Nobody ever sees a request on its way: it goes from pending, or the status a
\* leftover has, to a settled status at once, because all that processRequest
\* writes in between is in one transaction with the relay.
SettlesInOneStep ==
  [][\A r \in Requests :
       status'[r] # status[r] =>
         IF status[r] = "absent" THEN status'[r] = "pending"
                                 ELSE status'[r] \in TerminalStatus]_vars

\* A wallet with a completed request is not paid any more, not by a call that
\* was given up and not by a run whose transaction is gone.
NoPaymentAfterCompletion ==
  [][\A t \in TxIds, r \in Requests :
       /\ txState[t] # "success" /\ txState'[t] = "success"
       /\ Owner[r] = Recipient(t)
       => status[r] # "completed"]_vars

\* Who reads a request with its relay rows (getSponsorshipRequest) finds them in
\* agreement, rows of an earlier time included: a completed request has a
\* confirmed row, a failed one none that is confirmed or on its way.
OutcomeIsInRows ==
  \A r \in Requests :
    /\ status[r] = "completed" => HasConfirmedRelay(relays[r])
    /\ status[r] = "failed" => ~HasActiveRelay(relays[r])

Completed(w) == InStatus(w, {"completed"})

\* No completion is lost from a wallet's count, over any history.
CountCoversCompleted ==
  \A w \in Wallets :
    IsFiniteSet(Completed(w)) /\ Cardinality(Completed(w)) <= sponsorshipCount[w]

\* Whoever has been paid has a request of his own that was accepted, and no call
\* is ever made for anybody else.
PaidHasAsked ==
  \A t \in TxIds :
    txState[t] # "free" => \E r \in Requests : Owner[r] = Recipient(t) /\ status[r] # "absent"

PaidCalls == {t \in TxIds : txState[t] = "success"}

\* The vault spends at most one sponsorship for each wallet there is, whatever
\* is retried, repeated or run twice.
SpendIsBounded ==
  IsFiniteSet(Wallets) =>
    IsFiniteSet(PaidCalls) /\ Cardinality(PaidCalls) <= Cardinality(Wallets)
=============================================================================
