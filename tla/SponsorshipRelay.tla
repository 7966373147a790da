-------------------------- MODULE SponsorshipRelay --------------------------
(***************************************************************************)
(* The core of ArcPass: API handlers insert sponsorship requests, workers  *)
(* poll them and run each one inside ONE database transaction that also    *)
(* waits for the payment on the chain, and the vault pays.                 *)
(*                                                                         *)
(* A worker's transaction (processor.ts) holds a row lock taken with       *)
(* SELECT FOR UPDATE SKIP LOCKED.  What it writes is its draft: nobody     *)
(* sees it before the commit.  The database ends the transaction after     *)
(* lockTimeoutMs while the callback keeps running, so a worker may go on   *)
(* relaying with a dead transaction and a lock that somebody else holds.   *)
(***************************************************************************)
EXTENDS Integers, Sequences, FiniteSets, SponsorshipTypes

CONSTANTS
  Wallets,           \* registered wallets
  Requests,          \* ids of sponsorship requests, used or still free
  Owner,             \* the wallet an id belongs to (walletId is never updated)
  Leftovers,         \* requests that exist at the start with relay rows
  MaxLeftoverRelays, \* bound: relay rows of a leftover request
  Workers,           \* worker processes
  Handlers,          \* concurrent POST /sponsorship/request handlers
  TxIds,             \* bound: calls of SponsorVault.sponsorTransfer
  None,              \* no request, no call
  MaxRetries,        \* config.maxRetries
  MaxRelayAttempts,  \* DEFAULT_MAX_RELAY_ATTEMPTS of lifecycle.ts
  MaxCount,          \* bound: a count at which registrations stop
  MaxFaults          \* bound: crashes and transactions the database ends

ASSUME OwnerAssumption == Owner \in [Requests -> Wallets]
ASSUME LeftoversAssumption ==
  /\ Leftovers \subseteq Requests
  /\ \A r, s \in Leftovers : Owner[r] = Owner[s] => r = s
  /\ MaxLeftoverRelays \in Nat
ASSUME NoneAssumption == None \notin Requests /\ None \notin TxIds
ASSUME LimitsAssumption ==
  /\ MaxRetries \in Nat \ {0} /\ MaxRelayAttempts \in Nat \ {0}
  /\ MaxCount \in Nat /\ MaxFaults \in Nat

VARIABLES
  status,           \* sponsorship_requests.status, committed
  relays,           \* relay_transactions.status by relayAttempt, committed
  sponsorshipCount, \* wallets.sponsorshipCount, committed
  blocked,          \* wallets with isBlocked
  registry,         \* wallets the on-chain SponsorshipRegistry has recorded
  txReq, txState,   \* each sponsorTransfer call: its request, how far it got
  pc,               \* where each worker is in processRequest
  batch,            \* ids its poll cycle read and has not dispatched yet
  job,              \* the request it processes
  open,             \* its database transaction is alive and holds the row lock
  draft,            \* what the transaction has written
  hash,             \* the call it waits for
  result,           \* the RelayResult it has to record
  hpc, hwallet,     \* where each handler is, for which wallet
  hseen,            \* history: requests active or completed when it started
  reply,            \* the handler's last reply
  faults            \* faults so far

dbVars     == <<status, relays, sponsorshipCount>>
chainVars  == <<registry, txReq, txState>>
workerVars == <<pc, batch, job, open, draft, hash, result>>
apiVars    == <<hpc, hwallet, hseen, reply>>
vars       == <<dbVars, blocked, chainVars, workerVars, apiVars, faults>>

RequestStates == SponsorshipStatus \cup {"absent"}
Drafts   == [status : RequestStates, relays : Seq(RelayStatus), inc : 0..1]
NoDraft  == [status |-> "absent", relays |-> <<>>, inc |-> 0]
TxStates == {"free", "calling", "sent", "success", "reverted", "refused", "duplicate"}
Results  == {"none", "success", "already", "error", "timeout"}

DbTypeOK ==
  /\ status \in [Requests -> RequestStates]
  /\ relays \in [Requests -> Seq(RelayStatus)]
  /\ sponsorshipCount \in [Wallets -> Nat]
  /\ blocked \subseteq Wallets

ChainTypeOK ==
  /\ registry \subseteq Wallets
  /\ txReq \in [TxIds -> Requests \cup {None}]
  /\ txState \in [TxIds -> TxStates]

WorkerTypeOK ==
  /\ pc \in [Workers -> {"idle", "locked", "relaying", "concluding", "committing"}]
  /\ batch \in [Workers -> SUBSET Requests]
  /\ job \in [Workers -> Requests \cup {None}]
  /\ open \in [Workers -> BOOLEAN]
  /\ draft \in [Workers -> Drafts]
  /\ hash \in [Workers -> TxIds \cup {None}]
  /\ result \in [Workers -> Results]

ApiTypeOK ==
  /\ hpc \in [Handlers -> {"idle", "active", "completed", "insert"}]
  /\ hwallet \in [Handlers -> Wallets \cup {None}]
  /\ hseen \in [Handlers -> SUBSET Requests]
  /\ reply \in [Handlers -> {"none", "created", "forbidden", "badRequest", "conflict"}]

\* The type invariant.
TypeOK ==
  DbTypeOK /\ ChainTypeOK /\ WorkerTypeOK /\ ApiTypeOK /\ faults \in 0..MaxFaults

OfWallet(w) == {r \in Requests : Owner[r] = w}
InStatus(w, S) == {r \in OfWallet(w) : status[r] \in S}

\* A request whose rows were written by the exported service functions
\* (updateSponsorshipStatus, createRelayTransaction, updateRelayStatus) rather
\* than by a worker: the case the poller's second condition looks for.
LeftoverRows == UNION {[1..n -> RelayStatus] : n \in 0..MaxLeftoverRelays}

Init ==
  /\ status \in [Requests -> {"absent", "pending", "relayed"}]
  /\ relays \in [Requests -> LeftoverRows]
  /\ registry \in SUBSET Wallets
  /\ \A r \in Requests :
       IF r \in Leftovers
         THEN /\ status[r] # "absent"
              /\ (\E i \in DOMAIN relays[r] : relays[r][i] = "confirmed")
                   => Owner[r] \in registry
         ELSE status[r] = "absent" /\ relays[r] = <<>>
  /\ sponsorshipCount = [w \in Wallets |-> 0]
  /\ blocked = {}
  /\ txReq = [t \in TxIds |-> None]
  /\ txState = [t \in TxIds |-> "free"]
  /\ pc = [k \in Workers |-> "idle"]
  /\ batch = [k \in Workers |-> {}]
  /\ job = [k \in Workers |-> None]
  /\ open = [k \in Workers |-> FALSE]
  /\ draft = [k \in Workers |-> NoDraft]
  /\ hash = [k \in Workers |-> None]
  /\ result = [k \in Workers |-> "none"]
  /\ hpc = [h \in Handlers |-> "idle"]
  /\ hwallet = [h \in Handlers |-> None]
  /\ hseen = [h \in Handlers |-> {}]
  /\ reply = [h \in Handlers |-> "none"]
  /\ faults = 0

-----------------------------------------------------------------------------
(* POST /sponsorship/request: createSponsorshipRequest, four statements      *)
(* that are not in a transaction.                                            *)

\* A free id is kept for every handler under way (a bound of the model).
Submit(h, w) ==
  /\ hpc[h] = "idle"
  /\ InStatus(w, {"absent"}) # {}
  /\ IF w \in blocked
       THEN /\ reply' = [reply EXCEPT ![h] = "forbidden"]
            /\ UNCHANGED <<hpc, hwallet, hseen>>
       ELSE /\ hpc' = [hpc EXCEPT ![h] = "active"]
            /\ hwallet' = [hwallet EXCEPT ![h] = w]
            /\ hseen' = [hseen EXCEPT ![h] = InStatus(w, ActiveStatus \cup {"completed"})]
            /\ reply' = [reply EXCEPT ![h] = "none"]
  /\ UNCHANGED <<dbVars, blocked, chainVars, workerVars, faults>>

Answer(h, code) ==
  /\ hpc' = [hpc EXCEPT ![h] = "idle"]
  /\ hwallet' = [hwallet EXCEPT ![h] = None]
  /\ hseen' = [hseen EXCEPT ![h] = {}]
  /\ reply' = [reply EXCEPT ![h] = code]

\* Seeded fault: the two lookups in the other order.
LookupSetsSwapped == <<{"completed"}, ActiveStatus>>

\* validateNoPendingRequest reads twice: for a request in the first set, then
\* for one in the second.
LookupSets == <<ActiveStatus, {"completed"}>>

Lookup(h, stage, S, next) ==
  /\ hpc[h] = stage
  /\ IF InStatus(hwallet[h], S) # {}
       THEN Answer(h, "badRequest")
       ELSE hpc' = [hpc EXCEPT ![h] = next] /\ UNCHANGED <<hwallet, hseen, reply>>
  /\ UNCHANGED <<dbVars, blocked, chainVars, workerVars, faults>>

CheckActive(h)    == Lookup(h, "active", LookupSets[1], "completed")
CheckCompleted(h) == Lookup(h, "completed", LookupSets[2], "insert")

\* The partial unique index makes an INSERT wait for an open transaction that
\* has changed a request of the same wallet.
IndexBusy(w) ==
  \E k \in Workers :
    /\ open[k] /\ Owner[job[k]] = w
    /\ draft[k].status # status[job[k]]

\* Seeded fault: the migration without the index.
IndexConflictDropped(w) == FALSE

\* The partial unique index: one row per wallet in a status in progress.
IndexConflict(w) == InStatus(w, ActiveStatus) # {}

\* The INSERT.  A unique violation (P2002) is no case of the error handler,
\* which answers 500.
Insert(h) ==
  /\ hpc[h] = "insert"
  /\ ~IndexBusy(hwallet[h])
  /\ IF IndexConflict(hwallet[h])
       THEN Answer(h, "conflict") /\ UNCHANGED status
       ELSE \E r \in InStatus(hwallet[h], {"absent"}) :
              /\ status' = [status EXCEPT ![r] = "pending"]
              /\ Answer(h, "created")
  /\ UNCHANGED <<relays, sponsorshipCount, blocked, chainVars, workerVars, faults>>

\* wallets.isBlocked is only ever set by an operator, outside the code.
BlockWallet(w) ==
  /\ w \notin blocked
  /\ blocked' = blocked \cup {w}
  /\ UNCHANGED <<dbVars, chainVars, workerVars, apiVars, faults>>

\* POST /wallets/register for a wallet the table has, which the request form
\* sends before every submission: it counts in the same column as the worker.
Register(w) ==
  /\ w \notin blocked
  /\ sponsorshipCount[w] < MaxCount
  /\ sponsorshipCount' = [sponsorshipCount EXCEPT ![w] = @ + 1]
  /\ UNCHANGED <<status, relays, blocked, chainVars, workerVars, apiVars, faults>>

WalletStep(w) == BlockWallet(w) \/ Register(w)

-----------------------------------------------------------------------------
(* The worker: one poll cycle, and processRequest statement by statement.    *)

HasActiveRelay(rows) == \E i \in DOMAIN rows : rows[i] \in ActiveRelayStatus

\* The poller's query: pending requests, and relayed ones without an active
\* relay row.
Eligible ==
  {r \in Requests : \/ status[r] = "pending"
                    \/ status[r] = "relayed" /\ ~HasActiveRelay(relays[r])}

Poll(k) ==
  /\ pc[k] = "idle" /\ batch[k] = {}
  /\ batch' = [batch EXCEPT ![k] = Eligible]
  /\ UNCHANGED <<dbVars, blocked, chainVars, pc, job, open, draft, hash, result,
                 apiVars, faults>>

\* Seeded fault: SELECT without FOR UPDATE.
LockIgnored(k, r) == FALSE

LockedByOther(k, r) == \E j \in Workers \ {k} : open[j] /\ job[j] = r

\* Seeded fault: the processor does not know the poller's second condition.
PendingOnly(s) == s = "pending"

Processable(s) == s \in {"pending", "relayed"}

\* Dispatch of one id of the batch: SELECT FOR UPDATE SKIP LOCKED, then the
\* status the lock has read.  A locked or settled row is skipped.
Lock(k, r) ==
  /\ pc[k] = "idle" /\ r \in batch[k]
  /\ batch' = [batch EXCEPT ![k] = @ \ {r}]
  /\ IF LockedByOther(k, r) \/ ~Processable(status[r])
       THEN UNCHANGED <<pc, job, open, draft>>
       ELSE /\ pc' = [pc EXCEPT ![k] = "locked"]
            /\ job' = [job EXCEPT ![k] = r]
            /\ open' = [open EXCEPT ![k] = TRUE]
            /\ draft' = [draft EXCEPT ![k] =
                           [status |-> status[r], relays |-> relays[r], inc |-> 0]]
  /\ UNCHANGED <<dbVars, blocked, chainVars, hash, result, apiVars, faults>>

\* processRequest returns or throws: the transaction is over, the lock gone.
EndJob(k) ==
  /\ pc' = [pc EXCEPT ![k] = "idle"]
  /\ job' = [job EXCEPT ![k] = None]
  /\ open' = [open EXCEPT ![k] = FALSE]
  /\ draft' = [draft EXCEPT ![k] = NoDraft]
  /\ hash' = [hash EXCEPT ![k] = None]
  /\ result' = [result EXCEPT ![k] = "none"]

\* The callback has nothing left to write: COMMIT comes next.
ReadyToCommit(k, d) ==
  /\ pc' = [pc EXCEPT ![k] = "committing"]
  /\ draft' = [draft EXCEPT ![k] = d]
  /\ UNCHANGED <<batch, job, open, hash, result>>

\* transitionSponsorshipStatus followed by the caller's "if it failed, throw".
MoveTo(k, s, inc) ==
  IF s \in VALID_SPONSORSHIP_TRANSITIONS[draft[k].status]
    THEN ReadyToCommit(k, [draft[k] EXCEPT !.status = s, !.inc = inc])
    ELSE EndJob(k) /\ UNCHANGED batch

\* Seeded fault: statements that do not go through the transaction.
InTxOrNot(k, stage) == pc[k] = stage

\* The callback is at this statement and its transaction still takes it.
InTx(k, stage) == pc[k] = stage /\ open[k]

WorkerOnly == UNCHANGED <<dbVars, blocked, chainVars, apiVars, faults>>

MustReject(k) == draft[k].status = "pending" /\ Owner[job[k]] \in blocked

RejectBlocked(k) ==
  /\ InTx(k, "locked") /\ MustReject(k)
  /\ MoveTo(k, "rejected", 0)
  /\ WorkerOnly

\* The idempotency guard reads one active relay row, whichever comes first.
FoundConfirmed(k) ==
  /\ InTx(k, "locked") /\ ~MustReject(k)
  /\ \E i \in DOMAIN draft[k].relays : draft[k].relays[i] = "confirmed"
  /\ MoveTo(k, "completed", 1)
  /\ WorkerOnly

FoundSubmitted(k) ==
  /\ InTx(k, "locked") /\ ~MustReject(k)
  /\ \E i \in DOMAIN draft[k].relays : draft[k].relays[i] = "submitted"
  /\ ReadyToCommit(k, draft[k])
  /\ WorkerOnly

RetriesExhausted(k) ==
  /\ InTx(k, "locked") /\ ~MustReject(k) /\ ~HasActiveRelay(draft[k].relays)
  /\ Len(draft[k].relays) >= MaxRetries
  /\ MoveTo(k, "failed", 0)
  /\ WorkerOnly

\* Seeded fault: one row too many.
BeyondRelayLimit(rows) == Len(rows) > MaxRelayAttempts

\* createRelayTransaction throws.
AtRelayLimit(rows) == Len(rows) >= MaxRelayAttempts

\* pending -> approved -> relayed (or a stale relayed request as it is), a new
\* relay row queued and then submitted.
Prepare(k) ==
  /\ InTx(k, "locked") /\ ~MustReject(k) /\ ~HasActiveRelay(draft[k].relays)
  /\ Len(draft[k].relays) < MaxRetries
  /\ IF AtRelayLimit(draft[k].relays)
       THEN EndJob(k)
       ELSE /\ pc' = [pc EXCEPT ![k] = "relaying"]
            /\ draft' = [draft EXCEPT
                           ![k].status = IF @ = "pending" THEN "relayed" ELSE @,
                           ![k].relays = Append(@, "submitted")]
            /\ UNCHANGED <<job, open, hash, result>>
  /\ UNCHANGED batch
  /\ WorkerOnly

\* executeRelay calls writeContract.  It reads the request outside the
\* transaction, so it goes on whether or not the transaction is still open.
CallRelay(k, t) ==
  /\ pc[k] = "relaying" /\ hash[k] = None
  /\ txState[t] = "free"
  /\ txReq' = [txReq EXCEPT ![t] = job[k]]
  /\ txState' = [txState EXCEPT ![t] = "calling"]
  /\ hash' = [hash EXCEPT ![k] = t]
  /\ UNCHANGED <<dbVars, blocked, registry, pc, batch, job, open, draft, result,
                 apiVars, faults>>

Relayed(k, res) ==
  /\ pc[k] = "relaying"
  /\ pc' = [pc EXCEPT ![k] = "concluding"]
  /\ result' = [result EXCEPT ![k] = res]
  /\ UNCHANGED <<batch, job, open, draft, hash>>
  /\ WorkerOnly

\* What executeContractRelay makes of a call that is over: the receipt's
\* status, or the error writeContract threw.
Outcome(t) ==
  CASE txState[t] = "success"   -> "success"
    [] txState[t] = "duplicate" -> "already"
    [] OTHER                    -> "error"

RelayAnswered(k) ==
  /\ hash[k] # None /\ txState[hash[k]] \in {"success", "reverted", "refused", "duplicate"}
  /\ Relayed(k, Outcome(hash[k]))

\* The abort timer or the receipt wait runs out; the call itself goes on.
RelayTimeout(k) == hash[k] # None /\ Relayed(k, "timeout")

\* Any other error of the executor: its own read, or the connection to the
\* RPC node, whose answer is lost while the call goes on.
RelayError(k) == Relayed(k, "error")

\* Seeded fault: only a plain error is a failure.
CountsAsSuccessUnlessError(res) == res # "error"

\* An AlreadySponsored error counts as success.
CountsAsSuccess(res) == res \in {"success", "already"}

\* Seeded fault: the AlreadySponsored branch forgets the counter.
IncrementWhenPaid(res) == IF res = "success" THEN 1 ELSE 0

Increment(res) == IF CountsAsSuccess(res) THEN 1 ELSE 0

\* Seeded fault: the relay row is not updated.
LastRelayKept(rows, s) == rows

\* updateRelayTransaction on the row this run has created.
LastRelay(rows, s) == [rows EXCEPT ![Len(rows)] = s]

\* The relay row and the request's status are written as the result says; a
\* completed request also counts for its wallet.
Conclude(k) ==
  LET done == CountsAsSuccess(result[k])
      next == IF done THEN "completed" ELSE "failed"
      row  == IF done THEN "confirmed" ELSE "failed"
  IN  /\ InTx(k, "concluding")
      /\ IF next \in VALID_SPONSORSHIP_TRANSITIONS[draft[k].status]
           THEN ReadyToCommit(k, [status |-> next,
                                  relays |-> LastRelay(draft[k].relays, row),
                                  inc    |-> Increment(result[k])])
           ELSE EndJob(k) /\ UNCHANGED batch
      /\ WorkerOnly

Commit(k) ==
  /\ InTx(k, "committing")
  /\ status' = [status EXCEPT ![job[k]] = draft[k].status]
  /\ relays' = [relays EXCEPT ![job[k]] = draft[k].relays]
  /\ sponsorshipCount' = [sponsorshipCount EXCEPT ![Owner[job[k]]] = @ + draft[k].inc]
  /\ EndJob(k)
  /\ UNCHANGED <<batch, blocked, chainVars, apiVars, faults>>

\* The next statement of a transaction the database has ended throws.
FailDeadTx(k) ==
  /\ pc[k] \in {"locked", "concluding", "committing"} /\ ~open[k]
  /\ EndJob(k)
  /\ UNCHANGED batch
  /\ WorkerOnly

\* lockTimeoutMs: the database rolls the transaction back and drops its lock.
\* The callback knows nothing; what it has written will never be committed.
TxTimeout(k) ==
  /\ open[k] /\ faults < MaxFaults
  /\ open' = [open EXCEPT ![k] = FALSE]
  /\ faults' = faults + 1
  /\ UNCHANGED <<dbVars, blocked, chainVars, pc, batch, job, draft, hash, result, apiVars>>

\* The process dies (or shutdown forces an exit) and the orchestrator starts
\* it again.
Crash(k) ==
  /\ faults < MaxFaults
  /\ pc[k] # "idle" \/ batch[k] # {}
  /\ EndJob(k)
  /\ batch' = [batch EXCEPT ![k] = {}]
  /\ faults' = faults + 1
  /\ UNCHANGED <<dbVars, blocked, chainVars, apiVars>>

-----------------------------------------------------------------------------
(* The chain: what becomes of a call, also after its worker stopped waiting. *)

ChainOnly == UNCHANGED <<dbVars, blocked, txReq, workerVars, apiVars, faults>>

Recipient(t) == Owner[txReq[t]]

Send(t) ==
  /\ txState[t] = "calling"
  /\ txState' = [txState EXCEPT ![t] = "sent"]
  /\ UNCHANGED registry /\ ChainOnly

\* writeContract throws before anything is sent; what the error says can be
\* read as AlreadySponsored only when the registry has the recipient.
Refuse(t) ==
  /\ txState[t] = "calling"
  /\ \/ txState' = [txState EXCEPT ![t] = "refused"]
     \/ /\ Recipient(t) \in registry
        /\ txState' = [txState EXCEPT ![t] = "duplicate"]
  /\ UNCHANGED registry /\ ChainOnly

\* Seeded fault: the vault does not ask the registry.
PayableAlways(t) == TRUE

\* SponsorVault.sponsorTransfer pays a recipient the registry does not know.
Payable(t) == Recipient(t) \notin registry

Mine(t) ==
  /\ txState[t] = "sent" /\ Payable(t)
  /\ txState' = [txState EXCEPT ![t] = "success"]
  /\ registry' = registry \cup {Recipient(t)}
  /\ ChainOnly

\* A mined call may revert for any of the vault's reasons.
Revert(t) ==
  /\ txState[t] = "sent"
  /\ txState' = [txState EXCEPT ![t] = "reverted"]
  /\ UNCHANGED registry /\ ChainOnly

-----------------------------------------------------------------------------
ApiStep(h) ==
  \/ \E w \in Wallets : Submit(h, w)
  \/ CheckActive(h) \/ CheckCompleted(h) \/ Insert(h)

WorkerStep(k) ==
  \/ Poll(k) \/ \E r \in Requests : Lock(k, r)
  \/ RejectBlocked(k) \/ FoundConfirmed(k) \/ FoundSubmitted(k)
  \/ RetriesExhausted(k) \/ Prepare(k)
  \/ \E t \in TxIds : CallRelay(k, t)
  \/ RelayAnswered(k) \/ RelayTimeout(k) \/ RelayError(k)
  \/ Conclude(k) \/ Commit(k) \/ FailDeadTx(k)

Fault(k) == TxTimeout(k) \/ Crash(k)

ChainStep(t) == Send(t) \/ Refuse(t) \/ Mine(t) \/ Revert(t)

Next ==
  \/ \E h \in Handlers : ApiStep(h)
  \/ \E w \in Wallets : WalletStep(w)
  \/ \E k \in Workers : WorkerStep(k) \/ Fault(k)
  \/ \E t \in TxIds : ChainStep(t)

Spec == Init /\ [][Next]_vars

\* Every worker keeps running: its event loop never stops for good, and every
\* wait of processRequest is bounded by a timer.
FairSpec == Spec /\ \A k \in Workers : WF_vars(WorkerStep(k))

-----------------------------------------------------------------------------
(* What the system promises.                                                *)

\* Whatever locks are lost, processes die and answers come late, no request is
\* committed as completed unless the registry on the chain has its wallet.
\* processor.ts completes on a receipt and on an AlreadySponsored error.
CompletedIsSponsored ==
  \A r \in Requests : status[r] = "completed" => Owner[r] \in registry

\* Several workers may relay for one wallet at once (a lost lock, a restart, a
\* call that outlives its timeout): the vault still pays each wallet once.
PaidAtMostOnce ==
  \A t, u \in TxIds :
    /\ txState[t] = "success" /\ txState[u] = "success"
    /\ Recipient(t) = Recipient(u)
    => t = u

\* However handlers and workers interleave, a wallet has one request in
\* progress: the partial unique index, not the lookups before the INSERT,
\* makes this true.
OneRequestInProgress ==
  \A r, s \in Requests :
    /\ status[r] \in ActiveStatus /\ status[s] \in ActiveStatus
    /\ Owner[r] = Owner[s]
    => r = s

\* No two live transactions process the same request (SKIP LOCKED).
LockIsExclusive ==
  \A j, k \in Workers : open[j] /\ open[k] /\ job[j] = job[k] => j = k

\* The status a worker has locked is still the committed one while its
\* transaction lives, so its commit overwrites nobody's result.
NoLostResult ==
  \A k \in Workers : open[k] => Processable(status[job[k]])

\* A run is committed as a whole or not at all.  The rows of a request that a
\* worker has settled tell the same story as its status; one that is still
\* pending shows no trace of the runs that were rolled back.
RunIsAtomic ==
  \A r \in Requests \ Leftovers :
    relays[r] = CASE status[r] = "completed" -> <<"confirmed">>
                  [] status[r] = "failed"    -> <<"failed">>
                  [] OTHER                   -> <<>>

\* A step counts the requests of w that it completes, or is a registration.
CountsCompletions(w) ==
  LET done == {r \in OfWallet(w) : status[r] # "completed" /\ status'[r] = "completed"}
  IN  \/ sponsorshipCount'[w] = sponsorshipCount[w] + Cardinality(done)
      \/ Register(w)

\* wallets.sponsorshipCount goes up by one with each request that is committed
\* as completed, after crashes, double runs and the completion shortcut too, and
\* apart from that only when the wallet is registered again.
CompletionsAreCounted == [][\A w \in Wallets : CountsCompletions(w)]_vars

\* A submission that gets past both lookups finds every request that was in
\* progress or completed when it arrived settled without success.  This
\* depends on the order of the lookups in validateNoPendingRequest.
AcceptedAfterFailure ==
  \A h \in Handlers :
    hpc[h] = "insert" => \A r \in hseen[h] : status[r] \in {"failed", "rejected"}

\* A settled request stays as it is, even when a worker that lost its lock
\* finishes later than the one that took it over.
SettledForGood ==
  [][\A r \in Requests :
       status[r] \in TerminalStatus =>
         status'[r] = status[r] /\ relays'[r] = relays[r]]_vars

\* Every request a client gets accepted is eventually settled, once crashes
\* and lost transactions stop.
PendingIsSettled ==
  \A r \in Requests :
    status[r] = "pending" /\ relays[r] = <<>> ~> status[r] \in TerminalStatus
=============================================================================
