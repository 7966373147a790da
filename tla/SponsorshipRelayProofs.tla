---------------------- MODULE SponsorshipRelayProofs ----------------------
(***************************************************************************)
(* Proofs about SponsorshipRelay, for any number of wallets, requests,     *)
(* workers, handlers, calls and faults.                                    *)
(***************************************************************************)
EXTENDS SponsorshipRelayInvariant, SponsorshipClaims, FiniteSetTheorems, TLAPS

LEMMA StatusTypes ==
  /\ ActiveStatus = {"pending", "approved", "relayed"}
  /\ TerminalStatus = {"rejected", "completed", "failed"}
  /\ \A s \in SponsorshipStatus :
       VALID_SPONSORSHIP_TRANSITIONS[s] \subseteq SponsorshipStatus
  BY DEF ActiveStatus, TerminalStatus, SponsorshipStatus, VALID_SPONSORSHIP_TRANSITIONS

LEMMA DraftType == NoDraft \in Drafts
  BY DEF NoDraft, Drafts, RequestStates

LEMMA AppendType ==
  ASSUME NEW rows \in Seq(RelayStatus)
  PROVE  /\ Append(rows, "submitted") \in Seq(RelayStatus)
         /\ Len(Append(rows, "submitted")) = Len(rows) + 1
  BY DEF RelayStatus

LEMMA LastRelayType ==
  ASSUME NEW rows \in Seq(RelayStatus), NEW s \in RelayStatus
  PROVE  LastRelay(rows, s) \in Seq(RelayStatus)
<1>1. /\ rows \in [1..Len(rows) -> RelayStatus]
      /\ Len(rows) \in Nat
  OBVIOUS
<1>2. LastRelay(rows, s) \in [1..Len(rows) -> RelayStatus]
  BY <1>1 DEF LastRelay
<1> QED
  BY <1>1, <1>2

-----------------------------------------------------------------------------
(* Types.  The stage of a worker says what it holds.                        *)

LEMMA TypingInit == Init => Typing
<1> SUFFICES ASSUME Init PROVE Typing
  OBVIOUS
<1>1. LeftoverRows \subseteq Seq(RelayStatus)
  BY DEF LeftoverRows
<1>2. relays \in [Requests -> Seq(RelayStatus)]
  BY <1>1 DEF Init
<1>3. DbTypeOK
  BY <1>2 DEF Init, DbTypeOK, RequestStates, SponsorshipStatus
<1>4. ChainTypeOK /\ ApiTypeOK /\ faults \in 0..MaxFaults
  BY LimitsAssumption DEF Init, ChainTypeOK, ApiTypeOK, TxStates
<1>5. WorkerTypeOK
  BY DraftType DEF Init, WorkerTypeOK, Results
<1>6. StageOK
  BY DEF Init, StageOK
<1> QED
  BY <1>3, <1>4, <1>5, <1>6 DEF Typing, TypeOK

LEMMA ApiTyping ==
  ASSUME Typing, NEW h \in Handlers, ApiStep(h)
  PROVE  Typing'
<1> USE DEF Typing, TypeOK, ApiTypeOK
<1>0. ASSUME UNCHANGED <<dbVars, blocked, chainVars, workerVars, faults>>, ApiTypeOK' PROVE Typing'
  <2>1. DbTypeOK' /\ ChainTypeOK'
    BY <1>0 DEF dbVars, chainVars, DbTypeOK, ChainTypeOK
  <2>2. WorkerTypeOK' /\ StageOK'
    BY <1>0 DEF chainVars, workerVars, WorkerTypeOK, StageOK
  <2> QED
    BY <1>0, <2>1, <2>2
<1>1. ASSUME NEW w \in Wallets, Submit(h, w) PROVE Typing'
  <2>1. InStatus(w, ActiveStatus \cup {"completed"}) \subseteq Requests
    BY DEF InStatus, OfWallet
  <2> HIDE DEF Typing, TypeOK
  <2>2. ApiTypeOK
    BY DEF Typing, TypeOK
  <2>3. ApiTypeOK'
    <3>1. CASE w \in blocked
      BY <1>1, <2>2, <3>1 DEF Submit
    <3>2. CASE w \notin blocked
      BY <1>1, <2>1, <2>2, <3>2 DEF Submit
    <3> QED
      BY <3>1, <3>2
  <2> QED
    BY <1>0, <1>1, <2>3 DEF Submit
<1>2. ASSUME NEW stage, NEW S, NEW next \in {"completed", "insert"}, Lookup(h, stage, S, next)
      PROVE  Typing'
  <2>1. ApiTypeOK'
    BY <1>2 DEF Lookup, Answer
  <2> QED
    BY <1>0, <1>2, <2>1 DEF Lookup
<1>3. CASE CheckActive(h)
  BY <1>2, <1>3 DEF CheckActive
<1>4. CASE CheckCompleted(h)
  BY <1>2, <1>4 DEF CheckCompleted
<1>5. CASE Insert(h)
  <2>1. /\ \/ UNCHANGED status
           \/ \E r \in Requests : status' = [status EXCEPT ![r] = "pending"]
        /\ \E code \in {"conflict", "created"} : Answer(h, code)
        /\ UNCHANGED <<relays, sponsorshipCount, blocked, chainVars, workerVars, faults>>
    BY <1>5 DEF Insert, InStatus, OfWallet
  <2>2. "pending" \in RequestStates
    BY DEF RequestStates, SponsorshipStatus
  <2>3. DbTypeOK'
    BY <2>1, <2>2 DEF DbTypeOK
  <2>4. ApiTypeOK'
    BY <2>1 DEF Answer
  <2> QED
    BY <2>1, <2>3, <2>4 DEF chainVars, workerVars, ChainTypeOK, WorkerTypeOK, StageOK
<1> QED
  BY <1>1, <1>3, <1>4, <1>5 DEF ApiStep

LEMMA ChainTyping ==
  ASSUME Typing, NEW t \in TxIds, ChainStep(t)
  PROVE  Typing'
<1>1. Recipient(t) \in Wallets
  BY OwnerAssumption DEF ChainStep, Send, Refuse, Mine, Revert, Recipient, Typing, TypeOK,
     ChainTypeOK, StageOK
<1>2. ChainTypeOK' /\ StageOK'
  BY <1>1 DEF ChainStep, Send, Refuse, Mine, Revert, ChainOnly, Typing, TypeOK, ChainTypeOK,
     TxStates, StageOK, workerVars
<1>3. UNCHANGED <<dbVars, blocked, workerVars, apiVars, faults>>
  BY DEF ChainStep, Send, Refuse, Mine, Revert, ChainOnly
<1> QED
  BY <1>2, <1>3 DEF Typing, TypeOK, DbTypeOK, WorkerTypeOK, ApiTypeOK, dbVars, workerVars, apiVars

LEMMA WalletTyping ==
  ASSUME Typing, NEW w \in Wallets, WalletStep(w)
  PROVE  Typing'
<1>1. DbTypeOK'
  BY DEF WalletStep, BlockWallet, Register, Typing, TypeOK, DbTypeOK, dbVars
<1> QED
  BY <1>1 DEF WalletStep, BlockWallet, Register, Typing, TypeOK, DbTypeOK, ChainTypeOK,
     WorkerTypeOK, ApiTypeOK, StageOK, chainVars, workerVars, apiVars

\* What the shared ends of a worker's steps leave behind.
LEMMA EndJobTyping ==
  ASSUME Typing, NEW k \in Workers, EndJob(k), batch' \in [Workers -> SUBSET Requests],
         UNCHANGED chainVars
  PROVE  WorkerTypeOK' /\ StageOK'
  BY DraftType DEF EndJob, Typing, TypeOK, WorkerTypeOK, ChainTypeOK, StageOK, chainVars, Results

LEMMA CommitTyping ==
  ASSUME Typing, NEW k \in Workers, pc[k] # "idle", NEW d \in Drafts, ReadyToCommit(k, d),
         UNCHANGED chainVars
  PROVE  WorkerTypeOK' /\ StageOK'
  BY DEF ReadyToCommit, Typing, TypeOK, WorkerTypeOK, ChainTypeOK, StageOK, chainVars

LEMMA MoveTyping ==
  ASSUME Typing, NEW k \in Workers, pc[k] # "idle", NEW s \in SponsorshipStatus, NEW inc \in 0..1,
         MoveTo(k, s, inc), UNCHANGED chainVars
  PROVE  WorkerTypeOK' /\ StageOK'
<1>1. [draft[k] EXCEPT !.status = s, !.inc = inc] \in Drafts
  BY DEF Typing, TypeOK, WorkerTypeOK, Drafts, RequestStates
<1>2. batch \in [Workers -> SUBSET Requests]
  BY DEF Typing, TypeOK, WorkerTypeOK
<1> QED
  BY <1>1, <1>2, EndJobTyping, CommitTyping DEF MoveTo

LEMMA WorkerTyping ==
  ASSUME Typing, NEW k \in Workers, WorkerStep(k) \/ Fault(k)
  PROVE  Typing'
<1> USE DEF Typing, TypeOK
<1>a. WorkerTypeOK' /\ StageOK' /\ WorkerOnly => Typing'
  BY DEF WorkerOnly, dbVars, chainVars, apiVars, DbTypeOK, ChainTypeOK, ApiTypeOK
<1>b. WorkerOnly => UNCHANGED chainVars
  BY DEF WorkerOnly
<1>c. {"rejected", "completed", "failed"} \subseteq SponsorshipStatus
  BY DEF SponsorshipStatus
<1>d. batch \in [Workers -> SUBSET Requests] /\ draft[k] \in Drafts
  BY DEF WorkerTypeOK
<1>1. CASE Poll(k)
  <2>1. Eligible \subseteq Requests
    BY DEF Eligible
  <2> QED
    BY <1>1, <2>1 DEF Poll, dbVars, chainVars, apiVars, DbTypeOK, ChainTypeOK, WorkerTypeOK,
       ApiTypeOK, StageOK
<1>2. ASSUME NEW r \in Requests, Lock(k, r) PROVE Typing'
  <2>1. [status |-> status[r], relays |-> relays[r], inc |-> 0] \in Drafts
    BY DEF DbTypeOK, Drafts
  <2>2. WorkerTypeOK'
    BY <1>2, <2>1 DEF Lock, WorkerTypeOK
  <2>3. StageOK'
    BY <1>2 DEF Lock, WorkerTypeOK, StageOK, chainVars
  <2> QED
    BY <1>2, <2>2, <2>3 DEF Lock, dbVars, chainVars, apiVars, DbTypeOK, ChainTypeOK, ApiTypeOK
<1>3. CASE RejectBlocked(k)
  BY <1>3, <1>a, <1>b, <1>c, MoveTyping DEF RejectBlocked, InTx
<1>4. CASE FoundConfirmed(k)
  BY <1>4, <1>a, <1>b, <1>c, MoveTyping DEF FoundConfirmed, InTx
<1>5. CASE FoundSubmitted(k)
  BY <1>5, <1>a, <1>b, <1>d, CommitTyping DEF FoundSubmitted, InTx
<1>6. CASE RetriesExhausted(k)
  BY <1>6, <1>a, <1>b, <1>c, MoveTyping DEF RetriesExhausted, InTx
<1>7. CASE Prepare(k)
  <2>1. WorkerOnly /\ UNCHANGED batch
    BY <1>7 DEF Prepare
  <2>2. CASE EndJob(k)
    BY <2>1, <2>2, <1>a, <1>b, <1>d, EndJobTyping
  <2>3. CASE ~EndJob(k)
    <3> DEFINE d == [draft[k] EXCEPT !.status = IF @ = "pending" THEN "relayed" ELSE @,
                                     !.relays = Append(@, "submitted")]
    <3>1. d \in Drafts
      BY <1>d, AppendType DEF Drafts, RequestStates, SponsorshipStatus
    <3>2. /\ pc[k] = "locked"
          /\ pc' = [pc EXCEPT ![k] = "relaying"]
          /\ draft' = [draft EXCEPT ![k] = d]
          /\ UNCHANGED <<job, open, hash, result, batch>>
      BY <1>7, <2>3, <1>d DEF Prepare, InTx, WorkerTypeOK, Drafts
    <3> HIDE DEF d
    <3> QED
      BY <3>1, <3>2, <2>1, <1>a, <1>b DEF WorkerTypeOK, StageOK, chainVars
  <2> QED
    BY <2>2, <2>3
<1>8. ASSUME NEW t \in TxIds, CallRelay(k, t) PROVE Typing'
  <2>1. job[k] \in Requests /\ "calling" \in TxStates
    BY <1>8 DEF CallRelay, StageOK, TxStates
  <2> QED
    BY <1>8, <2>1 DEF CallRelay, dbVars, apiVars, DbTypeOK, ChainTypeOK, WorkerTypeOK, ApiTypeOK,
       StageOK
<1>9. ASSUME NEW res \in Results, Relayed(k, res) PROVE Typing'
  <2>1. WorkerTypeOK' /\ StageOK'
    BY <1>9 DEF Relayed, WorkerOnly, WorkerTypeOK, StageOK, chainVars
  <2> QED
    BY <1>9, <2>1, <1>a DEF Relayed
<1>10. CASE RelayAnswered(k) \/ RelayTimeout(k) \/ RelayError(k)
  <2>1. \A t : Outcome(t) \in Results
    BY DEF Outcome, Results
  <2> QED
    BY <1>9, <1>10, <2>1 DEF RelayAnswered, RelayTimeout, RelayError, Results
<1>11. CASE Conclude(k)
  <2>1. \A rows \in Seq(RelayStatus) :
          LastRelay(rows, "confirmed") \in Seq(RelayStatus) /\ LastRelay(rows, "failed") \in Seq(RelayStatus)
    BY LastRelayType DEF RelayStatus
  <2>2. \A s \in {"completed", "failed"}, row \in {"confirmed", "failed"} :
          [status |-> s, relays |-> LastRelay(draft[k].relays, row), inc |-> Increment(result[k])] \in Drafts
    BY <1>d, <2>1 DEF Drafts, RequestStates, SponsorshipStatus, Increment
  <2>3. WorkerOnly /\ pc[k] # "idle"
    BY <1>11 DEF Conclude, InTx
  <2>4. CASE EndJob(k) /\ UNCHANGED batch
    BY <2>3, <2>4, <1>a, <1>b, <1>d, EndJobTyping
  <2>5. CASE \E d \in Drafts : ReadyToCommit(k, d)
    BY <2>3, <2>5, <1>a, <1>b, CommitTyping
  <2> QED
    BY <1>11, <2>2, <2>4, <2>5 DEF Conclude
<1>12. CASE Commit(k)
  <2>1. WorkerTypeOK' /\ StageOK'
    BY <1>12, <1>d, EndJobTyping DEF Commit
  <2>2. /\ job[k] \in Requests
        /\ draft[k].status \in RequestStates
        /\ draft[k].relays \in Seq(RelayStatus)
        /\ draft[k].inc \in Nat
        /\ Owner[job[k]] \in Wallets
    BY <1>12, <1>d, OwnerAssumption DEF Commit, InTx, StageOK, Drafts
  <2>3. DbTypeOK'
    BY <1>12, <2>2 DEF Commit, DbTypeOK
  <2> QED
    BY <1>12, <2>1, <2>3 DEF Commit, chainVars, apiVars, ChainTypeOK, ApiTypeOK
<1>13. CASE FailDeadTx(k)
  BY <1>13, <1>a, <1>b, <1>d, EndJobTyping DEF FailDeadTx
<1>14. CASE TxTimeout(k)
  BY <1>14, LimitsAssumption DEF TxTimeout, dbVars, chainVars, apiVars, DbTypeOK, ChainTypeOK, WorkerTypeOK, ApiTypeOK,
     StageOK
<1>15. CASE Crash(k)
  <2>1. WorkerTypeOK' /\ StageOK'
    BY <1>15, EndJobTyping DEF Crash, WorkerTypeOK
  <2> QED
    BY <1>15, <2>1, LimitsAssumption DEF Crash, dbVars, chainVars, apiVars, DbTypeOK, ChainTypeOK,
       ApiTypeOK
<1> QED
  BY <1>1, <1>2, <1>3, <1>4, <1>5, <1>6, <1>7, <1>8, <1>10, <1>11, <1>12, <1>13, <1>14, <1>15
  DEF WorkerStep, Fault

LEMMA TypingStep == Typing /\ [Next]_vars => Typing'
<1> SUFFICES ASSUME Typing, [Next]_vars PROVE Typing'
  OBVIOUS
<1>1. CASE UNCHANGED vars
  BY <1>1 DEF vars, dbVars, chainVars, workerVars, apiVars, Typing, TypeOK, DbTypeOK, ChainTypeOK,
     WorkerTypeOK, ApiTypeOK, StageOK
<1> QED
  BY <1>1, ApiTyping, WalletTyping, WorkerTyping, ChainTyping DEF Next

\* Types hold in every reachable state, and every worker that is at work has a
\* request, whatever the order of steps, faults and answers.
THEOREM TypeCorrect == Spec => []TypeOK
<1>1. Typing => TypeOK
  BY DEF Typing
<1> QED
  BY TypingInit, TypingStep, <1>1, PTL DEF Spec

-----------------------------------------------------------------------------
(* Safety.                                                                  *)

LEMMA SafetyInit == Init => SafetyInv
<1> SUFFICES ASSUME Init PROVE SafetyInv
  OBVIOUS
<1>1. Typing
  BY TypingInit
<1>2. LockIsExclusive /\ NoLostResult /\ DraftIsHonest /\ CallIsForJob
  BY DEF Init, LockIsExclusive, NoLostResult, DraftIsHonest, Honest, CallIsForJob, CallMatches
<1>3. OneRequestInProgress
  BY LeftoversAssumption, StatusTypes DEF Init, OneRequestInProgress
<1>4. PaidIsRegistered /\ PaidAtMostOnce
  BY DEF Init, PaidIsRegistered, PaidAtMostOnce
<1>5. ConfirmedIsRegistered
  BY DEF Init, ConfirmedIsRegistered
<1>6. CompletedIsSponsored
  BY DEF Init, CompletedIsSponsored
<1> QED
  BY <1>1, <1>2, <1>3, <1>4, <1>5, <1>6 DEF SafetyInv

\* The API adds at most one pending request, to a wallet that has none in
\* progress, and touches nothing else that the invariant speaks of.
LEMMA ApiAdds ==
  ASSUME Typing, NEW h \in Handlers, ApiStep(h)
  PROVE  /\ UNCHANGED <<relays, sponsorshipCount, blocked, chainVars, workerVars, faults>>
         /\ \/ UNCHANGED status
            \/ \E r \in Requests :
                 /\ status[r] = "absent"
                 /\ status' = [status EXCEPT ![r] = "pending"]
                 /\ \A s \in Requests : Owner[s] = Owner[r] => status[s] \notin ActiveStatus
  BY DEF ApiStep, Submit, CheckActive, CheckCompleted, Lookup, Insert, IndexConflict, InStatus,
     OfWallet, dbVars

LEMMA ApiSafety ==
  ASSUME SafetyInv, NEW h \in Handlers, ApiStep(h)
  PROVE  SafetyInv'
<1> USE DEF SafetyInv
<1>1. Typing'
  BY ApiTyping
<1>2. UNCHANGED <<relays, registry, txReq, txState, pc, job, open, draft, hash, result>>
  BY ApiAdds DEF chainVars, workerVars
<1>3. CASE UNCHANGED status
  BY <1>1, <1>2, <1>3 DEF LockIsExclusive, NoLostResult, OneRequestInProgress, CallIsForJob,
     PaidIsRegistered, PaidAtMostOnce, ConfirmedIsRegistered, DraftIsHonest, CompletedIsSponsored,
     Recipient, Honest, CallMatches
<1>4. ASSUME NEW r \in Requests, status[r] = "absent",
             status' = [status EXCEPT ![r] = "pending"],
             \A s \in Requests : Owner[s] = Owner[r] => status[s] \notin ActiveStatus
      PROVE  SafetyInv'
  <2>1. \A s \in Requests : status'[s] = IF s = r THEN "pending" ELSE status[s]
    BY <1>4 DEF Typing, TypeOK, DbTypeOK
  <2>2. NoLostResult'
    BY <1>2, <2>1 DEF NoLostResult, Processable, Typing, TypeOK, WorkerTypeOK, StageOK
  <2>3. OneRequestInProgress'
    BY <1>4, <2>1 DEF OneRequestInProgress
  <2>4. CompletedIsSponsored'
    BY <1>2, <2>1 DEF CompletedIsSponsored
  <2> QED
    BY <1>1, <1>2, <2>2, <2>3, <2>4 DEF LockIsExclusive, CallIsForJob, PaidIsRegistered,
       PaidAtMostOnce, ConfirmedIsRegistered, DraftIsHonest, Recipient, Honest, CallMatches
<1> QED
  BY <1>3, <1>4, ApiAdds

LEMMA ChainSafety ==
  ASSUME SafetyInv, NEW t \in TxIds, ChainStep(t)
  PROVE  SafetyInv'
<1> USE DEF SafetyInv
<1>1. Typing'
  BY ChainTyping
<1>2. UNCHANGED <<dbVars, txReq, workerVars>> /\ registry \subseteq registry'
  BY DEF ChainStep, Send, Refuse, Mine, Revert, ChainOnly
<1>3. \E s \in TxStates \ {"free"} : txState' = [txState EXCEPT ![t] = s] /\ txState[t] # "free"
  BY DEF ChainStep, Send, Refuse, Mine, Revert, TxStates
<1>4. CallIsForJob'
  BY <1>2, <1>3 DEF CallIsForJob, CallMatches, Typing, TypeOK, ChainTypeOK, WorkerTypeOK, workerVars
<1>5. PaidIsRegistered' /\ PaidAtMostOnce'
  BY <1>2 DEF ChainStep, Send, Refuse, Mine, Revert, Payable, PaidIsRegistered, PaidAtMostOnce,
     Recipient, Typing, TypeOK, ChainTypeOK
<1> QED
  BY <1>1, <1>2, <1>4, <1>5 DEF LockIsExclusive, NoLostResult, OneRequestInProgress,
     ConfirmedIsRegistered, DraftIsHonest, Honest, CompletedIsSponsored, dbVars, workerVars

\* A step of worker k that the database and the chain do not see keeps the
\* invariant if what k holds after it is in order.
LEMMA LocalSafety ==
  ASSUME SafetyInv, Typing', NEW k \in Workers, UNCHANGED <<dbVars, chainVars>>,
         \A j \in Workers \ {k} :
           /\ pc'[j] = pc[j] /\ job'[j] = job[j] /\ open'[j] = open[j] /\ draft'[j] = draft[j]
           /\ hash'[j] = hash[j] /\ result'[j] = result[j],
         open'[k] =>
           /\ Processable(status[job'[k]])
           /\ \A j \in Workers \ {k} : ~(open[j] /\ job[j] = job'[k]),
         CallMatches(k)', Honest(k)'
  PROVE  SafetyInv'
<1> USE DEF SafetyInv
<1>1. UNCHANGED <<status, relays, registry, txReq, txState>>
  BY DEF dbVars, chainVars
<1>2. LockIsExclusive'
  BY DEF LockIsExclusive
<1>3. NoLostResult'
  BY <1>1 DEF NoLostResult
<1>4. CallIsForJob' /\ DraftIsHonest'
  BY <1>1 DEF CallIsForJob, CallMatches, DraftIsHonest, Honest
<1> QED
  BY <1>1, <1>2, <1>3, <1>4 DEF OneRequestInProgress, PaidIsRegistered, PaidAtMostOnce, Recipient,
     ConfirmedIsRegistered, CompletedIsSponsored

\* The end of a run, by return, throw or crash, leaves nothing to check.
LEMMA EndSafety ==
  ASSUME SafetyInv, Typing', NEW k \in Workers, EndJob(k), UNCHANGED <<dbVars, chainVars>>
  PROVE  SafetyInv'
<1>1. \A j \in Workers \ {k} :
        /\ pc'[j] = pc[j] /\ job'[j] = job[j] /\ open'[j] = open[j] /\ draft'[j] = draft[j]
        /\ hash'[j] = hash[j] /\ result'[j] = result[j]
  BY DEF EndJob, SafetyInv, Typing, TypeOK, WorkerTypeOK
<1>2. ~open'[k] /\ hash'[k] = None
  BY DEF EndJob, SafetyInv, Typing, TypeOK, WorkerTypeOK
<1>3. CallMatches(k)' /\ Honest(k)'
  BY <1>2 DEF CallMatches, Honest
<1> QED
  BY <1>1, <1>2, <1>3, LocalSafety

\* A live transaction may go on to its COMMIT with an honest draft.
LEMMA ReadySafety ==
  ASSUME SafetyInv, Typing', NEW k \in Workers, NEW d \in Drafts, ReadyToCommit(k, d), open[k],
         UNCHANGED <<dbVars, chainVars>>,
         d.status # "absent",
         \/ d.status = "completed"
         \/ \E i \in DOMAIN d.relays : d.relays[i] = "confirmed"
         => Owner[job[k]] \in registry
  PROVE  SafetyInv'
<1> USE DEF SafetyInv
<1>1. \A j \in Workers \ {k} :
        /\ pc'[j] = pc[j] /\ job'[j] = job[j] /\ open'[j] = open[j] /\ draft'[j] = draft[j]
        /\ hash'[j] = hash[j] /\ result'[j] = result[j]
  BY DEF ReadyToCommit, Typing, TypeOK, WorkerTypeOK
<1>2. draft'[k] = d /\ pc'[k] = "committing" /\ UNCHANGED <<job, open, hash, result, registry, txReq, txState>>
  BY DEF ReadyToCommit, Typing, TypeOK, WorkerTypeOK, chainVars
<1>3. CallMatches(k)' /\ Honest(k)'
  BY <1>2 DEF CallMatches, Honest, CallIsForJob
<1>4. /\ Processable(status[job[k]])
      /\ \A j \in Workers \ {k} : ~(open[j] /\ job[j] = job[k])
  BY DEF NoLostResult, LockIsExclusive
<1> QED
  BY <1>1, <1>2, <1>3, <1>4, LocalSafety

\* The same for a transition of the request, which throws if it is not valid.
LEMMA MoveSafety ==
  ASSUME SafetyInv, Typing', NEW k \in Workers, NEW s \in SponsorshipStatus, NEW inc \in 0..1,
         MoveTo(k, s, inc), InTx(k, "locked"), WorkerOnly,
         s = "completed" => Owner[job[k]] \in registry
  PROVE  SafetyInv'
<1> DEFINE d == [draft[k] EXCEPT !.status = s, !.inc = inc]
<1>1. /\ open[k] /\ draft[k] \in Drafts /\ pc[k] = "locked"
      /\ UNCHANGED <<dbVars, chainVars>>
  BY DEF InTx, SafetyInv, Typing, TypeOK, WorkerTypeOK, WorkerOnly
<1>2. d \in Drafts /\ d.status = s /\ d.relays = draft[k].relays /\ s # "absent"
  BY <1>1 DEF Drafts, RequestStates, SponsorshipStatus
<1>3. (\E i \in DOMAIN draft[k].relays : draft[k].relays[i] = "confirmed")
        => Owner[job[k]] \in registry
  BY <1>1 DEF SafetyInv, DraftIsHonest, Honest
<1>4. CASE ReadyToCommit(k, d)
  <2> HIDE DEF d
  <2> QED
    BY <1>1, <1>2, <1>3, <1>4, ReadySafety
<1>5. CASE EndJob(k)
  BY <1>1, <1>5, EndSafety
<1> QED
  BY <1>4, <1>5 DEF MoveTo

LEMMA CommitSafety ==
  ASSUME SafetyInv, Typing', NEW k \in Workers, Commit(k)
  PROVE  SafetyInv'
<1> USE DEF SafetyInv
<1>1. /\ open[k] /\ pc[k] = "committing" /\ job[k] \in Requests
      /\ Processable(status[job[k]])
      /\ \A j \in Workers \ {k} : open[j] => job[j] # job[k]
  BY DEF Commit, InTx, NoLostResult, LockIsExclusive, Typing, StageOK
<1>2. /\ \A r \in Requests : status'[r] = IF r = job[k] THEN draft[k].status ELSE status[r]
      /\ \A r \in Requests : relays'[r] = IF r = job[k] THEN draft[k].relays ELSE relays[r]
      /\ UNCHANGED <<registry, txReq, txState>>
  BY <1>1 DEF Commit, chainVars, Typing, TypeOK, DbTypeOK
<1>3. /\ ~open'[k] /\ hash'[k] = None
      /\ \A j \in Workers \ {k} :
           /\ pc'[j] = pc[j] /\ job'[j] = job[j] /\ open'[j] = open[j] /\ draft'[j] = draft[j]
           /\ hash'[j] = hash[j] /\ result'[j] = result[j]
  BY DEF Commit, EndJob, Typing, TypeOK, WorkerTypeOK
<1>4. /\ draft[k].status # "absent"
      /\ \/ draft[k].status = "completed"
         \/ \E i \in DOMAIN draft[k].relays : draft[k].relays[i] = "confirmed"
         => Owner[job[k]] \in registry
  BY <1>1 DEF DraftIsHonest, Honest
<1>5. LockIsExclusive'
  BY <1>3 DEF LockIsExclusive
<1>6. NoLostResult'
  BY <1>1, <1>2, <1>3 DEF NoLostResult, Typing, TypeOK, WorkerTypeOK, StageOK
<1>7. OneRequestInProgress'
  BY <1>1, <1>2, StatusTypes DEF OneRequestInProgress, Processable
<1>8. CallIsForJob' /\ DraftIsHonest'
  BY <1>2, <1>3 DEF CallIsForJob, CallMatches, DraftIsHonest, Honest
<1>9. ConfirmedIsRegistered' /\ CompletedIsSponsored'
  BY <1>2, <1>4 DEF ConfirmedIsRegistered, CompletedIsSponsored
<1> QED
  BY <1>2, <1>5, <1>6, <1>7, <1>8, <1>9 DEF PaidIsRegistered, PaidAtMostOnce, Recipient

LEMMA LockSafety ==
  ASSUME SafetyInv, Typing', NEW k \in Workers, NEW r \in Requests, Lock(k, r)
  PROVE  SafetyInv'
<1> USE DEF SafetyInv
<1>1. UNCHANGED <<dbVars, chainVars, hash, result>> /\ pc[k] = "idle" /\ ~open[k] /\ hash[k] = None
  BY DEF Lock, Typing, StageOK
<1>2. CASE UNCHANGED <<pc, job, open, draft>>
  BY <1>1, <1>2, LocalSafety DEF CallMatches, Honest, chainVars
<1>3. CASE ~LockedByOther(k, r) /\ Processable(status[r])
  <2>1. /\ \A j \in Workers \ {k} : ~(open[j] /\ job[j] = r)
        /\ pc'[k] = "locked" /\ job'[k] = r
        /\ draft'[k] = [status |-> status[r], relays |-> relays[r], inc |-> 0]
        /\ \A j \in Workers \ {k} :
             pc'[j] = pc[j] /\ job'[j] = job[j] /\ open'[j] = open[j] /\ draft'[j] = draft[j]
    BY <1>3 DEF Lock, LockedByOther, Typing, TypeOK, WorkerTypeOK
  <2>2. Honest(k)'
    BY <1>1, <1>3, <2>1 DEF Honest, Processable, ConfirmedIsRegistered, chainVars
  <2>3. CallMatches(k)'
    BY <1>1 DEF CallMatches
  <2> QED
    BY <1>1, <1>3, <2>1, <2>2, <2>3, LocalSafety
<1> QED
  BY <1>2, <1>3 DEF Lock

LEMMA PrepareSafety ==
  ASSUME SafetyInv, Typing', NEW k \in Workers, Prepare(k)
  PROVE  SafetyInv'
<1> USE DEF SafetyInv
<1>1. /\ UNCHANGED <<dbVars, chainVars>> /\ open[k] /\ pc[k] = "locked"
      /\ draft[k] \in Drafts
  BY DEF Prepare, InTx, WorkerOnly, Typing, TypeOK, WorkerTypeOK
<1>2. CASE EndJob(k)
  BY <1>1, <1>2, EndSafety
<1>3. CASE ~EndJob(k)
  <2>1. /\ pc' = [pc EXCEPT ![k] = "relaying"]
        /\ draft' = [draft EXCEPT ![k].status = IF @ = "pending" THEN "relayed" ELSE @,
                                  ![k].relays = Append(@, "submitted")]
        /\ UNCHANGED <<job, open, hash, result>>
    BY <1>3 DEF Prepare
  <2>2. /\ draft'[k].status = "relayed" /\ draft'[k].relays = Append(draft[k].relays, "submitted")
        /\ pc'[k] = "relaying"
    BY <1>1, <2>1 DEF Typing, TypeOK, WorkerTypeOK, Drafts, DraftIsHonest, Honest
  <2>3. (\E i \in DOMAIN draft'[k].relays : draft'[k].relays[i] = "confirmed")
          => \E i \in DOMAIN draft[k].relays : draft[k].relays[i] = "confirmed"
    BY <1>1, <2>2 DEF Drafts
  <2>4. Honest(k)'
    BY <1>1, <2>1, <2>2, <2>3 DEF DraftIsHonest, Honest, chainVars
  <2>5. CallMatches(k)'
    BY <1>1, <2>1 DEF CallIsForJob, CallMatches, chainVars
  <2>6. \A j \in Workers \ {k} : pc'[j] = pc[j] /\ draft'[j] = draft[j]
    BY <2>1 DEF Typing, TypeOK, WorkerTypeOK
  <2>7. /\ Processable(status[job[k]])
        /\ \A j \in Workers \ {k} : ~(open[j] /\ job[j] = job[k])
    BY <1>1 DEF NoLostResult, LockIsExclusive
  <2> QED
    BY <1>1, <2>1, <2>4, <2>5, <2>6, <2>7, LocalSafety
<1> QED
  BY <1>2, <1>3

LEMMA CallSafety ==
  ASSUME SafetyInv, Typing', NEW k \in Workers, NEW t \in TxIds, CallRelay(k, t)
  PROVE  SafetyInv'
<1> USE DEF SafetyInv
<1>1. UNCHANGED <<status, relays, registry, pc, job, open, draft, result>> /\ txState[t] = "free"
  BY DEF CallRelay, dbVars
<1>2. /\ \A u \in TxIds : txReq'[u] = IF u = t THEN job[k] ELSE txReq[u]
      /\ \A u \in TxIds : txState'[u] = IF u = t THEN "calling" ELSE txState[u]
      /\ \A j \in Workers : hash'[j] = IF j = k THEN t ELSE hash[j]
  BY DEF CallRelay, Typing, TypeOK, ChainTypeOK, WorkerTypeOK
<1>3. CallIsForJob'
  BY <1>1, <1>2 DEF CallIsForJob, CallMatches, Typing, TypeOK, WorkerTypeOK
<1>4. PaidIsRegistered' /\ PaidAtMostOnce'
  BY <1>1, <1>2 DEF PaidIsRegistered, PaidAtMostOnce, Recipient
<1> QED
  BY <1>1, <1>3, <1>4 DEF LockIsExclusive, NoLostResult, OneRequestInProgress, DraftIsHonest, Honest,
     ConfirmedIsRegistered, CompletedIsSponsored

LEMMA RelayedSafety ==
  ASSUME SafetyInv, Typing', NEW k \in Workers, NEW res \in Results, Relayed(k, res),
         CountsAsSuccess(res) => Owner[job[k]] \in registry
  PROVE  SafetyInv'
<1> USE DEF SafetyInv
<1>1. UNCHANGED <<dbVars, chainVars, job, open, draft, hash>> /\ pc[k] = "relaying"
  BY DEF Relayed, WorkerOnly
<1>2. /\ pc'[k] = "concluding" /\ result'[k] = res
      /\ \A j \in Workers \ {k} : pc'[j] = pc[j] /\ result'[j] = result[j]
  BY DEF Relayed, Typing, TypeOK, WorkerTypeOK
<1>3. CallMatches(k)' /\ Honest(k)'
  BY <1>1, <1>2 DEF CallIsForJob, CallMatches, DraftIsHonest, Honest, chainVars
<1>4. open[k] => /\ Processable(status[job[k]])
                 /\ \A j \in Workers \ {k} : ~(open[j] /\ job[j] = job[k])
  BY DEF NoLostResult, LockIsExclusive
<1> QED
  BY <1>1, <1>2, <1>3, <1>4, LocalSafety

\* What the executor answers is true of the chain.
LEMMA AnswerSafety ==
  ASSUME SafetyInv, Typing', NEW k \in Workers,
         RelayAnswered(k) \/ RelayTimeout(k) \/ RelayError(k)
  PROVE  SafetyInv'
<1>1. CASE RelayAnswered(k)
  <2>1. Relayed(k, Outcome(hash[k])) /\ Outcome(hash[k]) \in Results
    BY <1>1 DEF RelayAnswered, Outcome, Results
  <2>2. hash[k] \in TxIds /\ txReq[hash[k]] = job[k]
    BY <1>1 DEF RelayAnswered, SafetyInv, Typing, TypeOK, WorkerTypeOK, CallIsForJob, CallMatches
  <2>3. CountsAsSuccess(Outcome(hash[k])) => txState[hash[k]] \in {"success", "duplicate"}
    BY DEF CountsAsSuccess, Outcome
  <2>4. CountsAsSuccess(Outcome(hash[k])) => Owner[job[k]] \in registry
    BY <2>2, <2>3 DEF SafetyInv, PaidIsRegistered, Recipient
  <2> QED
    BY <2>1, <2>4, RelayedSafety
<1>2. CASE RelayTimeout(k) \/ RelayError(k)
  BY <1>2, RelayedSafety DEF RelayTimeout, RelayError, CountsAsSuccess, Results
<1> QED
  BY <1>1, <1>2

LEMMA ConcludeSafety ==
  ASSUME SafetyInv, Typing', NEW k \in Workers, Conclude(k)
  PROVE  SafetyInv'
<1> DEFINE done == CountsAsSuccess(result[k])
           s    == IF done THEN "completed" ELSE "failed"
           row  == IF done THEN "confirmed" ELSE "failed"
           d    == [status |-> s, relays |-> LastRelay(draft[k].relays, row),
                    inc |-> Increment(result[k])]
<1>1. /\ UNCHANGED <<dbVars, chainVars>> /\ open[k] /\ pc[k] = "concluding"
      /\ draft[k] \in Drafts
      /\ EndJob(k) \/ ReadyToCommit(k, d)
  BY DEF Conclude, InTx, WorkerOnly, SafetyInv, Typing, TypeOK, WorkerTypeOK
<1>2. CASE EndJob(k)
  BY <1>1, <1>2, EndSafety
<1>3. CASE ReadyToCommit(k, d)
  <2>1. LastRelay(draft[k].relays, row) \in Seq(RelayStatus)
    BY <1>1, LastRelayType DEF Drafts, RelayStatus
  <2>2. d \in Drafts /\ d.status # "absent"
    BY <2>1 DEF Drafts, RequestStates, SponsorshipStatus, Increment
  <2>3. d.status = "completed" => Owner[job[k]] \in registry
    BY <1>1 DEF SafetyInv, DraftIsHonest, Honest
  <2>4. \A i \in DOMAIN d.relays :
          d.relays[i] = "confirmed"
            => done \/ \E j \in DOMAIN draft[k].relays : draft[k].relays[j] = "confirmed"
    BY DEF LastRelay
  <2>5. (\E i \in DOMAIN d.relays : d.relays[i] = "confirmed") => Owner[job[k]] \in registry
    BY <1>1, <2>4 DEF SafetyInv, DraftIsHonest, Honest
  <2> HIDE DEF d
  <2> QED
    BY <1>1, <1>3, <2>2, <2>3, <2>5, ReadySafety
<1> QED
  BY <1>1, <1>2, <1>3

LEMMA WorkerSafety ==
  ASSUME SafetyInv, NEW k \in Workers, WorkerStep(k) \/ Fault(k)
  PROVE  SafetyInv'
<1>0. Typing'
  BY WorkerTyping DEF SafetyInv
<1>c. {"rejected", "completed", "failed"} \subseteq SponsorshipStatus
  BY DEF SponsorshipStatus
<1>1. CASE Poll(k)
  BY <1>0, <1>1, LocalSafety DEF Poll, chainVars, SafetyInv, CallIsForJob, CallMatches, DraftIsHonest,
     Honest, NoLostResult, LockIsExclusive
<1>2. CASE \E r \in Requests : Lock(k, r)
  BY <1>0, <1>2, LockSafety
<1>3. CASE RejectBlocked(k)
  BY <1>0, <1>3, <1>c, MoveSafety DEF RejectBlocked
<1>4. CASE FoundConfirmed(k)
  <2>1. Owner[job[k]] \in registry
    BY <1>4 DEF FoundConfirmed, InTx, SafetyInv, DraftIsHonest, Honest
  <2> QED
    BY <1>0, <1>4, <1>c, <2>1, MoveSafety DEF FoundConfirmed
<1>5. CASE FoundSubmitted(k)
  <2>1. /\ draft[k] \in Drafts /\ open[k] /\ UNCHANGED <<dbVars, chainVars>>
        /\ ReadyToCommit(k, draft[k]) /\ pc[k] = "locked"
    BY <1>5 DEF FoundSubmitted, InTx, WorkerOnly, SafetyInv, Typing, TypeOK, WorkerTypeOK
  <2> QED
    BY <1>0, <2>1, ReadySafety DEF SafetyInv, DraftIsHonest, Honest
<1>6. CASE RetriesExhausted(k)
  BY <1>0, <1>6, <1>c, MoveSafety DEF RetriesExhausted
<1>7. CASE Prepare(k)
  BY <1>0, <1>7, PrepareSafety
<1>8. CASE \E t \in TxIds : CallRelay(k, t)
  BY <1>0, <1>8, CallSafety
<1>9. CASE RelayAnswered(k) \/ RelayTimeout(k) \/ RelayError(k)
  BY <1>0, <1>9, AnswerSafety
<1>10. CASE Conclude(k)
  BY <1>0, <1>10, ConcludeSafety
<1>11. CASE Commit(k)
  BY <1>0, <1>11, CommitSafety
<1>12. CASE FailDeadTx(k) \/ Crash(k)
  BY <1>0, <1>12, EndSafety DEF FailDeadTx, Crash, WorkerOnly
<1>13. CASE TxTimeout(k)
  <2>1. /\ UNCHANGED <<dbVars, chainVars, pc, job, draft, hash, result>>
        /\ ~open'[k] /\ \A j \in Workers \ {k} : open'[j] = open[j]
    BY <1>13 DEF TxTimeout, SafetyInv, Typing, TypeOK, WorkerTypeOK
  <2>2. CallMatches(k)' /\ Honest(k)'
    BY <2>1 DEF CallMatches, Honest, SafetyInv, CallIsForJob, chainVars
  <2> QED
    BY <1>0, <2>1, <2>2, LocalSafety
<1> QED
  BY <1>1, <1>2, <1>3, <1>4, <1>5, <1>6, <1>7, <1>8, <1>9, <1>10, <1>11, <1>12, <1>13
  DEF WorkerStep, Fault

LEMMA SafetyStep == SafetyInv /\ [Next]_vars => SafetyInv'
<1> SUFFICES ASSUME SafetyInv, [Next]_vars PROVE SafetyInv'
  OBVIOUS
<1>0. Typing'
  BY TypingStep DEF SafetyInv
<1>1. CASE \E h \in Handlers : ApiStep(h)
  BY <1>1, ApiSafety
<1>2. CASE \E w \in Wallets : WalletStep(w)
  <2>1. UNCHANGED <<status, relays, chainVars, workerVars>>
    BY <1>2 DEF WalletStep, BlockWallet, Register, dbVars
  <2> QED
    BY <1>0, <2>1 DEF SafetyInv, chainVars, workerVars, LockIsExclusive, NoLostResult,
       OneRequestInProgress, CallIsForJob, CallMatches, PaidIsRegistered, PaidAtMostOnce, Recipient,
       ConfirmedIsRegistered, DraftIsHonest, Honest, CompletedIsSponsored
<1>3. CASE \E k \in Workers : WorkerStep(k) \/ Fault(k)
  BY <1>3, WorkerSafety
<1>4. CASE \E t \in TxIds : ChainStep(t)
  BY <1>4, ChainSafety
<1>5. CASE UNCHANGED vars
  BY <1>0, <1>5 DEF SafetyInv, vars, dbVars, chainVars, workerVars, LockIsExclusive, NoLostResult,
     OneRequestInProgress, CallIsForJob, CallMatches, PaidIsRegistered, PaidAtMostOnce, Recipient,
     ConfirmedIsRegistered, DraftIsHonest, Honest, CompletedIsSponsored
<1> QED
  BY <1>1, <1>2, <1>3, <1>4, <1>5 DEF Next

\* The strengthened invariant holds of every behaviour: locks, drafts, calls
\* and the registry stay consistent under every fault the model has.
THEOREM SafetyInvariant == Spec => []SafetyInv
  BY SafetyInit, SafetyStep, PTL DEF Spec

\* No request is ever completed for a wallet the registry does not have
\* (processor.ts completes on a receipt or on AlreadySponsored).
THEOREM CompletedOnlyIfSponsored == Spec => []CompletedIsSponsored
<1>1. SafetyInv => CompletedIsSponsored
  BY DEF SafetyInv
<1> QED
  BY <1>1, SafetyInvariant, PTL

\* No wallet is paid twice, however many workers relay for it.
THEOREM NeverPaidTwice == Spec => []PaidAtMostOnce
<1>1. SafetyInv => PaidAtMostOnce
  BY DEF SafetyInv
<1> QED
  BY <1>1, SafetyInvariant, PTL

\* A wallet has at most one request in progress.
THEOREM NeverTwoInProgress == Spec => []OneRequestInProgress
<1>1. SafetyInv => OneRequestInProgress
  BY DEF SafetyInv
<1> QED
  BY <1>1, SafetyInvariant, PTL

\* The row lock is exclusive, and what it has read stays true while it is held.
THEOREM LockIsReal == Spec => [](LockIsExclusive /\ NoLostResult)
<1>1. SafetyInv => LockIsExclusive /\ NoLostResult
  BY DEF SafetyInv
<1> QED
  BY <1>1, SafetyInvariant, PTL

-----------------------------------------------------------------------------
(* What a step may not do.                                                  *)

\* Rows change only by an INSERT of a new pending request, or by the COMMIT of
\* a worker that holds the lock of a processable one.
LEMMA RowChange ==
  ASSUME SafetyInv, [Next]_vars
  PROVE  \/ UNCHANGED <<status, relays>>
         \/ \E r \in Requests :
              /\ status[r] = "absent" /\ UNCHANGED relays
              /\ status' = [status EXCEPT ![r] = "pending"]
              /\ \A s \in Requests : Owner[s] = Owner[r] => status[s] \notin ActiveStatus
         \/ \E k \in Workers : Commit(k) /\ Processable(status[job[k]])
<1>1. CASE \E h \in Handlers : ApiStep(h)
  BY <1>1, ApiAdds DEF SafetyInv
<1>2. CASE \E k \in Workers : Commit(k)
  BY <1>2 DEF Commit, InTx, SafetyInv, NoLostResult
<1>3. CASE \E k \in Workers : (WorkerStep(k) \/ Fault(k)) /\ ~Commit(k)
  <2>1. PICK k \in Workers : (WorkerStep(k) \/ Fault(k)) /\ ~Commit(k)
    BY <1>3
  <2>2. UNCHANGED dbVars
    BY <2>1 DEF WorkerStep, Fault, Poll, Lock, RejectBlocked, FoundConfirmed, FoundSubmitted,
       RetriesExhausted, Prepare, CallRelay, RelayAnswered, RelayTimeout, RelayError, Relayed,
       Conclude, FailDeadTx, TxTimeout, Crash, WorkerOnly
  <2> QED
    BY <2>2 DEF dbVars
<1>4. CASE \E t \in TxIds : ChainStep(t)
  BY <1>4 DEF ChainStep, Send, Refuse, Mine, Revert, ChainOnly, dbVars
<1>5. CASE UNCHANGED vars \/ \E w \in Wallets : WalletStep(w)
  BY <1>5 DEF vars, dbVars, WalletStep, BlockWallet, Register
<1> QED
  BY <1>1, <1>2, <1>3, <1>4, <1>5 DEF Next

\* A request that is settled stays as it is: a worker that lost its lock, or
\* one that polled the request before, cannot touch it any more.
THEOREM SettledStays == Spec => SettledForGood
<1>1. ASSUME SafetyInv, [Next]_vars, NEW r \in Requests, status[r] \in TerminalStatus
      PROVE  status'[r] = status[r] /\ relays'[r] = relays[r]
  <2>1. status \in [Requests -> RequestStates] /\ relays \in [Requests -> Seq(RelayStatus)]
    BY <1>1 DEF SafetyInv, Typing, TypeOK, DbTypeOK
  <2>2. CASE \E k \in Workers : Commit(k) /\ Processable(status[job[k]])
    BY <1>1, <2>1, <2>2, StatusTypes DEF Commit, Processable
  <2>3. CASE \E s \in Requests : status[s] = "absent" /\ UNCHANGED relays
                                   /\ status' = [status EXCEPT ![s] = "pending"]
    BY <1>1, <2>1, <2>3, StatusTypes
  <2> QED
    BY <1>1, <2>2, <2>3, RowChange
<1>2. SafetyInv /\ [Next]_vars =>
        [\A r \in Requests : status[r] \in TerminalStatus =>
           status'[r] = status[r] /\ relays'[r] = relays[r]]_vars
  BY <1>1
<1> QED
  BY <1>2, SafetyInvariant, PTL DEF Spec, SettledForGood

-----------------------------------------------------------------------------
(* Admission.                                                               *)

\* A request never disappears, and its settlement is final.
LEMMA StatusStep ==
  ASSUME SafetyInv, [Next]_vars, NEW r \in Requests
  PROVE  /\ status[r] # "absent" => status'[r] # "absent"
         /\ status[r] \in TerminalStatus => status'[r] = status[r]
<1>1. status \in [Requests -> RequestStates]
  BY DEF SafetyInv, Typing, TypeOK, DbTypeOK
<1>2. ASSUME NEW k \in Workers, Commit(k), Processable(status[job[k]])
      PROVE  /\ status[r] # "absent" => status'[r] # "absent"
             /\ status[r] \in TerminalStatus => status'[r] = status[r]
  BY <1>1, <1>2, StatusTypes DEF Commit, InTx, Processable, SafetyInv, DraftIsHonest, Honest
<1>3. ASSUME NEW s \in Requests, status[s] = "absent", status' = [status EXCEPT ![s] = "pending"]
      PROVE  /\ status[r] # "absent" => status'[r] # "absent"
             /\ status[r] \in TerminalStatus => status'[r] = status[r]
  BY <1>1, <1>3, StatusTypes
<1> QED
  BY <1>2, <1>3, RowChange

LEMMA SeenInit == Init => SeenStaysSettled
  BY DEF Init, SeenStaysSettled

LEMMA SeenStep == SafetyInv /\ SeenStaysSettled /\ [Next]_vars => SeenStaysSettled'
<1> SUFFICES ASSUME SafetyInv, SeenStaysSettled, [Next]_vars PROVE SeenStaysSettled'
  OBVIOUS
<1>0. /\ hpc \in [Handlers -> {"idle", "active", "completed", "insert"}]
      /\ hwallet \in [Handlers -> Wallets \cup {None}]
      /\ hseen \in [Handlers -> SUBSET Requests]
      /\ status \in [Requests -> RequestStates]
  BY DEF SafetyInv, Typing, TypeOK, ApiTypeOK, DbTypeOK
<1>1. CASE UNCHANGED apiVars
  BY <1>0, <1>1, StatusStep, StatusTypes DEF SeenStaysSettled, apiVars
<1>2. ASSUME NEW h \in Handlers, ApiStep(h) PROVE SeenStaysSettled'
  <2>1. \A g \in Handlers \ {h} : hpc'[g] = hpc[g] /\ hwallet'[g] = hwallet[g] /\ hseen'[g] = hseen[g]
    BY <1>0, <1>2 DEF ApiStep, Submit, CheckActive, CheckCompleted, Lookup, Insert, Answer, apiVars
  <2>2. \A g \in Handlers \ {h} : \A r \in hseen'[g] :
          /\ Owner[r] = hwallet'[g] /\ status'[r] # "absent"
          /\ hpc'[g] = "completed" => status'[r] \in TerminalStatus
          /\ hpc'[g] = "insert" => status'[r] \in {"failed", "rejected"}
    BY <1>0, <2>1, StatusStep, StatusTypes DEF SeenStaysSettled
  <2>3. CASE hseen'[h] = {}
    BY <2>2, <2>3 DEF SeenStaysSettled
  <2>4. ASSUME NEW w \in Wallets, Submit(h, w), hseen'[h] # {} PROVE SeenStaysSettled'
    <3>1. CASE w \in blocked
      BY <1>0, <2>2, <2>4, <3>1 DEF Submit, dbVars, SeenStaysSettled
    <3>2. CASE w \notin blocked
      <4>1. /\ hpc'[h] = "active" /\ hwallet'[h] = w /\ UNCHANGED status
            /\ hseen'[h] = InStatus(w, ActiveStatus \cup {"completed"})
        BY <1>0, <2>4, <3>2 DEF Submit, dbVars
      <4> QED
        BY <2>2, <4>1, StatusTypes DEF InStatus, OfWallet, SeenStaysSettled
    <3> QED
      BY <3>1, <3>2
  <2>5. CASE CheckActive(h) /\ hseen'[h] # {}
    <3>1. /\ hpc[h] = "active" /\ hpc'[h] = "completed" /\ UNCHANGED <<hwallet, hseen, status>>
          /\ InStatus(hwallet[h], ActiveStatus) = {}
      BY <1>0, <2>5 DEF CheckActive, Lookup, LookupSets, Answer, dbVars
    <3>2. \A r \in hseen[h] : status[r] \in RequestStates \ (ActiveStatus \cup {"absent"})
      BY <1>0, <3>1 DEF SeenStaysSettled, InStatus, OfWallet
    <3> QED
      BY <2>2, <3>1, <3>2, StatusTypes DEF SeenStaysSettled, RequestStates, SponsorshipStatus
  <2>6. CASE CheckCompleted(h) /\ hseen'[h] # {}
    <3>1. /\ hpc[h] = "completed" /\ hpc'[h] = "insert" /\ UNCHANGED <<hwallet, hseen, status>>
          /\ InStatus(hwallet[h], {"completed"}) = {}
      BY <1>0, <2>6 DEF CheckCompleted, Lookup, LookupSets, Answer, dbVars
    <3>2. \A r \in hseen[h] : status[r] \in TerminalStatus \ {"completed"}
      BY <1>0, <3>1 DEF SeenStaysSettled, InStatus, OfWallet
    <3> QED
      BY <2>2, <3>1, <3>2, StatusTypes DEF SeenStaysSettled
  <2>7. CASE Insert(h)
    BY <1>0, <2>3, <2>7 DEF Insert, Answer
  <2> QED
    BY <1>2, <2>3, <2>4, <2>5, <2>6, <2>7 DEF ApiStep
<1>3. CASE \E k \in Workers : WorkerStep(k) \/ Fault(k)
  <2>1. UNCHANGED apiVars
    BY <1>3 DEF WorkerStep, Fault, Poll, Lock, RejectBlocked, FoundConfirmed, FoundSubmitted,
       RetriesExhausted, Prepare, CallRelay, RelayAnswered, RelayTimeout, RelayError, Relayed,
       Conclude, Commit, FailDeadTx, TxTimeout, Crash, WorkerOnly
  <2> QED
    BY <1>1, <2>1
<1>4. CASE \/ \E t \in TxIds : ChainStep(t)
           \/ \E w \in Wallets : WalletStep(w)
           \/ UNCHANGED vars
  <2>1. UNCHANGED apiVars
    BY <1>4 DEF ChainStep, Send, Refuse, Mine, Revert, ChainOnly, WalletStep, BlockWallet, Register, vars
  <2> QED
    BY <1>1, <2>1
<1> QED
  BY <1>2, <1>3, <1>4 DEF Next

\* A submission that reaches its INSERT does so after every request it had seen
\* in progress or completed was settled without success: the order of the two
\* lookups of validateNoPendingRequest is enough, with no transaction.
THEOREM AdmittedAfterFailure == Spec => []AcceptedAfterFailure
<1>1. SeenStaysSettled => AcceptedAfterFailure
  BY DEF SeenStaysSettled, AcceptedAfterFailure
<1> QED
  BY <1>1, SeenInit, SeenStep, SafetyInvariant, PTL DEF Spec

-----------------------------------------------------------------------------
(* The count of a wallet.                                                   *)

LEMMA CountsInit == Init => DraftCountsOnce
  BY DEF Init, DraftCountsOnce, CountsOnce

LEMMA WorkerCounts ==
  ASSUME SafetyInv, DraftCountsOnce, NEW k \in Workers, WorkerStep(k) \/ Fault(k)
  PROVE  DraftCountsOnce'
<1>0. /\ pc \in [Workers -> {"idle", "locked", "relaying", "concluding", "committing"}]
      /\ open \in [Workers -> BOOLEAN] /\ draft \in [Workers -> Drafts]
      /\ CountsOnce(k)
      /\ open[k] /\ pc[k] # "committing" => draft[k].status \in {"pending", "relayed"}
  BY DEF SafetyInv, Typing, TypeOK, WorkerTypeOK, DraftCountsOnce, DraftIsHonest, Honest
<1>1. SUFFICES /\ CountsOnce(k)'
               /\ \A j \in Workers \ {k} : open'[j] = open[j] /\ draft'[j] = draft[j]
  BY DEF DraftCountsOnce, CountsOnce
<1>2. CASE Poll(k) \/ \E t \in TxIds : CallRelay(k, t)
  BY <1>0, <1>2 DEF Poll, CallRelay, CountsOnce
<1>3. CASE \E r \in Requests : Lock(k, r)
  BY <1>0, <1>3 DEF Lock, CountsOnce, Processable
<1>4. ASSUME NEW s, NEW inc, inc = (IF s = "completed" THEN 1 ELSE 0), MoveTo(k, s, inc)
      PROVE  CountsOnce(k)' /\ \A j \in Workers \ {k} : open'[j] = open[j] /\ draft'[j] = draft[j]
  <2>1. CASE EndJob(k)
    BY <1>0, <2>1 DEF EndJob, CountsOnce
  <2>2. CASE ReadyToCommit(k, [draft[k] EXCEPT !.status = s, !.inc = inc])
    BY <1>0, <1>4, <2>2 DEF ReadyToCommit, CountsOnce, Drafts
  <2> QED
    BY <1>4, <2>1, <2>2 DEF MoveTo
<1>5. CASE RejectBlocked(k)
  BY <1>4, <1>5 DEF RejectBlocked
<1>6. CASE FoundConfirmed(k)
  BY <1>4, <1>6 DEF FoundConfirmed
<1>7. CASE RetriesExhausted(k)
  BY <1>4, <1>7 DEF RetriesExhausted
<1>8. CASE FoundSubmitted(k)
  BY <1>0, <1>8 DEF FoundSubmitted, ReadyToCommit, CountsOnce
<1>9. CASE Prepare(k)
  <2>1. CASE EndJob(k)
    BY <1>0, <2>1 DEF EndJob, CountsOnce
  <2>2. CASE ~EndJob(k)
    <3>1. /\ open' = open /\ open[k] /\ pc[k] = "locked"
          /\ draft' = [draft EXCEPT ![k].status = IF @ = "pending" THEN "relayed" ELSE @,
                                    ![k].relays = Append(@, "submitted")]
      BY <1>9, <2>2 DEF Prepare, InTx
    <3>2. draft'[k].inc = draft[k].inc /\ draft'[k].status = "relayed"
      BY <1>0, <3>1 DEF Drafts
    <3>3. draft[k].inc = 0
      BY <1>0, <3>1 DEF CountsOnce
    <3> QED
      BY <1>0, <3>1, <3>2, <3>3 DEF CountsOnce
  <2> QED
    BY <2>1, <2>2
<1>10. CASE RelayAnswered(k) \/ RelayTimeout(k) \/ RelayError(k)
  BY <1>0, <1>10 DEF RelayAnswered, RelayTimeout, RelayError, Relayed, CountsOnce
<1>11. CASE Conclude(k)
  <2>1. CASE EndJob(k)
    BY <1>0, <2>1 DEF EndJob, CountsOnce
  <2>2. CASE ~EndJob(k)
    BY <1>0, <1>11, <2>2 DEF Conclude, ReadyToCommit, CountsOnce, Increment
  <2> QED
    BY <2>1, <2>2
<1>12. CASE Commit(k) \/ FailDeadTx(k) \/ Crash(k)
  BY <1>0, <1>12 DEF Commit, FailDeadTx, Crash, EndJob, CountsOnce
<1>13. CASE TxTimeout(k)
  BY <1>0, <1>13 DEF TxTimeout, CountsOnce
<1> QED
  BY <1>2, <1>3, <1>5, <1>6, <1>7, <1>8, <1>9, <1>10, <1>11, <1>12, <1>13 DEF WorkerStep, Fault

LEMMA CountsStep == SafetyInv /\ DraftCountsOnce /\ [Next]_vars => DraftCountsOnce'
<1> SUFFICES ASSUME SafetyInv, DraftCountsOnce, [Next]_vars PROVE DraftCountsOnce'
  OBVIOUS
<1>1. CASE \E k \in Workers : WorkerStep(k) \/ Fault(k)
  BY <1>1, WorkerCounts
<1>2. CASE \/ \E h \in Handlers : ApiStep(h)
           \/ \E w \in Wallets : WalletStep(w)
           \/ \E t \in TxIds : ChainStep(t)
           \/ UNCHANGED vars
  <2>1. UNCHANGED workerVars
    BY <1>2 DEF ApiStep, Submit, CheckActive, CheckCompleted, Lookup, Insert, WalletStep,
       BlockWallet, Register, ChainStep, Send, Refuse, Mine, Revert, ChainOnly, vars
  <2> QED
    BY <2>1 DEF DraftCountsOnce, CountsOnce, workerVars
<1> QED
  BY <1>1, <1>2 DEF Next

\* A step completes one request at most, and its wallet's count follows.
LEMMA CountsMove ==
  ASSUME SafetyInv, DraftCountsOnce, [Next]_vars, NEW w \in Wallets
  PROVE  CountsCompletions(w)
<1> DEFINE done == {r \in OfWallet(w) : status[r] # "completed" /\ status'[r] = "completed"}
<1>0. /\ status \in [Requests -> RequestStates]
      /\ sponsorshipCount \in [Wallets -> Nat]
  BY DEF SafetyInv, Typing, TypeOK, DbTypeOK
<1>1. CASE \E k \in Workers : Commit(k)
  <2>1. PICK k \in Workers : Commit(k)
    BY <1>1
  <2>2. /\ job[k] \in Requests /\ Owner[job[k]] \in Wallets
        /\ status[job[k]] # "completed"
        /\ draft[k].inc = (IF draft[k].status = "completed" THEN 1 ELSE 0)
    BY <2>1, OwnerAssumption DEF SafetyInv, Typing, StageOK, NoLostResult, Processable,
       Commit, InTx, DraftCountsOnce, CountsOnce
  <2>3. /\ status' = [status EXCEPT ![job[k]] = draft[k].status]
        /\ sponsorshipCount' = [sponsorshipCount EXCEPT ![Owner[job[k]]] = @ + draft[k].inc]
    BY <2>1 DEF Commit
  <2>4. done = IF Owner[job[k]] = w /\ draft[k].status = "completed" THEN {job[k]} ELSE {}
    BY <1>0, <2>2, <2>3 DEF OfWallet
  <2>5. Cardinality(done) = IF Owner[job[k]] = w /\ draft[k].status = "completed" THEN 1 ELSE 0
    BY <2>4, FS_EmptySet, FS_Singleton
  <2> HIDE DEF done
  <2>6. sponsorshipCount'[w] = sponsorshipCount[w] + Cardinality(done)
    BY <1>0, <2>2, <2>3, <2>5
  <2> QED
    BY <2>6 DEF done, CountsCompletions
<1>2. CASE Register(w)
  BY <1>2 DEF CountsCompletions
<1>3. ASSUME UNCHANGED sponsorshipCount \/ (\E v \in Wallets \ {w} : Register(v)),
             \A r \in Requests : status'[r] = "completed" => status[r] = "completed"
      PROVE  CountsCompletions(w)
  <2>1. done = {}
    BY <1>3 DEF OfWallet
  <2>2. sponsorshipCount'[w] = sponsorshipCount[w]
    BY <1>0, <1>3 DEF Register
  <2> QED
    BY <1>0, <2>1, <2>2, FS_EmptySet DEF CountsCompletions
<1>4. CASE \E v \in Wallets : WalletStep(v)
  BY <1>2, <1>3, <1>4 DEF WalletStep, BlockWallet, Register, dbVars
<1>5. CASE \E h \in Handlers : ApiStep(h)
  <2>1. \/ UNCHANGED status
        \/ \E r \in Requests : status' = [status EXCEPT ![r] = "pending"]
    BY <1>5 DEF ApiStep, Submit, CheckActive, CheckCompleted, Lookup, Insert, InStatus, OfWallet,
       dbVars
  <2>2. UNCHANGED sponsorshipCount
    BY <1>5 DEF ApiStep, Submit, CheckActive, CheckCompleted, Lookup, Insert, dbVars
  <2> QED
    BY <1>0, <1>3, <2>1, <2>2
<1>6. CASE \/ \E k \in Workers : (WorkerStep(k) \/ Fault(k)) /\ ~Commit(k)
           \/ \E t \in TxIds : ChainStep(t)
           \/ UNCHANGED vars
  <2>1. UNCHANGED dbVars
    BY <1>6 DEF WorkerStep, Fault, Poll, Lock, RejectBlocked, FoundConfirmed, FoundSubmitted,
       RetriesExhausted, Prepare, CallRelay, RelayAnswered, RelayTimeout, RelayError, Relayed,
       Conclude, FailDeadTx, TxTimeout, Crash, WorkerOnly, ChainStep, Send, Refuse, Mine, Revert,
       ChainOnly, vars
  <2> QED
    BY <1>3, <2>1 DEF dbVars
<1> QED
  BY <1>1, <1>4, <1>5, <1>6 DEF Next

\* A wallet's count follows its completed requests step by step: the only other
\* step that moves it is a registration.
THEOREM CountFollows == Spec => CompletionsAreCounted
<1>1. SafetyInv /\ DraftCountsOnce /\ [Next]_vars => \A w \in Wallets : CountsCompletions(w)
  BY CountsMove
<1> QED
  BY <1>1, CountsInit, CountsStep, SafetyInvariant, PTL DEF Spec, CompletionsAreCounted

-----------------------------------------------------------------------------
(* The relay rows.                                                          *)

\* The row a run has added is the one it updates.
LEMMA LastOfAppend ==
  ASSUME NEW rows \in Seq(RelayStatus), NEW s \in RelayStatus
  PROVE  LastRelay(Append(rows, "submitted"), s) = Append(rows, s)
<1> DEFINE added == Append(rows, "submitted")
<1>1. added \in Seq(RelayStatus) /\ Len(added) = Len(rows) + 1
  BY AppendType
<1>2. Append(rows, s) \in Seq(RelayStatus) /\ Len(Append(rows, s)) = Len(rows) + 1
  OBVIOUS
<1>3. \A i \in 1..Len(rows) + 1 :
        Append(rows, s)[i] = IF i = Len(added) THEN s ELSE added[i]
  BY <1>1
<1> HIDE DEF added
<1>4. LastRelay(added, s) \in Seq(RelayStatus)
  BY <1>1, LastRelayType
<1>5. /\ added \in [1..Len(added) -> RelayStatus] /\ Len(added) \in Nat
      /\ LastRelay(added, s) = [added EXCEPT ![Len(added)] = s]
  BY <1>1 DEF LastRelay
<1>6. /\ DOMAIN LastRelay(added, s) = 1..Len(added)
      /\ \A i \in 1..Len(added) : LastRelay(added, s)[i] = IF i = Len(added) THEN s ELSE added[i]
  BY <1>5
<1>7. Len(LastRelay(added, s)) = Len(added)
  BY <1>4, <1>5, <1>6
<1> QED
  BY <1>1, <1>2, <1>3, <1>4, <1>6, <1>7 DEF added

LEMMA RowsInit == Init => DraftRowsFollow /\ RunIsAtomic
  BY DEF Init, DraftRowsFollow, RowsFollow, RunIsAtomic

\* What the other workers have read is still so: the lock is exclusive.
LEMMA OtherRows ==
  ASSUME SafetyInv, DraftRowsFollow, NEW k \in Workers, WorkerStep(k) \/ Fault(k),
         NEW j \in Workers \ {k}
  PROVE  RowsFollow(j)'
<1>0. /\ pc \in [Workers -> {"idle", "locked", "relaying", "concluding", "committing"}]
      /\ open \in [Workers -> BOOLEAN] /\ draft \in [Workers -> Drafts]
      /\ job \in [Workers -> Requests \cup {None}]
      /\ relays \in [Requests -> Seq(RelayStatus)]
  BY DEF SafetyInv, Typing, TypeOK, WorkerTypeOK, DbTypeOK
<1>1. pc'[j] = pc[j] /\ open'[j] = open[j] /\ draft'[j] = draft[j] /\ job'[j] = job[j]
  BY <1>0 DEF WorkerStep, Fault, Poll, Lock, RejectBlocked, FoundConfirmed, FoundSubmitted,
     RetriesExhausted, Prepare, CallRelay, RelayAnswered, RelayTimeout, RelayError, Relayed,
     Conclude, Commit, FailDeadTx, TxTimeout, Crash, EndJob, MoveTo, ReadyToCommit
<1>2. open[j] => relays'[job[j]] = relays[job[j]]
  <2>1. CASE Commit(k)
    BY <1>0, <2>1 DEF Commit, InTx, SafetyInv, LockIsExclusive, Typing, StageOK
  <2>2. CASE ~Commit(k)
    BY <2>2 DEF WorkerStep, Fault, Poll, Lock, RejectBlocked, FoundConfirmed, FoundSubmitted,
       RetriesExhausted, Prepare, CallRelay, RelayAnswered, RelayTimeout, RelayError, Relayed,
       Conclude, FailDeadTx, TxTimeout, Crash, WorkerOnly, dbVars
  <2> QED
    BY <2>1, <2>2
<1>3. CASE open[j]
  <2>1. relays'[job'[j]] = relays[job[j]] /\ draft'[j] = draft[j] /\ pc'[j] = pc[j]
    BY <1>1, <1>2, <1>3
  <2>2. /\ KeepsRows(j)' = KeepsRows(j)
        /\ \A row : AddsRow(j, row)' = AddsRow(j, row)
        /\ HasActiveRelay(relays[job[j]])' = HasActiveRelay(relays[job[j]])
        /\ HasConfirmedRelay(relays[job[j]])' = HasConfirmedRelay(relays[job[j]])
    BY <2>1 DEF KeepsRows, AddsRow, HasActiveRelay, HasConfirmedRelay
  <2>3. RowsFollow(j)
    BY DEF DraftRowsFollow
  <2> QED
    BY <1>3, <2>1, <2>2, <2>3 DEF RowsFollow
<1> QED
  BY <1>1, <1>3 DEF RowsFollow

LEMMA WorkerRows ==
  ASSUME SafetyInv, DraftRowsFollow, NEW k \in Workers, WorkerStep(k) \/ Fault(k)
  PROVE  DraftRowsFollow'
<1>0. /\ pc \in [Workers -> {"idle", "locked", "relaying", "concluding", "committing"}]
      /\ open \in [Workers -> BOOLEAN] /\ draft \in [Workers -> Drafts]
      /\ job \in [Workers -> Requests \cup {None}]
      /\ relays \in [Requests -> Seq(RelayStatus)]
      /\ pc[k] # "idle" => job[k] \in Requests
      /\ open[k] /\ pc[k] # "committing" => draft[k].status \in {"pending", "relayed"}
      /\ RowsFollow(k)
  BY DEF SafetyInv, Typing, StageOK, TypeOK, WorkerTypeOK, DbTypeOK, DraftIsHonest, Honest,
     DraftRowsFollow
<1>1. SUFFICES RowsFollow(k)'
  BY OtherRows DEF DraftRowsFollow
<1>2. CASE \E r \in Requests : Lock(k, r)
  BY <1>0, <1>2 DEF Lock, RowsFollow, KeepsRows, AddsRow, dbVars
<1>3. CASE EndJob(k)
  BY <1>0, <1>3 DEF EndJob, RowsFollow
<1>4. ASSUME NEW s, NEW inc, MoveTo(k, s, inc), InTx(k, "locked"), WorkerOnly,
             s = "completed" => HasConfirmedRelay(draft[k].relays),
             s = "failed" => Len(draft[k].relays) >= MaxRetries /\ ~HasActiveRelay(draft[k].relays)
      PROVE  RowsFollow(k)'
  <2>1. CASE ReadyToCommit(k, [draft[k] EXCEPT !.status = s, !.inc = inc])
    <3>1. draft'[k].status = s /\ draft'[k].relays = draft[k].relays
      BY <1>0, <2>1 DEF ReadyToCommit, Drafts
    <3>2. /\ pc'[k] = "committing" /\ job'[k] = job[k] /\ relays' = relays
      BY <1>0, <1>4, <2>1 DEF ReadyToCommit, WorkerOnly, dbVars
    <3>3. draft[k].relays = relays[job[k]]
      BY <1>0, <1>4 DEF InTx, RowsFollow, KeepsRows
    <3> QED
      BY <1>4, <3>1, <3>2, <3>3 DEF RowsFollow, KeepsRows
  <2> QED
    BY <1>3, <1>4, <2>1 DEF MoveTo
<1>5. CASE RejectBlocked(k)
  BY <1>4, <1>5 DEF RejectBlocked
<1>6. CASE FoundConfirmed(k)
  <2>1. HasConfirmedRelay(draft[k].relays)
    BY <1>6 DEF FoundConfirmed, HasConfirmedRelay
  <2> QED
    BY <1>4, <1>6, <2>1 DEF FoundConfirmed
<1>7. CASE RetriesExhausted(k)
  BY <1>4, <1>7 DEF RetriesExhausted
<1>8. CASE FoundSubmitted(k)
  BY <1>0, <1>8 DEF FoundSubmitted, ReadyToCommit, InTx, WorkerOnly, dbVars, RowsFollow, KeepsRows
<1>9. CASE Prepare(k) /\ ~EndJob(k)
  <2>1. /\ pc[k] = "locked" /\ open[k] /\ pc' = [pc EXCEPT ![k] = "relaying"]
        /\ draft' = [draft EXCEPT ![k].status = IF @ = "pending" THEN "relayed" ELSE @,
                                  ![k].relays = Append(@, "submitted")]
        /\ ~HasActiveRelay(draft[k].relays) /\ Len(draft[k].relays) < MaxRetries
        /\ ~AtRelayLimit(draft[k].relays) /\ job' = job /\ relays' = relays
    BY <1>9 DEF Prepare, InTx, WorkerOnly, dbVars
  <2>2. draft'[k].relays = Append(draft[k].relays, "submitted") /\ pc'[k] = "relaying"
    BY <1>0, <2>1 DEF Drafts
  <2>3. draft[k].relays = relays[job[k]] /\ relays[job[k]] \in Seq(RelayStatus)
    BY <1>0, <2>1 DEF RowsFollow, KeepsRows
  <2>4. Len(relays[job[k]]) < MaxRelayAttempts
    BY <2>1, <2>3, LimitsAssumption DEF AtRelayLimit
  <2>5. AddsRow(k, "submitted")'
    BY <2>1, <2>2, <2>3, <2>4 DEF AddsRow
  <2> QED
    BY <2>2, <2>5 DEF RowsFollow
<1>10. CASE \/ Poll(k) \/ \E t \in TxIds : CallRelay(k, t)
            \/ RelayAnswered(k) \/ RelayTimeout(k) \/ RelayError(k) \/ TxTimeout(k)
  <2>1. /\ pc'[k] = pc[k] \/ (pc[k] = "relaying" /\ pc'[k] = "concluding")
        /\ open'[k] => open[k]
        /\ job' = job /\ draft' = draft /\ relays' = relays
    BY <1>0, <1>10 DEF Poll, CallRelay, RelayAnswered, RelayTimeout, RelayError, Relayed, TxTimeout,
       WorkerOnly, dbVars
  <2> QED
    BY <1>0, <2>1 DEF RowsFollow, KeepsRows, AddsRow
<1>11. CASE Conclude(k) /\ ~EndJob(k)
  <2>1. /\ pc[k] = "concluding" /\ open[k] /\ pc'[k] = "committing"
        /\ job' = job /\ relays' = relays
        /\ \/ /\ draft'[k].status = "completed"
              /\ draft'[k].relays = LastRelay(draft[k].relays, "confirmed")
           \/ /\ draft'[k].status = "failed"
              /\ draft'[k].relays = LastRelay(draft[k].relays, "failed")
    BY <1>0, <1>11 DEF Conclude, ReadyToCommit, InTx, WorkerOnly, dbVars
  <2>2. AddsRow(k, "submitted") /\ relays[job[k]] \in Seq(RelayStatus)
    BY <1>0, <2>1 DEF RowsFollow
  <2>3. ASSUME NEW CONSTANT row \in RelayStatus, draft'[k].relays = LastRelay(draft[k].relays, row)
        PROVE  AddsRow(k, row)'
    <3>1. draft'[k].relays = Append(relays[job[k]], row)
      BY <2>2, <2>3, LastOfAppend DEF AddsRow
    <3> QED
      BY <2>1, <2>2, <3>1 DEF AddsRow
  <2>4. CASE draft'[k].relays = LastRelay(draft[k].relays, "confirmed") /\ draft'[k].status = "completed"
    BY <2>1, <2>3, <2>4 DEF RowsFollow, RelayStatus
  <2>5. CASE draft'[k].relays = LastRelay(draft[k].relays, "failed") /\ draft'[k].status = "failed"
    BY <2>1, <2>3, <2>5 DEF RowsFollow, RelayStatus
  <2> QED
    BY <2>1, <2>4, <2>5
<1> QED
  BY <1>2, <1>3, <1>5, <1>6, <1>7, <1>8, <1>9, <1>10, <1>11
     DEF WorkerStep, Fault, Commit, FailDeadTx, Crash

LEMMA RowsStep == SafetyInv /\ DraftRowsFollow /\ [Next]_vars => DraftRowsFollow'
<1> SUFFICES ASSUME SafetyInv, DraftRowsFollow, [Next]_vars PROVE DraftRowsFollow'
  OBVIOUS
<1>1. CASE \E k \in Workers : WorkerStep(k) \/ Fault(k)
  BY <1>1, WorkerRows
<1>2. CASE \/ \E h \in Handlers : ApiStep(h)
           \/ \E w \in Wallets : WalletStep(w)
           \/ \E t \in TxIds : ChainStep(t)
           \/ UNCHANGED vars
  <2>1. UNCHANGED <<workerVars, relays>>
    BY <1>2 DEF ApiStep, Submit, CheckActive, CheckCompleted, Lookup, Insert, WalletStep,
       BlockWallet, Register, ChainStep, Send, Refuse, Mine, Revert, ChainOnly, vars, dbVars
  <2> QED
    BY <2>1 DEF DraftRowsFollow, RowsFollow, KeepsRows, AddsRow, workerVars
<1> QED
  BY <1>1, <1>2 DEF Next

\* What a COMMIT makes of the rows: nothing, or one row more.
LEMMA CommitRows ==
  ASSUME SafetyInv, DraftRowsFollow, NEW k \in Workers, Commit(k)
  PROVE  /\ job[k] \in Requests /\ relays[job[k]] \in Seq(RelayStatus)
         /\ status' = [status EXCEPT ![job[k]] = draft[k].status]
         /\ relays' = [relays EXCEPT ![job[k]] = draft[k].relays]
         /\ \/ /\ KeepsRows(k)
               /\ draft[k].status = "completed" => HasConfirmedRelay(relays[job[k]])
               /\ draft[k].status = "failed" => /\ Len(relays[job[k]]) >= MaxRetries
                                                /\ ~HasActiveRelay(relays[job[k]])
            \/ draft[k].status = "completed" /\ AddsRow(k, "confirmed")
            \/ draft[k].status = "failed" /\ AddsRow(k, "failed")
  BY DEF SafetyInv, Typing, StageOK, TypeOK, DbTypeOK, Commit, InTx, DraftRowsFollow, RowsFollow

\* A run shows as a whole or not at all (processRequest's transaction).
THEOREM RunsAreAtomic == Spec => []RunIsAtomic
<1>1. SafetyInv /\ DraftRowsFollow /\ RunIsAtomic /\ [Next]_vars => RunIsAtomic'
  <2> SUFFICES ASSUME SafetyInv, DraftRowsFollow, RunIsAtomic, [Next]_vars,
                      NEW r \in Requests \ Leftovers
               PROVE  relays'[r] = CASE status'[r] = "completed" -> <<"confirmed">>
                                     [] status'[r] = "failed"    -> <<"failed">>
                                     [] OTHER                    -> <<>>
    BY DEF RunIsAtomic
  <2>0. /\ status \in [Requests -> RequestStates] /\ relays \in [Requests -> Seq(RelayStatus)]
        /\ relays[r] = CASE status[r] = "completed" -> <<"confirmed">>
                         [] status[r] = "failed"    -> <<"failed">>
                         [] OTHER                   -> <<>>
    BY DEF SafetyInv, Typing, TypeOK, DbTypeOK, RunIsAtomic
  <2>1. CASE UNCHANGED <<status, relays>>
    BY <2>0, <2>1
  <2>2. ASSUME NEW s \in Requests, status[s] = "absent", UNCHANGED relays,
               status' = [status EXCEPT ![s] = "pending"]
        PROVE  relays'[r] = CASE status'[r] = "completed" -> <<"confirmed">>
                              [] status'[r] = "failed"    -> <<"failed">>
                              [] OTHER                    -> <<>>
    BY <2>0, <2>2
  <2>3. ASSUME NEW k \in Workers, Commit(k), Processable(status[job[k]])
        PROVE  relays'[r] = CASE status'[r] = "completed" -> <<"confirmed">>
                              [] status'[r] = "failed"    -> <<"failed">>
                              [] OTHER                    -> <<>>
    <3>1. CASE job[k] # r
      BY <2>0, <2>3, <3>1, CommitRows
    <3>2. CASE job[k] = r
      <4>1. /\ relays[r] = <<>> /\ Len(relays[r]) = 0 /\ ~HasConfirmedRelay(relays[r])
        BY <2>0, <2>3, <3>2 DEF Processable, HasConfirmedRelay
      <4>2. status'[r] = draft[k].status /\ relays'[r] = draft[k].relays
        BY <2>0, <2>3, <3>2, CommitRows
      <4>3. \/ draft[k].relays = <<>> /\ draft[k].status \notin {"completed", "failed"}
            \/ draft[k].status = "completed" /\ draft[k].relays = <<"confirmed">>
            \/ draft[k].status = "failed" /\ draft[k].relays = <<"failed">>
        BY <2>3, <3>2, <4>1, CommitRows, LimitsAssumption DEF KeepsRows, AddsRow
      <4> QED
        BY <4>2, <4>3
    <3> QED
      BY <3>1, <3>2
  <2> QED
    BY <2>1, <2>2, <2>3, RowChange
<1> QED
  BY <1>1, RowsInit, RowsStep, SafetyInvariant, PTL DEF Spec

\* Relay rows are only ever added, one at a time, at the end, and within both
\* limits (processRequest, createRelayTransaction).
THEOREM RowsAreBounded == Spec => RelayRowsBounded
<1>1. ASSUME SafetyInv, DraftRowsFollow, [Next]_vars, NEW r \in Requests, relays'[r] # relays[r]
      PROVE  /\ Len(relays'[r]) = Len(relays[r]) + 1
             /\ Len(relays'[r]) <= MaxRetries /\ Len(relays'[r]) <= MaxRelayAttempts
             /\ \A i \in 1..Len(relays[r]) : relays'[r][i] = relays[r][i]
  <2>0. relays \in [Requests -> Seq(RelayStatus)]
    BY <1>1 DEF SafetyInv, Typing, TypeOK, DbTypeOK
  <2>1. PICK k \in Workers : Commit(k)
    BY <1>1, RowChange
  <2>2. PICK row \in RelayStatus : job[k] = r /\ AddsRow(k, row) /\ relays'[r] = Append(relays[r], row)
    BY <1>1, <2>0, <2>1, CommitRows DEF KeepsRows, AddsRow, RelayStatus
  <2>3. relays[r] \in Seq(RelayStatus) /\ Len(relays[r]) \in Nat
    BY <2>0
  <2> QED
    BY <2>2, <2>3, LimitsAssumption DEF AddsRow
<1>2. SafetyInv /\ DraftRowsFollow /\ [Next]_vars =>
        [\A r \in Requests : relays'[r] # relays[r] =>
           /\ Len(relays'[r]) = Len(relays[r]) + 1
           /\ Len(relays'[r]) <= MaxRetries /\ Len(relays'[r]) <= MaxRelayAttempts
           /\ \A i \in 1..Len(relays[r]) : relays'[r][i] = relays[r][i]]_vars
  BY <1>1
<1> QED
  BY <1>2, RowsInit, RowsStep, SafetyInvariant, PTL DEF Spec, RelayRowsBounded

\* A request with an active relay row gets no other (the idempotency guard).
THEOREM ActiveRowIsAlone == Spec => NoRelayBesideActiveOne
<1>1. ASSUME SafetyInv, DraftRowsFollow, [Next]_vars, NEW r \in Requests,
             \E i \in DOMAIN relays[r] : relays[r][i] \in {"submitted", "confirmed"}
      PROVE  relays'[r] = relays[r]
  <2>0. relays \in [Requests -> Seq(RelayStatus)] /\ HasActiveRelay(relays[r])
    BY <1>1 DEF SafetyInv, Typing, TypeOK, DbTypeOK, HasActiveRelay, ActiveRelayStatus
  <2>1. ASSUME NEW k \in Workers, Commit(k) PROVE relays'[r] = relays[r]
    BY <1>1, <2>0, <2>1, CommitRows DEF KeepsRows, AddsRow
  <2> QED
    BY <1>1, <2>1, RowChange
<1>2. SafetyInv /\ DraftRowsFollow /\ [Next]_vars =>
        [\A r \in Requests :
           (\E i \in DOMAIN relays[r] : relays[r][i] \in {"submitted", "confirmed"})
             => relays'[r] = relays[r]]_vars
  BY <1>1
<1> QED
  BY <1>2, RowsInit, RowsStep, SafetyInvariant, PTL DEF Spec, NoRelayBesideActiveOne

-----------------------------------------------------------------------------
(* What follows for the system as a whole.                                  *)

\* While a transaction lives, nobody else changes the status it has locked.
LEMMA LockedStatusStays ==
  ASSUME SafetyInv, [Next]_vars, NEW k \in Workers, open[k], ~Commit(k)
  PROVE  status'[job[k]] = status[job[k]]
<1>1. /\ status \in [Requests -> RequestStates] /\ Processable(status[job[k]])
      /\ \A j \in Workers \ {k} : open[j] => job[j] # job[k]
  BY DEF SafetyInv, Typing, TypeOK, DbTypeOK, NoLostResult, LockIsExclusive
<1>2. ASSUME NEW r \in Requests, status[r] = "absent", status' = [status EXCEPT ![r] = "pending"]
      PROVE  status'[job[k]] = status[job[k]]
  <2>1. job[k] # r
    BY <1>1, <1>2 DEF Processable
  <2> QED
    BY <1>1, <1>2, <2>1
<1>3. ASSUME NEW j \in Workers, Commit(j)
      PROVE  status'[job[k]] = status[job[k]]
  <2>1. open[j] /\ j # k /\ status' = [status EXCEPT ![job[j]] = draft[j].status]
    BY <1>3 DEF Commit, InTx
  <2> QED
    BY <1>1, <2>1
<1> QED
  BY <1>2, <1>3, RowChange

LEMMA SettlesInit == Init => DraftSettles
  BY DEF Init, DraftSettles, SettlesOrKeeps

\* What a worker does with its own transaction.
LEMMA WorkerSettles ==
  ASSUME SafetyInv, DraftSettles, NEW k \in Workers, WorkerStep(k) \/ Fault(k)
  PROVE  /\ SettlesOrKeeps(k)'
         /\ \A j \in Workers \ {k} : /\ open'[j] = open[j] /\ draft'[j] = draft[j]
                                     /\ pc'[j] = pc[j] /\ job'[j] = job[j]
<1> DEFINE Others == \A j \in Workers \ {k} :
                       /\ open'[j] = open[j] /\ draft'[j] = draft[j]
                       /\ pc'[j] = pc[j] /\ job'[j] = job[j]
<1>0. /\ pc \in [Workers -> {"idle", "locked", "relaying", "concluding", "committing"}]
      /\ open \in [Workers -> BOOLEAN] /\ draft \in [Workers -> Drafts]
      /\ job \in [Workers -> Requests \cup {None}]
      /\ SettlesOrKeeps(k)
  BY DEF SafetyInv, Typing, TypeOK, WorkerTypeOK, DraftSettles
<1>1. SUFFICES SettlesOrKeeps(k)' /\ Others
  OBVIOUS
<1>2. CASE Poll(k) \/ \E t \in TxIds : CallRelay(k, t)
  BY <1>0, <1>2 DEF Poll, CallRelay, SettlesOrKeeps, dbVars
<1>3. CASE \E r \in Requests : Lock(k, r)
  BY <1>0, <1>3 DEF Lock, SettlesOrKeeps, dbVars
<1>4. CASE EndJob(k)
  BY <1>0, <1>4 DEF EndJob, SettlesOrKeeps
<1>5. ASSUME NEW s \in TerminalStatus, NEW inc, MoveTo(k, s, inc)
      PROVE  SettlesOrKeeps(k)' /\ Others
  <2>1. CASE ReadyToCommit(k, [draft[k] EXCEPT !.status = s, !.inc = inc])
    BY <1>0, <2>1 DEF ReadyToCommit, SettlesOrKeeps, Drafts
  <2> QED
    BY <1>4, <1>5, <2>1 DEF MoveTo
<1>6. CASE RejectBlocked(k) \/ FoundConfirmed(k) \/ RetriesExhausted(k)
  BY <1>5, <1>6, StatusTypes DEF RejectBlocked, FoundConfirmed, RetriesExhausted
<1>7. CASE FoundSubmitted(k)
  <2>1. /\ open[k] /\ pc[k] = "locked" /\ UNCHANGED <<job, open, status>>
        /\ pc' = [pc EXCEPT ![k] = "committing"] /\ draft' = [draft EXCEPT ![k] = draft[k]]
    BY <1>7 DEF FoundSubmitted, InTx, ReadyToCommit, WorkerOnly, dbVars
  <2> QED
    BY <1>0, <2>1 DEF SettlesOrKeeps
<1>8. CASE Prepare(k)
  <2>1. CASE ~EndJob(k)
    <3>1. /\ pc' = [pc EXCEPT ![k] = "relaying"] /\ UNCHANGED <<job, open>>
          /\ draft' = [draft EXCEPT ![k].status = IF @ = "pending" THEN "relayed" ELSE @,
                                    ![k].relays = Append(@, "submitted")]
      BY <1>8, <2>1 DEF Prepare
    <3> QED
      BY <1>0, <3>1 DEF SettlesOrKeeps
  <2> QED
    BY <1>4, <2>1
<1>9. CASE RelayAnswered(k) \/ RelayTimeout(k) \/ RelayError(k)
  <2>1. pc' = [pc EXCEPT ![k] = "concluding"] /\ UNCHANGED <<job, open, draft>>
    BY <1>9 DEF RelayAnswered, RelayTimeout, RelayError, Relayed
  <2> QED
    BY <1>0, <2>1 DEF SettlesOrKeeps
<1>10. CASE Conclude(k)
  <2>1. CASE ~EndJob(k)
    <3>1. PICK s \in {"completed", "failed"} :
            \E rows, inc : ReadyToCommit(k, [status |-> s, relays |-> rows, inc |-> inc])
      BY <1>10, <2>1 DEF Conclude
    <3>2. /\ draft'[k].status = s /\ pc'[k] = "committing"
          /\ Others
      BY <1>0, <3>1 DEF ReadyToCommit
    <3> QED
      BY <3>2, StatusTypes DEF SettlesOrKeeps
  <2> QED
    BY <1>4, <2>1
<1>11. CASE Commit(k) \/ FailDeadTx(k) \/ Crash(k)
  BY <1>4, <1>11 DEF Commit, FailDeadTx, Crash
<1>12. CASE TxTimeout(k)
  BY <1>0, <1>12 DEF TxTimeout, SettlesOrKeeps
<1> QED
  BY <1>2, <1>3, <1>6, <1>7, <1>8, <1>9, <1>10, <1>11, <1>12 DEF WorkerStep, Fault

LEMMA SettlesStep == SafetyInv /\ DraftSettles /\ [Next]_vars => DraftSettles'
<1> SUFFICES ASSUME SafetyInv, DraftSettles, [Next]_vars, NEW j \in Workers
             PROVE  SettlesOrKeeps(j)'
  BY DEF DraftSettles
<1>1. ASSUME open'[j] = open[j], draft'[j] = draft[j], pc'[j] = pc[j], job'[j] = job[j]
      PROVE  SettlesOrKeeps(j)'
  <2>1. CASE ~open[j]
    BY <1>1, <2>1 DEF SettlesOrKeeps
  <2>2. CASE open[j]
    <3>1. ~Commit(j)
      BY <1>1, <2>2 DEF Commit, EndJob, SafetyInv, Typing, TypeOK, WorkerTypeOK
    <3>2. status'[job[j]] = status[job[j]]
      BY <2>2, <3>1, LockedStatusStays
    <3> QED
      BY <1>1, <3>2 DEF DraftSettles, SettlesOrKeeps
  <2> QED
    BY <2>1, <2>2
<1>2. CASE \E k \in Workers : WorkerStep(k) \/ Fault(k)
  BY <1>1, <1>2, WorkerSettles
<1>3. CASE \/ \E h \in Handlers : ApiStep(h)
           \/ \E w \in Wallets : WalletStep(w)
           \/ \E t \in TxIds : ChainStep(t)
           \/ UNCHANGED vars
  <2>1. UNCHANGED workerVars
    BY <1>3 DEF ApiStep, Submit, CheckActive, CheckCompleted, Lookup, Insert, WalletStep,
       BlockWallet, Register, ChainStep, Send, Refuse, Mine, Revert, ChainOnly, vars
  <2> QED
    BY <1>1, <2>1 DEF workerVars
<1> QED
  BY <1>2, <1>3 DEF Next

\* The statuses between pending and settled are never committed: the whole run
\* of a request, relay included, is one transaction (processRequest).
THEOREM NeverSeenHalfway == Spec => SettlesInOneStep
<1>1. ASSUME SafetyInv, DraftSettles, [Next]_vars, NEW r \in Requests, status'[r] # status[r]
      PROVE  IF status[r] = "absent" THEN status'[r] = "pending"
                                     ELSE status'[r] \in TerminalStatus
  <2>0. status \in [Requests -> RequestStates]
    BY <1>1 DEF SafetyInv, Typing, TypeOK, DbTypeOK
  <2>1. ASSUME NEW s \in Requests, status[s] = "absent", status' = [status EXCEPT ![s] = "pending"]
        PROVE  status[r] = "absent" /\ status'[r] = "pending"
    BY <1>1, <2>0, <2>1
  <2>2. ASSUME NEW k \in Workers, Commit(k), Processable(status[job[k]])
        PROVE  status[r] # "absent" /\ status'[r] \in TerminalStatus
    <3>1. open[k] /\ pc[k] = "committing" /\ status' = [status EXCEPT ![job[k]] = draft[k].status]
      BY <2>2 DEF Commit, InTx
    <3>2. r = job[k]
      BY <1>1, <2>0, <3>1
    <3>3. status[r] # "absent" /\ status'[r] = draft[k].status
      BY <2>0, <2>2, <3>1, <3>2 DEF Processable
    <3> QED
      BY <1>1, <3>1, <3>2, <3>3 DEF DraftSettles, SettlesOrKeeps
  <2> QED
    BY <1>1, <2>1, <2>2, RowChange
<1>2. SafetyInv /\ DraftSettles /\ [Next]_vars =>
        \A r \in Requests :
          status'[r] # status[r] =>
            IF status[r] = "absent" THEN status'[r] = "pending"
                                    ELSE status'[r] \in TerminalStatus
  BY <1>1
<1> QED
  BY <1>2, SettlesInit, SettlesStep, SafetyInvariant, PTL DEF Spec, SettlesInOneStep

\* Status and relay rows of a request are written by different statements of
\* one transaction, and rows may have been there before: they agree all the same.
THEOREM OutcomesAgree == Spec => []OutcomeIsInRows
<1>1. Init => OutcomeIsInRows
  BY DEF Init, OutcomeIsInRows
<1>2. ASSUME SafetyInv, DraftRowsFollow, OutcomeIsInRows, [Next]_vars, NEW r \in Requests
      PROVE  /\ status'[r] = "completed" => HasConfirmedRelay(relays'[r])
             /\ status'[r] = "failed" => ~HasActiveRelay(relays'[r])
  <2>0. /\ status \in [Requests -> RequestStates] /\ relays \in [Requests -> Seq(RelayStatus)]
        /\ status[r] = "completed" => HasConfirmedRelay(relays[r])
        /\ status[r] = "failed" => ~HasActiveRelay(relays[r])
    BY <1>2 DEF SafetyInv, Typing, TypeOK, DbTypeOK, OutcomeIsInRows
  <2>1. CASE UNCHANGED <<status, relays>>
    BY <2>0, <2>1
  <2>2. ASSUME NEW s \in Requests, UNCHANGED relays, status' = [status EXCEPT ![s] = "pending"]
        PROVE  /\ status'[r] = "completed" => HasConfirmedRelay(relays'[r])
               /\ status'[r] = "failed" => ~HasActiveRelay(relays'[r])
    BY <2>0, <2>2
  <2>3. ASSUME NEW k \in Workers, Commit(k)
        PROVE  /\ status'[r] = "completed" => HasConfirmedRelay(relays'[r])
               /\ status'[r] = "failed" => ~HasActiveRelay(relays'[r])
    <3>1. CASE job[k] # r
      BY <1>2, <2>0, <2>3, <3>1, CommitRows
    <3>2. CASE job[k] = r
      <4>1. status'[r] = draft[k].status /\ relays'[r] = draft[k].relays
        BY <1>2, <2>0, <2>3, <3>2, CommitRows
      <4>2. CASE KeepsRows(k) /\ (draft[k].status = "completed" => HasConfirmedRelay(relays[r]))
                              /\ (draft[k].status = "failed" => ~HasActiveRelay(relays[r]))
        BY <3>2, <4>1, <4>2 DEF KeepsRows
      <4>3. CASE draft[k].status = "completed" /\ AddsRow(k, "confirmed")
        <5>1. relays'[r] = Append(relays[r], "confirmed") /\ relays[r] \in Seq(RelayStatus)
          BY <2>0, <3>2, <4>1, <4>3 DEF AddsRow
        <5>2. relays'[r][Len(relays[r]) + 1] = "confirmed" /\ Len(relays[r]) + 1 \in DOMAIN relays'[r]
          BY <5>1
        <5> QED
          BY <4>1, <4>3, <5>2 DEF HasConfirmedRelay
      <4>4. CASE draft[k].status = "failed" /\ AddsRow(k, "failed")
        <5>1. /\ relays'[r] = Append(relays[r], "failed") /\ relays[r] \in Seq(RelayStatus)
              /\ ~HasActiveRelay(relays[r])
          BY <2>0, <3>2, <4>1, <4>4 DEF AddsRow
        <5>2. \A i \in DOMAIN relays'[r] : relays'[r][i] = "failed" \/
                (i \in DOMAIN relays[r] /\ relays'[r][i] = relays[r][i])
          BY <5>1
        <5> QED
          BY <4>1, <4>4, <5>1, <5>2, StatusTypes DEF HasActiveRelay, ActiveRelayStatus
      <4> QED
        BY <1>2, <2>3, <3>2, <4>2, <4>3, <4>4, CommitRows
    <3> QED
      BY <3>1, <3>2
  <2> QED
    BY <1>2, <2>1, <2>2, <2>3, RowChange
<1>3. SafetyInv /\ DraftRowsFollow /\ OutcomeIsInRows /\ [Next]_vars => OutcomeIsInRows'
  BY <1>2 DEF OutcomeIsInRows
<1> QED
  BY <1>1, <1>3, RowsInit, RowsStep, SafetyInvariant, PTL DEF Spec

\* A payment after the completion would be one to a wallet the registry has:
\* sponsorTransfer refuses it (NoPaymentAfterCompletion).
THEOREM CompletedIsNotPaidAgain == Spec => NoPaymentAfterCompletion
<1>1. ASSUME SafetyInv, [Next]_vars, NEW t \in TxIds, NEW r \in Requests,
             txState[t] # "success", txState'[t] = "success", Owner[r] = Recipient(t)
      PROVE  status[r] # "completed"
  <2>0. txState \in [TxIds -> TxStates]
    BY <1>1 DEF SafetyInv, Typing, TypeOK, ChainTypeOK
  <2>1. CASE \E u \in TxIds : ChainStep(u)
    <3>1. PICK u \in TxIds : ChainStep(u)
      BY <2>1
    <3>2. Mine(u) /\ u = t
      BY <1>1, <2>0, <3>1 DEF ChainStep, Send, Refuse, Mine, Revert
    <3>3. Owner[r] \notin registry
      BY <1>1, <3>2 DEF Mine, Payable
    <3> QED
      BY <1>1, <3>3 DEF SafetyInv, CompletedIsSponsored
  <2>2. CASE \E k \in Workers, u \in TxIds : CallRelay(k, u)
    BY <1>1, <2>0, <2>2 DEF CallRelay
  <2>3. CASE \/ \E h \in Handlers : ApiStep(h)
             \/ \E w \in Wallets : WalletStep(w)
             \/ UNCHANGED vars
    <3>1. UNCHANGED txState
      BY <1>1, <2>3, ApiAdds DEF SafetyInv, WalletStep, BlockWallet, Register, vars, chainVars
    <3> QED
      BY <1>1, <3>1
  <2>4. CASE \E k \in Workers : (WorkerStep(k) \/ Fault(k)) /\ ~\E u \in TxIds : CallRelay(k, u)
    <3>1. UNCHANGED txState
      BY <2>4 DEF WorkerStep, Fault, Poll, Lock, RejectBlocked, FoundConfirmed, FoundSubmitted,
         RetriesExhausted, Prepare, RelayAnswered, RelayTimeout, RelayError, Relayed, Conclude,
         Commit, FailDeadTx, TxTimeout, Crash, WorkerOnly, chainVars
    <3> QED
      BY <1>1, <3>1
  <2> QED
    BY <1>1, <2>1, <2>2, <2>3, <2>4 DEF Next
<1>2. SafetyInv /\ [Next]_vars =>
        \A t \in TxIds, r \in Requests :
          /\ txState[t] # "success" /\ txState'[t] = "success"
          /\ Owner[r] = Recipient(t)
          => status[r] # "completed"
  BY <1>1
<1> QED
  BY <1>2, SafetyInvariant, PTL DEF Spec, NoPaymentAfterCompletion

\* What a step adds to the completed requests of a wallet: one at most, and
\* none if it is a registration.
LEMMA CompletedGrows ==
  ASSUME SafetyInv, [Next]_vars, NEW w \in Wallets
  PROVE  LET done == {r \in OfWallet(w) : status[r] # "completed" /\ status'[r] = "completed"}
         IN  /\ IsFiniteSet(done) /\ (Register(w) => done = {})
             /\ Completed(w)' = Completed(w) \cup done
             /\ Completed(w) \cap done = {}
<1> DEFINE done == {r \in OfWallet(w) : status[r] # "completed" /\ status'[r] = "completed"}
<1>0. status \in [Requests -> RequestStates]
  BY DEF SafetyInv, Typing, TypeOK, DbTypeOK
<1>1. \E r : done \subseteq {r}
  <2>1. CASE UNCHANGED status
    BY <2>1
  <2>2. ASSUME NEW r, NEW s, status' = [status EXCEPT ![r] = s]
        PROVE  done \subseteq {r}
    BY <1>0, <2>2 DEF OfWallet
  <2>3. \A k \in Workers : Commit(k) => status' = [status EXCEPT ![job[k]] = draft[k].status]
    BY DEF Commit
  <2> QED
    BY <2>1, <2>2, <2>3, RowChange
<1>2. IsFiniteSet(done)
  BY <1>1, FS_Singleton, FS_Subset
<1>3. Register(w) => done = {}
  BY DEF Register
<1>4. \A r \in Requests : status[r] = "completed" => status'[r] = "completed"
  BY StatusStep, StatusTypes
<1>5. Completed(w)' = Completed(w) \cup done
  BY <1>4 DEF Completed, InStatus, OfWallet
<1>6. Completed(w) \cap done = {}
  BY DEF Completed, InStatus
<1> QED
  BY <1>2, <1>3, <1>5, <1>6

\* sponsorshipCount never falls behind the completed requests of a wallet, over
\* any number of runs, crashes and rolled back transactions.
THEOREM CountIsComplete == Spec => []CountCoversCompleted
<1>1. Init => CountCoversCompleted
  <2> SUFFICES ASSUME Init, NEW w \in Wallets
               PROVE  /\ IsFiniteSet(Completed(w))
                      /\ Cardinality(Completed(w)) <= sponsorshipCount[w]
    BY DEF CountCoversCompleted
  <2>1. Completed(w) = {} /\ sponsorshipCount[w] = 0
    BY DEF Init, Completed, InStatus, OfWallet
  <2> QED
    BY <2>1, FS_EmptySet
<1>2. ASSUME SafetyInv, DraftCountsOnce, CountCoversCompleted, [Next]_vars, NEW w \in Wallets
      PROVE  (IsFiniteSet(Completed(w)) /\ Cardinality(Completed(w)) <= sponsorshipCount[w])'
  <2> DEFINE done == {r \in OfWallet(w) : status[r] # "completed" /\ status'[r] = "completed"}
             now  == Completed(w)
  <2>1. /\ IsFiniteSet(done) /\ (Register(w) => done = {})
        /\ Completed(w)' = now \cup done /\ now \cap done = {}
    BY <1>2, CompletedGrows
  <2>2. /\ \/ sponsorshipCount'[w] = sponsorshipCount[w] + Cardinality(done)
           \/ Register(w)
        /\ sponsorshipCount[w] \in Nat
        /\ Register(w) => sponsorshipCount'[w] = sponsorshipCount[w] + 1
    BY <1>2, CountsMove DEF CountsCompletions, Register, SafetyInv, Typing, TypeOK, DbTypeOK
  <2>3. IsFiniteSet(now) /\ Cardinality(now) <= sponsorshipCount[w]
    BY <1>2 DEF CountCoversCompleted
  <2> HIDE DEF done, now
  <2>4. /\ IsFiniteSet(now \cup done)
        /\ Cardinality(now \cup done) = Cardinality(now) + Cardinality(done)
        /\ Cardinality(now) \in Nat /\ Cardinality(done) \in Nat
    <3>1. Cardinality(now \cup done) = Cardinality(now) + Cardinality(done) - Cardinality(now \cap done)
      BY <2>1, <2>3, FS_Union
    <3>2. Cardinality(now \cap done) = 0
      BY <2>1, FS_EmptySet
    <3>3. Cardinality(now) \in Nat /\ Cardinality(done) \in Nat /\ IsFiniteSet(now \cup done)
      BY <2>1, <2>3, FS_Union, FS_CardinalityType
    <3> QED
      BY <3>1, <3>2, <3>3
  <2>5. CASE Register(w)
    <3>1. Completed(w)' = now
      BY <2>1, <2>5
    <3> QED
      BY <2>2, <2>3, <2>4, <2>5, <3>1
  <2>6. CASE sponsorshipCount'[w] = sponsorshipCount[w] + Cardinality(done)
    BY <2>1, <2>2, <2>3, <2>4, <2>6
  <2> QED
    BY <2>2, <2>5, <2>6
<1>3. SafetyInv /\ DraftCountsOnce /\ CountCoversCompleted /\ [Next]_vars => CountCoversCompleted'
  BY <1>2 DEF CountCoversCompleted
<1> QED
  BY <1>1, <1>3, CountsInit, CountsStep, SafetyInvariant, PTL DEF Spec

\* Paid calls are no more than wallets, since no two of them are for one wallet.
THEOREM SpendingIsBounded == Spec => []SpendIsBounded
<1>1. ASSUME SafetyInv, IsFiniteSet(Wallets)
      PROVE  IsFiniteSet(PaidCalls) /\ Cardinality(PaidCalls) <= Cardinality(Wallets)
  <2> DEFINE to == [t \in PaidCalls |-> Recipient(t)]
  <2>1. \A t \in PaidCalls : Recipient(t) \in Wallets
    BY <1>1, OwnerAssumption DEF PaidCalls, Recipient, SafetyInv, Typing, StageOK
  <2>2. \A t, u \in PaidCalls : to[t] = to[u] => t = u
    BY <1>1 DEF PaidCalls, SafetyInv, PaidAtMostOnce
  <2>3. to \in Injection(PaidCalls, Wallets)
    BY <2>1, <2>2 DEF Injection, IsInjective
  <2> HIDE DEF to
  <2> QED
    BY <1>1, <2>3, FS_Injection
<1>2. SafetyInv => SpendIsBounded
  BY <1>1 DEF SpendIsBounded
<1> QED
  BY <1>2, SafetyInvariant, PTL
=============================================================================
