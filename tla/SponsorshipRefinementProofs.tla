-------------------- MODULE SponsorshipRefinementProofs --------------------
(***************************************************************************)
(* SponsorshipRelay implements Sponsorship: every initial state maps to an *)
(* initial state, every step to a step of the promise or to a stutter.     *)
(***************************************************************************)
EXTENDS SponsorshipRelayProofs, SponsorshipRefinement

LEMMA AcceptedInit == Init => CalledIsAccepted
  BY DEF Init, CalledIsAccepted

LEMMA AcceptedStep == SafetyInv /\ CalledIsAccepted /\ [Next]_vars => CalledIsAccepted'
<1> SUFFICES ASSUME SafetyInv, CalledIsAccepted, [Next]_vars PROVE CalledIsAccepted'
  OBVIOUS
<1>0. /\ \A r \in Requests : status[r] # "absent" => status'[r] # "absent"
      /\ Typing /\ Typing'
  BY StatusStep, TypingStep DEF SafetyInv
<1> USE DEF Typing, TypeOK, WorkerTypeOK, ChainTypeOK, StageOK
<1>1. CASE UNCHANGED <<pc, job, txReq, txState>>
  BY <1>0, <1>1 DEF CalledIsAccepted
<1>2. ASSUME NEW k \in Workers, NEW r \in Requests, Lock(k, r) PROVE CalledIsAccepted'
  BY <1>0, <1>2 DEF Lock, Processable, CalledIsAccepted, chainVars
<1>3. ASSUME NEW k \in Workers, NEW t \in TxIds, CallRelay(k, t) PROVE CalledIsAccepted'
  <2>1. /\ UNCHANGED <<pc, job, status>> /\ job[k] \in Requests /\ status[job[k]] # "absent"
        /\ txReq' = [txReq EXCEPT ![t] = job[k]]
        /\ txState' = [txState EXCEPT ![t] = "calling"]
    BY <1>0, <1>3 DEF CallRelay, CalledIsAccepted, dbVars
  <2> QED
    BY <1>0, <2>1 DEF CalledIsAccepted
<1>4. ASSUME NEW k \in Workers,
             UNCHANGED chainVars,
             \/ EndJob(k)
             \/ pc[k] # "idle" /\ UNCHANGED job /\ \E s : pc' = [pc EXCEPT ![k] = s]
      PROVE  CalledIsAccepted'
  <2>1. \A j \in Workers : pc'[j] # "idle" => pc[j] # "idle" /\ job'[j] = job[j]
    BY <1>0, <1>4 DEF EndJob
  <2> QED
    BY <1>0, <1>4, <2>1 DEF CalledIsAccepted, chainVars
<1>5. ASSUME NEW k \in Workers, WorkerStep(k) \/ Fault(k),
             ~\E t \in TxIds : CallRelay(k, t),
             ~\E r \in Requests : Lock(k, r)
      PROVE  CalledIsAccepted'
  <2>1. UNCHANGED chainVars
    BY <1>5 DEF WorkerStep, Fault, Poll, RejectBlocked, FoundConfirmed, FoundSubmitted,
       RetriesExhausted, Prepare, RelayAnswered, RelayTimeout, RelayError, Relayed, Conclude, Commit,
       FailDeadTx, TxTimeout, Crash, WorkerOnly
  <2>2. CASE Poll(k) \/ TxTimeout(k)
    BY <1>1, <2>1, <2>2 DEF Poll, TxTimeout, chainVars
  <2>3. CASE \/ RejectBlocked(k) \/ FoundConfirmed(k) \/ FoundSubmitted(k) \/ RetriesExhausted(k)
             \/ Prepare(k) \/ Conclude(k)
    BY <1>4, <2>1, <2>3 DEF RejectBlocked, FoundConfirmed, FoundSubmitted, RetriesExhausted, Prepare,
       Conclude, InTx, MoveTo, ReadyToCommit
  <2>4. CASE RelayAnswered(k) \/ RelayTimeout(k) \/ RelayError(k)
    BY <1>4, <2>1, <2>4 DEF RelayAnswered, RelayTimeout, RelayError, Relayed
  <2>5. CASE Commit(k) \/ FailDeadTx(k) \/ Crash(k)
    BY <1>4, <2>1, <2>5 DEF Commit, FailDeadTx, Crash
  <2> QED
    BY <1>5, <2>2, <2>3, <2>4, <2>5 DEF WorkerStep, Fault
<1>6. CASE \E t \in TxIds : ChainStep(t)
  <2>1. PICK t \in TxIds : ChainStep(t)
    BY <1>6
  <2>2. UNCHANGED <<pc, job, txReq>> /\ txState[t] # "free" /\ \E s : txState' = [txState EXCEPT ![t] = s]
    BY <2>1 DEF ChainStep, Send, Refuse, Mine, Revert, ChainOnly, workerVars
  <2> QED
    BY <1>0, <2>2 DEF CalledIsAccepted
<1>7. CASE \/ \E h \in Handlers : ApiStep(h)
           \/ \E w \in Wallets : WalletStep(w)
           \/ UNCHANGED vars
  <2>1. UNCHANGED <<pc, job, txReq, txState>>
    BY <1>0, <1>7, ApiAdds DEF WalletStep, BlockWallet, Register, vars, chainVars, workerVars
  <2> QED
    BY <1>1, <2>1
<1> QED
  BY <1>2, <1>3, <1>5, <1>6, <1>7 DEF Next

\* Nobody is paid who has not asked: a worker only ever has accepted requests,
\* and calls sponsorTransfer for the request it has.
THEOREM NobodyElseIsPaid == Spec => []PaidHasAsked
<1>1. SafetyInv /\ CalledIsAccepted => PaidHasAsked
  BY DEF SafetyInv, Typing, StageOK, CalledIsAccepted, PaidHasAsked, Recipient
<1> QED
  BY <1>1, AcceptedInit, AcceptedStep, SafetyInvariant, PTL DEF Spec

-----------------------------------------------------------------------------
LEMMA PromiseInit == Init => Promise!Init
<1> SUFFICES ASSUME Init PROVE Promise!Init
  OBVIOUS
<1>1. \A r \in Requests : OutcomeOf(status[r]) \in {"absent", "inProgress"}
  BY StatusTypes DEF Init, OutcomeOf
<1>2. \A r \in Requests : outcome[r] = "inProgress" => r \in Leftovers
  BY StatusTypes DEF Init, outcome, OutcomeOf
<1>3. Promise!OneUnderWay
  BY <1>2, LeftoversAssumption DEF Promise!OneUnderWay
<1> QED
  BY <1>1, <1>3 DEF Init, Promise!Init, outcome

LEMMA PromiseStep ==
  SafetyInv /\ CalledIsAccepted /\ [Next]_vars => [Promise!Next]_<<outcome, registry>>
<1> SUFFICES ASSUME SafetyInv, CalledIsAccepted, [Next]_vars
             PROVE  [Promise!Next]_<<outcome, registry>>
  OBVIOUS
<1>0. status \in [Requests -> RequestStates] /\ Typing
  BY DEF SafetyInv, Typing, TypeOK, DbTypeOK
<1>1. CASE UNCHANGED <<status, registry>>
  BY <1>1 DEF outcome
<1>2. ASSUME NEW h \in Handlers, ApiStep(h) PROVE [Promise!Next]_<<outcome, registry>>
  <2>1. UNCHANGED registry
    BY <1>0, <1>2, ApiAdds DEF chainVars
  <2>2. ASSUME NEW r \in Requests, status[r] = "absent",
               status' = [status EXCEPT ![r] = "pending"],
               \A s \in Requests : Owner[s] = Owner[r] => status[s] \notin ActiveStatus
        PROVE  Promise!Submit(r)
    <3>1. outcome[r] = "absent"
      BY <2>2, StatusTypes DEF outcome, OutcomeOf
    <3>2. \A s \in Requests : Owner[s] = Owner[r] => outcome[s] # "inProgress"
      BY <1>0, <2>2, StatusTypes DEF outcome, OutcomeOf, RequestStates, SponsorshipStatus
    <3>3. outcome' = [outcome EXCEPT ![r] = "inProgress"]
      BY <1>0, <2>2, StatusTypes DEF outcome, OutcomeOf
    <3> QED
      BY <2>1, <3>1, <3>2, <3>3 DEF Promise!Submit
  <2> QED
    BY <1>0, <1>1, <1>2, <2>1, <2>2, ApiAdds DEF Promise!Next
<1>3. ASSUME NEW k \in Workers, Commit(k) PROVE [Promise!Next]_<<outcome, registry>>
  <2> DEFINE r == job[k]
             s == draft[k].status
  <2>1. /\ r \in Requests /\ status[r] \in ActiveStatus
        /\ s \in SponsorshipStatus
        /\ s = "completed" => Owner[r] \in registry
        /\ status' = [status EXCEPT ![r] = s] /\ UNCHANGED registry
    BY <1>0, <1>3, StatusTypes DEF Commit, InTx, SafetyInv, NoLostResult, Processable, DraftIsHonest,
       Honest, StageOK, TypeOK, WorkerTypeOK, Drafts, RequestStates, chainVars, Typing
  <2>2. outcome[r] = "inProgress" /\ outcome' = [outcome EXCEPT ![r] = OutcomeOf(s)]
    BY <1>0, <2>1 DEF outcome, OutcomeOf
  <2>3. CASE s \in ActiveStatus
    BY <2>1, <2>2, <2>3 DEF outcome, OutcomeOf
  <2>4. CASE s \notin ActiveStatus
    <3>1. OutcomeOf(s) = s /\ s \in {"rejected", "completed", "failed"}
      BY <2>1, <2>4, StatusTypes DEF OutcomeOf, SponsorshipStatus
    <3>2. Promise!Settle(r, s)
      BY <2>1, <2>2, <3>1 DEF Promise!Settle
    <3> QED
      BY <2>1, <3>1, <3>2 DEF Promise!Next, Promise!Outcomes
  <2> QED
    BY <2>3, <2>4
<1>4. ASSUME NEW k \in Workers, WorkerStep(k) \/ Fault(k), ~Commit(k)
      PROVE  UNCHANGED <<status, registry>>
  BY <1>4 DEF WorkerStep, Fault, Poll, Lock, RejectBlocked, FoundConfirmed, FoundSubmitted,
     RetriesExhausted, Prepare, CallRelay, RelayAnswered, RelayTimeout, RelayError, Relayed,
     Conclude, FailDeadTx, TxTimeout, Crash, WorkerOnly, dbVars, chainVars
<1>5. ASSUME NEW t \in TxIds, ChainStep(t) PROVE [Promise!Next]_<<outcome, registry>>
  <2>1. UNCHANGED status
    BY <1>5 DEF ChainStep, Send, Refuse, Mine, Revert, ChainOnly, dbVars
  <2>2. CASE Mine(t)
    <3>1. /\ Recipient(t) \in Wallets /\ Recipient(t) \notin registry
          /\ registry' = registry \cup {Recipient(t)}
          /\ txReq[t] \in Requests /\ status[txReq[t]] # "absent"
      BY <1>0, <2>2, OwnerAssumption DEF Mine, Payable, Recipient, StageOK, CalledIsAccepted, Typing
    <3>2. outcome[txReq[t]] # "absent" /\ UNCHANGED outcome
      BY <1>0, <2>1, <3>1 DEF outcome, OutcomeOf
    <3>3. Promise!Pay(Recipient(t))
      BY <3>1, <3>2 DEF Promise!Pay, Recipient
    <3> QED
      BY <3>1, <3>3 DEF Promise!Next
  <2>3. CASE ~Mine(t)
    BY <1>1, <1>5, <2>1, <2>3 DEF ChainStep, Send, Refuse, Revert
  <2> QED
    BY <2>2, <2>3
<1>6. CASE UNCHANGED vars \/ \E w \in Wallets : WalletStep(w)
  BY <1>1, <1>6 DEF vars, dbVars, chainVars, WalletStep, BlockWallet, Register
<1> QED
  BY <1>1, <1>2, <1>3, <1>4, <1>5, <1>6 DEF Next

\* Whatever handlers, workers, database, process failures and the chain do, a
\* client sees a system in which a wallet has one request under way, is paid at
\* most once and only when it asked, and a request is settled once, as
\* completed only if its wallet has been paid.
THEOREM Refinement == Spec => ImplementsPromise
<1>1. Spec => []CalledIsAccepted
  BY AcceptedInit, AcceptedStep, SafetyInvariant, PTL DEF Spec
<1> QED
  BY <1>1, PromiseInit, PromiseStep, SafetyInvariant, PTL DEF Spec, ImplementsPromise, Promise!Spec

-----------------------------------------------------------------------------
(* The vault: the core's calls of sponsorTransfer keep what SponsoredOnce     *)
(* promises, which SponsorVault is shown to implement.                        *)

paidCalls == [w \in Wallets |-> Cardinality(SuccessfulCalls(w))]

LEMMA VaultInit == Init => Vault!Init
<1> SUFFICES ASSUME Init, NEW w \in Wallets PROVE Cardinality(SuccessfulCalls(w)) \in 0..1
  BY DEF Vault!Init
<1>1. SuccessfulCalls(w) = {}
  BY DEF Init, SuccessfulCalls
<1> QED
  BY <1>1, FS_EmptySet

\* A call that pays is the first one to pay its recipient.
LEMMA VaultPays ==
  ASSUME SafetyInv, NEW t \in TxIds, NEW w \in Wallets, Mine(t), Recipient(t) = w
  PROVE  Vault!Sponsor({w})
<1>0. txState \in [TxIds -> TxStates]
  BY DEF SafetyInv, Typing, TypeOK, ChainTypeOK
<1>1. /\ txState' = [txState EXCEPT ![t] = "success"] /\ UNCHANGED txReq
      /\ w \notin registry
  BY DEF Mine, Payable, ChainOnly
<1>2. SuccessfulCalls(w) = {}
  BY <1>1 DEF SuccessfulCalls, SafetyInv, PaidIsRegistered
<1>3. SuccessfulCalls(w)' = {t}
  BY <1>0, <1>1, <1>2 DEF SuccessfulCalls, Recipient
<1>4. \A v \in Wallets \ {w} : SuccessfulCalls(v)' = SuccessfulCalls(v)
  BY <1>0, <1>1 DEF SuccessfulCalls, Recipient
<1>5. Cardinality(SuccessfulCalls(w)) = 0 /\ Cardinality(SuccessfulCalls(w)') = 1
  BY <1>2, <1>3, FS_EmptySet, FS_Singleton
<1>6. paidCalls' = [v \in Wallets |-> IF v \in {w} THEN 1 ELSE paidCalls[v]]
  <2>1. \A v \in Wallets : paidCalls'[v] = IF v \in {w} THEN 1 ELSE paidCalls[v]
    <3> SUFFICES ASSUME NEW v \in Wallets
                 PROVE  paidCalls'[v] = IF v \in {w} THEN 1 ELSE paidCalls[v]
      OBVIOUS
    <3>1. CASE v = w
      BY <1>5, <3>1 DEF paidCalls
    <3>2. CASE v # w
      BY <1>4, <3>2 DEF paidCalls
    <3> QED
      BY <3>1, <3>2
  <2> QED
    BY <2>1 DEF paidCalls
<1>7. \A v \in {w} : paidCalls[v] = 0
  BY <1>5 DEF paidCalls
<1> QED
  BY <1>6, <1>7 DEF Vault!Sponsor, paidCalls

\* A call that is made, sent, refused or reverted, or given up, leaves those
\* that have paid as they are.
LEMMA OthersDoNotPay ==
  ASSUME SafetyInv, [Next]_vars, ~\E t \in TxIds : Mine(t), NEW w \in Wallets
  PROVE  SuccessfulCalls(w)' = SuccessfulCalls(w)
<1>0. txState \in [TxIds -> TxStates]
  BY DEF SafetyInv, Typing, TypeOK, ChainTypeOK
<1>1. CASE UNCHANGED <<txState, txReq>>
  BY <1>1 DEF SuccessfulCalls, Recipient
<1>2. ASSUME NEW t \in TxIds, txState[t] # "success", txState'[t] # "success",
             \A u \in TxIds \ {t} : txState'[u] = txState[u] /\ txReq'[u] = txReq[u]
      PROVE  SuccessfulCalls(w)' = SuccessfulCalls(w)
  BY <1>2 DEF SuccessfulCalls, Recipient
<1>3. ASSUME NEW k \in Workers, NEW t \in TxIds, CallRelay(k, t)
      PROVE  SuccessfulCalls(w)' = SuccessfulCalls(w)
  BY <1>0, <1>2, <1>3 DEF CallRelay, SafetyInv, Typing, TypeOK, ChainTypeOK
<1>4. ASSUME NEW t \in TxIds, ChainStep(t)
      PROVE  SuccessfulCalls(w)' = SuccessfulCalls(w)
  BY <1>0, <1>2, <1>4 DEF ChainStep, Send, Refuse, Revert, ChainOnly
<1>5. CASE \/ \E h \in Handlers : ApiStep(h)
           \/ \E v \in Wallets : WalletStep(v)
           \/ UNCHANGED vars
  <2>1. UNCHANGED <<txState, txReq>>
    BY <1>5, ApiAdds DEF SafetyInv, WalletStep, BlockWallet, Register, vars, chainVars
  <2> QED
    BY <1>1, <2>1
<1>6. CASE \E k \in Workers : (WorkerStep(k) \/ Fault(k)) /\ ~\E t \in TxIds : CallRelay(k, t)
  <2>1. UNCHANGED <<txState, txReq>>
    BY <1>6 DEF WorkerStep, Fault, Poll, Lock, RejectBlocked, FoundConfirmed, FoundSubmitted,
       RetriesExhausted, Prepare, RelayAnswered, RelayTimeout, RelayError, Relayed, Conclude,
       Commit, FailDeadTx, TxTimeout, Crash, WorkerOnly, chainVars
  <2> QED
    BY <1>1, <2>1
<1> QED
  BY <1>3, <1>4, <1>5, <1>6 DEF Next

LEMMA VaultStep == SafetyInv /\ [Next]_vars => [Vault!Next]_paidCalls
<1> SUFFICES ASSUME SafetyInv, [Next]_vars PROVE [Vault!Next]_paidCalls
  OBVIOUS
<1>1. ASSUME NEW t \in TxIds, Mine(t) PROVE Vault!Next
  <2>1. Recipient(t) \in Wallets
    BY <1>1, OwnerAssumption DEF SafetyInv, Typing, StageOK, Mine, Recipient
  <2> QED
    BY <1>1, <2>1, VaultPays DEF Vault!Next
<1>2. CASE ~\E t \in TxIds : Mine(t)
  BY <1>2, OthersDoNotPay DEF paidCalls
<1> QED
  BY <1>1, <1>2

\* What the core takes the chain to do with its calls is no more than what
\* SponsorVault keeps: a wallet is paid by one call at most, for good.
THEOREM RestsOnTheVault == Spec => RestsOnSponsoredOnce
  BY VaultInit, VaultStep, SafetyInvariant, PTL
     DEF Spec, RestsOnSponsoredOnce, Vault!Spec, paidCalls
=============================================================================
