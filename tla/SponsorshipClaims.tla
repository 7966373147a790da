-------------------------- MODULE SponsorshipClaims --------------------------
(***************************************************************************)
(* Statements about requests with relay rows of an earlier run, and        *)
(* statements the repository's documents make that the code does not keep. *)
(***************************************************************************)
EXTENDS SponsorshipRelay

\* A request with a submitted or confirmed relay row gets no other relay row:
\* the idempotency guard of processor.ts, under every interleaving of two
\* workers, their batches and their lost transactions.
NoRelayBesideActiveOne ==
  [][\A r \in Requests :
       (\E i \in DOMAIN relays[r] : relays[r][i] \in {"submitted", "confirmed"})
         => relays'[r] = relays[r]]_vars

\* However often a request is picked up, its committed relay rows never go
\* beyond either of the two limits (config.maxRetries and the default of
\* createRelayTransaction), and rows are only ever added at the end.
RelayRowsBounded ==
  [][\A r \in Requests :
       relays'[r] # relays[r] =>
         /\ Len(relays'[r]) = Len(relays[r]) + 1
         /\ Len(relays'[r]) <= MaxRetries /\ Len(relays'[r]) <= MaxRelayAttempts
         /\ \A i \in 1..Len(relays[r]) : relays'[r][i] = relays[r][i]]_vars

Recoverable(r) ==
  /\ status[r] = "relayed" /\ ~HasActiveRelay(relays[r])
  /\ Len(relays[r]) < MaxRelayAttempts \/ Len(relays[r]) >= MaxRetries

\* Stale recovery works for a relayed request below both limits or beyond
\* config.maxRetries.
RecoverableIsSettled ==
  \A r \in Leftovers : Recoverable(r) ~> status[r] \in TerminalStatus

-----------------------------------------------------------------------------
(* Claims of the documents.                                                 *)

\* docs/operations/runbooks.md:413: "If requests are stuck in `relayed` status
\* with no active relay transaction (stale relayed), the worker's recovery
\* logic will automatically re-process them on the next poll cycle."
StaleIsRecovered ==
  \A r \in Leftovers :
    status[r] = "relayed" /\ ~HasActiveRelay(relays[r])
      ~> status[r] \in TerminalStatus

\* .kiro/specs/arcpass-production-hardening/requirements.md:92: of two
\* concurrent submissions the API server shall "reject the other with a 400
\* error".
DuplicateIsBadRequest == \A h \in Handlers : reply[h] # "conflict"

\* .kiro/specs/real-relay-execution/requirements.md:91: "a single sponsorship
\* request is never broadcast to the chain more than once concurrently".
NoConcurrentBroadcast ==
  \A t, u \in TxIds :
    /\ txState[t] = "sent" /\ txState[u] = "sent"
    /\ txReq[t] = txReq[u]
    => t = u
=============================================================================
