---------------------------- MODULE RequestForm ----------------------------
(***************************************************************************)
(* The page that submits a request and polls it until it is settled        *)
(* (request-form.tsx, with the errors of api-client.ts).                   *)
(*                                                                         *)
(* The interval starts a poll every three seconds and awaits none of them; *)
(* a poll may take ten.  Answers therefore arrive in any order, also for a *)
(* request that the form no longer shows.                                  *)
(***************************************************************************)
EXTENDS Integers, FiniteSets

CONSTANTS
  Requests,            \* ids the API may answer with
  Intervals,           \* bound: handles of setInterval in use at once
  Polls,               \* bound: polls under way at once
  None,
  MAX_POLLING_RETRIES

ASSUME RetriesAssumption == MAX_POLLING_RETRIES \in Nat \ {0}
ASSUME NoneAssumption == None \notin Requests /\ None \notin Intervals

VARIABLES
  server,        \* each request as GET /sponsorship/:id would show it
  submit,        \* how far handleSubmit is; not "idle" = submitInFlightRef
  asked,         \* the request the API made of the submission under way
  requestState,
  barred,        \* validationState "invalid", or rateLimitUntil in the future
  requestId,
  sponsorship,   \* the detail on display: whose it is and what it says
  poll,          \* each poll: its request and the answer on the way back
  live,          \* intervals that have not been cleared: what they poll
  handle,        \* pollingIntervalRef (and isPolling)
  retries,       \* retriesRef
  showManualRetry \* and pollingError

submitVars == <<submit, asked, requestState, barred>>
shownVars  == <<requestId, sponsorship>>
timerVars  == <<live, handle>>
errorVars  == <<retries, showManualRetry>>
vars == <<server, submitVars, shownVars, poll, timerVars, errorVars>>

Statuses == {"pending", "terminal"}
Nothing  == [req |-> None, status |-> "none"]
Details  == [req : Requests, status : Statuses]
Calls    == [req : Requests, status : Statuses \cup {"none"}]

\* The type invariant.  The interval in the ref is alive and polls the request
\* on display.
TypeOK ==
  /\ server \in [Requests -> Statuses \cup {"absent"}]
  /\ submit \in {"idle", "registering", "creating", "answered"}
  /\ asked \in Requests \cup {None}
  /\ requestState \in {"idle", "loading", "success", "error"}
  /\ barred \in BOOLEAN
  /\ requestId \in Requests \cup {None}
  /\ sponsorship \in Details \cup {Nothing}
  /\ poll \in [Polls -> Calls \cup {Nothing}]
  /\ live \in [Intervals -> Requests \cup {None}]
  /\ handle \in Intervals \cup {None}
  /\ handle # None => live[handle] # None /\ live[handle] = requestId
  /\ retries \in 0..MAX_POLLING_RETRIES
  /\ showManualRetry \in BOOLEAN

Init ==
  /\ server = [r \in Requests |-> "absent"]
  /\ submit = "idle" /\ asked = None /\ requestState = "idle" /\ barred = FALSE
  /\ requestId = None /\ sponsorship = Nothing
  /\ poll = [p \in Polls |-> Nothing]
  /\ live = [i \in Intervals |-> None] /\ handle = None
  /\ retries = 0 /\ showManualRetry = FALSE

-----------------------------------------------------------------------------
(* Timers.                                                                  *)

\* Seeded fault: the timer is stopped but its handle is kept.
HandleKept == handle

\* What the ref holds after the timer it held was cleared.
HandleCleared == None

stopPolling ==
  /\ live' = IF handle = None THEN live ELSE [live EXCEPT ![handle] = None]
  /\ handle' = HandleCleared

Send(p, r) ==
  /\ poll[p] = Nothing
  /\ poll' = [poll EXCEPT ![p] = [req |-> r, status |-> "none"]]

\* One poll at once, then an interval.  The ref is overwritten: whoever calls
\* this with a live interval in it loses the means to stop that one.
startPolling(r) ==
  /\ \E p \in Polls : Send(p, r)
  /\ \E i \in Intervals :
       /\ live[i] = None
       /\ live' = [live EXCEPT ![i] = r]
       /\ handle' = i
  /\ retries' = 0 /\ showManualRetry' = FALSE

\* An interval fires, whether or not its last poll is over.
Tick(i) ==
  /\ live[i] # None
  /\ \E p \in Polls : Send(p, live[i])
  /\ UNCHANGED <<server, submitVars, shownVars, timerVars, errorVars>>

-----------------------------------------------------------------------------
(* handleSubmit.                                                            *)

Submit ==
  /\ submit = "idle" /\ ~barred
  /\ submit' = "registering" /\ requestState' = "loading"
  /\ showManualRetry' = FALSE
  /\ UNCHANGED <<server, asked, barred, shownVars, poll, timerVars, retries>>

\* registerWallet is answered.
Registered ==
  /\ submit = "registering"
  /\ submit' = "creating"
  /\ UNCHANGED <<server, asked, requestState, barred, shownVars, poll, timerVars, errorVars>>

\* Seeded fault: an API that answers with the wallet's request, new or not.
AnyRequest == Requests

\* POST /sponsorship/request never answers with an id it has given before.
NewRequests == {r \in Requests : server[r] = "absent"}

\* The API inserts the request.  Its answer may still be lost.
Create(r) ==
  /\ submit = "creating" /\ r \in NewRequests
  /\ server' = [server EXCEPT ![r] = IF @ = "absent" THEN "pending" ELSE @]
  /\ submit' = "answered" /\ asked' = r
  /\ UNCHANGED <<requestState, barred, shownVars, poll, timerVars, errorVars>>

\* Seeded fault: the id of the render before.
IdOfLastRender == requestId

\* The id that startPolling is given: the answer's, not the state's.
IdToPoll == asked

Created ==
  /\ submit = "answered"
  /\ submit' = "idle" /\ asked' = None /\ requestState' = "success"
  /\ requestId' = asked /\ sponsorship' = Nothing
  /\ startPolling(IdToPoll)
  /\ UNCHANGED <<server, barred>>

\* An error of either call.  An ApiError or a NetworkError bars the button until
\* the address is edited or the rate limit has passed; a TimeoutError does not.
SubmitFails ==
  /\ submit # "idle"
  /\ submit' = "idle" /\ asked' = None /\ requestState' = "error"
  /\ barred' \in BOOLEAN
  /\ UNCHANGED <<server, shownVars, poll, timerVars, errorVars>>

\* The user edits the address, or the rate limit has passed.
Unbar ==
  /\ barred
  /\ barred' = FALSE
  /\ UNCHANGED <<server, submit, asked, requestState, shownVars, poll, timerVars, errorVars>>

-----------------------------------------------------------------------------
(* pollStatus.                                                              *)

\* A worker settles the request.
Settle(r) ==
  /\ server[r] = "pending"
  /\ server' = [server EXCEPT ![r] = "terminal"]
  /\ UNCHANGED <<submitVars, shownVars, poll, timerVars, errorVars>>

\* The API reads the row; the answer is on its way.
Read(p) ==
  /\ poll[p] # Nothing /\ poll[p].status = "none"
  /\ poll' = [poll EXCEPT ![p].status = server[poll[p].req]]
  /\ UNCHANGED <<server, submitVars, shownVars, timerVars, errorVars>>

Ends(p) == poll' = [poll EXCEPT ![p] = Nothing] /\ UNCHANGED <<server, submitVars, requestId>>

isTerminalStatus(status) == status = "terminal"

\* An answer arrives.  Nothing asks whose it is or how old.
Answered(p) ==
  /\ poll[p] # Nothing /\ poll[p].status # "none"
  /\ sponsorship' = poll[p]
  /\ retries' = 0 /\ showManualRetry' = FALSE
  /\ IF isTerminalStatus(poll[p].status) THEN stopPolling ELSE UNCHANGED timerVars
  /\ Ends(p)

\* retriesRef counts on; only whether it has reached the limit is ever asked.
NetworkFails(p) ==
  /\ poll[p] # Nothing
  /\ retries' = IF retries < MAX_POLLING_RETRIES THEN retries + 1 ELSE retries
  /\ IF retries' >= MAX_POLLING_RETRIES
       THEN stopPolling /\ showManualRetry' = TRUE
       ELSE UNCHANGED <<timerVars, showManualRetry>>
  /\ UNCHANGED sponsorship
  /\ Ends(p)

\* An ApiError, or the TimeoutError of the ten seconds.
OtherwiseFails(p) ==
  /\ poll[p] # Nothing
  /\ stopPolling /\ showManualRetry' = TRUE
  /\ UNCHANGED <<retries, sponsorship>>
  /\ Ends(p)

handleManualRetry ==
  /\ showManualRetry /\ requestId # None
  /\ startPolling(requestId)
  /\ UNCHANGED <<server, submitVars, shownVars>>

-----------------------------------------------------------------------------
PollStep(p) == Read(p) \/ Answered(p) \/ NetworkFails(p) \/ OtherwiseFails(p)

Next ==
  \/ Submit \/ Registered \/ Created \/ SubmitFails \/ Unbar \/ handleManualRetry
  \/ \E r \in Requests : Create(r) \/ Settle(r)
  \/ \E i \in Intervals : Tick(i)
  \/ \E p \in Polls : PollStep(p)

Spec == Init /\ [][Next]_vars

\* Timers fire, every poll ends within its ten seconds, workers settle requests.
\* Nothing is asked of the user.
FairSpec ==
  /\ Spec
  /\ \A i \in Intervals : WF_vars(Tick(i))
  /\ \A p \in Polls : WF_vars(PollStep(p))
  /\ \A r \in Requests : WF_vars(Settle(r))

-----------------------------------------------------------------------------
\* The retry button is there only when the form's own interval is stopped, so
\* pressing it never leaves an interval behind that nothing can stop.
RetryIsSafe == showManualRetry => handle = None

\* However often the user submits and retries, and in whatever order answers
\* come: no request is polled by two intervals, and every interval but the one
\* in the ref polls a request that another submission has replaced.
OneIntervalPerRequest ==
  /\ \A i, j \in Intervals : live[i] # None /\ live[i] = live[j] => i = j
  /\ \A i \in Intervals : live[i] = requestId /\ requestId # None => i = handle

\* The inductive invariant: what is polled, shown or about to be polled is known
\* to the API, and the request of an answered submission is new to the form.
KnownToApi(r) == r \in Requests /\ server[r] # "absent"

FormInv ==
  /\ TypeOK /\ RetryIsSafe /\ OneIntervalPerRequest
  /\ \A i \in Intervals : live[i] # None => KnownToApi(live[i])
  /\ \A p \in Polls : poll[p] # Nothing => KnownToApi(poll[p].req)
  /\ requestId # None => KnownToApi(requestId)
  /\ submit = "answered" =>
       /\ KnownToApi(asked) /\ asked # requestId
       /\ \A i \in Intervals : live[i] # asked

\* As long as answers come before the next poll and the user does not submit
\* again while the form polls, a form whose submission succeeded ends with the
\* settled status of its request, with the retry button, or with the user's next
\* submission.
InStep ==
  /\ Cardinality({p \in Polls : poll[p] # Nothing}) <= 1
  /\ Cardinality({i \in Intervals : live[i] # None}) <= 1

EndsOf(r) ==
  \/ sponsorship = [req |-> r, status |-> "terminal"]
  \/ showManualRetry \/ submit # "idle"

PromptIsShown ==
  []InStep =>
    \A r \in Requests : requestId = r /\ requestState = "success" ~> EndsOf(r)

-----------------------------------------------------------------------------
\* .kiro/specs/arcpass-frontend-mvp/requirements.md:80: polling goes on "before
\* stopping with a manual retry option".  A form whose submission succeeded and
\* that has stopped polling before it saw a terminal status has the button.
StoppedOffersRetry ==
  /\ requestState = "success" /\ handle = None
  /\ sponsorship.status # "terminal"
  => showManualRetry
=============================================================================
