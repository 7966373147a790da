------------------------- MODULE RequestFormProofs -------------------------
(***************************************************************************)
(* Proofs about RequestForm, for any number of requests, intervals and     *)
(* polls.                                                                  *)
(***************************************************************************)
EXTENDS RequestForm, TLAPS

LEMMA NothingIsNoCall ==
  /\ Nothing \notin Calls /\ Nothing \notin Details
  /\ \A c \in Calls : c.req \in Requests /\ c.status \in Statuses \cup {"none"}
  /\ \A c \in Calls : c.status # "none" => c \in Details
  BY NoneAssumption DEF Nothing, Calls, Details, Statuses

LEMMA FormInit == Init => FormInv
<1> SUFFICES ASSUME Init PROVE FormInv
  OBVIOUS
<1>1. handle = None /\ requestId = None /\ submit = "idle" /\ showManualRetry = FALSE
      /\ live = [i \in Intervals |-> None] /\ poll = [p \in Polls |-> Nothing]
  BY DEF Init
<1>2. RetryIsSafe /\ OneIntervalPerRequest
  BY <1>1 DEF RetryIsSafe, OneIntervalPerRequest
<1>3. TypeOK
  <2>1. barred \in BOOLEAN /\ showManualRetry \in BOOLEAN
    BY DEF Init
  <2>2. retries \in 0..MAX_POLLING_RETRIES
    BY RetriesAssumption DEF Init
  <2> QED
    BY <1>1, <2>1, <2>2 DEF Init, TypeOK
<1> QED
  BY <1>1, <1>2, <1>3 DEF FormInv

\* Only the interval in the ref is ever cleared; no other is touched.
LEMMA StopKeepsInv ==
  ASSUME FormInv, stopPolling, UNCHANGED <<server, submit, asked, requestState, barred, requestId>>,
         \A p \in Polls : poll'[p] = poll[p] \/ poll'[p] = Nothing, poll' \in [Polls -> Calls \cup {Nothing}],
         sponsorship' \in Details \cup {Nothing}, retries' \in 0..MAX_POLLING_RETRIES,
         showManualRetry' \in BOOLEAN
  PROVE  FormInv'
<1>1. /\ handle' = None
      /\ live' \in [Intervals -> Requests \cup {None}]
      /\ \A i \in Intervals : live'[i] = live[i] \/ live'[i] = None
      /\ \A i \in Intervals : i # handle => live'[i] = live[i]
      /\ \A i \in Intervals : i = handle => live'[i] = None
  BY NoneAssumption DEF stopPolling, HandleCleared, FormInv, TypeOK
<1>2. TypeOK' /\ RetryIsSafe'
  BY <1>1 DEF FormInv, TypeOK, RetryIsSafe
<1>3. OneIntervalPerRequest'
  BY <1>1, NoneAssumption DEF FormInv, TypeOK, OneIntervalPerRequest
<1>4. \A i \in Intervals : live'[i] # None => KnownToApi(live[i]) /\ live'[i] = live[i]
  BY <1>1 DEF FormInv
<1>5. \A p \in Polls : poll'[p] # Nothing => KnownToApi(poll[p].req) /\ poll'[p] = poll[p]
  BY DEF FormInv
<1>6. submit = "answered" => asked # None /\ \A i \in Intervals : live'[i] # asked
  BY <1>1, NoneAssumption DEF FormInv, KnownToApi
<1> QED
  BY <1>2, <1>3, <1>4, <1>5, <1>6 DEF FormInv, KnownToApi

\* A new interval for a request that no interval polls.
LEMMA StartKeepsInv ==
  ASSUME FormInv, NEW r, KnownToApi(r), startPolling(r), UNCHANGED server,
         requestId' = r, sponsorship' \in Details \cup {Nothing},
         \A i \in Intervals : live[i] # r,
         submit' \in {"idle", "registering", "creating", "answered"},
         asked' \in Requests \cup {None}, requestState' \in {"idle", "loading", "success", "error"},
         barred' \in BOOLEAN,
         submit' = "answered" =>
           asked' = asked /\ submit = "answered" /\ asked # r
  PROVE  FormInv'
<1>1. PICK i \in Intervals : live[i] = None /\ live' = [live EXCEPT ![i] = r] /\ handle' = i
  BY DEF startPolling
<1>2. PICK p \in Polls : poll[p] = Nothing /\ poll' = [poll EXCEPT ![p] = [req |-> r, status |-> "none"]]
  BY DEF startPolling, Send
<1>3. /\ live \in [Intervals -> Requests \cup {None}] /\ poll \in [Polls -> Calls \cup {Nothing}]
      /\ r \in Requests /\ r # None
  BY NoneAssumption DEF FormInv, TypeOK, KnownToApi
<1>4. [req |-> r, status |-> "none"] \in Calls
  BY <1>3 DEF Calls
<1>5. TypeOK' /\ RetryIsSafe'
  <2>1. retries' = 0 /\ showManualRetry' = FALSE
    BY DEF startPolling
  <2>2. live' \in [Intervals -> Requests \cup {None}] /\ poll' \in [Polls -> Calls \cup {Nothing}]
    BY <1>1, <1>2, <1>3, <1>4
  <2>3. handle' \in Intervals /\ live'[handle'] = r /\ server \in [Requests -> Statuses \cup {"absent"}]
    BY <1>1, <1>3 DEF FormInv, TypeOK
  <2>4. showManualRetry' \in BOOLEAN /\ RetryIsSafe'
    BY <2>1 DEF RetryIsSafe
  <2>5. retries' \in 0..MAX_POLLING_RETRIES
    BY <2>1, RetriesAssumption
  <2> QED
    BY <1>3, <2>2, <2>3, <2>4, <2>5 DEF TypeOK
<1>6. OneIntervalPerRequest'
  BY <1>1, <1>3 DEF FormInv, OneIntervalPerRequest
<1> QED
  BY <1>1, <1>2, <1>3, <1>4, <1>5, <1>6 DEF FormInv, KnownToApi

LEMMA SubmitKeepsInv ==
  ASSUME FormInv, Submit \/ Registered \/ SubmitFails \/ Unbar \/ \E r \in Requests : Create(r)
  PROVE  FormInv'
<1>1. CASE Submit \/ Registered \/ SubmitFails \/ Unbar
  <2>1. UNCHANGED <<server, shownVars, poll, timerVars, retries>>
    BY <1>1 DEF Submit, Registered, SubmitFails, Unbar, errorVars
  <2>2. /\ submit' = "answered" => submit = "answered" /\ asked' = asked
        /\ submit' \in {"idle", "registering", "creating", "answered"}
        /\ asked' \in Requests \cup {None} /\ barred' \in BOOLEAN
        /\ requestState' \in {"idle", "loading", "success", "error"}
        /\ showManualRetry' \in BOOLEAN /\ (showManualRetry' => showManualRetry)
    <3>1. CASE Submit
      BY <3>1 DEF Submit, FormInv, TypeOK
    <3>2. CASE Registered
      BY <3>2 DEF Registered, FormInv, TypeOK, errorVars
    <3>3. CASE SubmitFails
      BY <3>3 DEF SubmitFails, FormInv, TypeOK, errorVars
    <3>4. CASE Unbar
      BY <3>4 DEF Unbar, FormInv, TypeOK, errorVars
    <3> QED
      BY <1>1, <3>1, <3>2, <3>3, <3>4
  <2> QED
    BY <2>1, <2>2 DEF FormInv, TypeOK, RetryIsSafe, OneIntervalPerRequest, KnownToApi, shownVars, timerVars
<1>2. ASSUME NEW r \in Requests, Create(r) PROVE FormInv'
  <2>1. /\ server[r] = "absent" /\ server' = [server EXCEPT ![r] = "pending"]
        /\ submit' = "answered" /\ asked' = r
        /\ UNCHANGED <<requestState, barred, shownVars, poll, timerVars, errorVars>>
    BY <1>2 DEF Create, NewRequests
  <2>2. /\ server \in [Requests -> Statuses \cup {"absent"}]
        /\ server' \in [Requests -> Statuses \cup {"absent"}]
        /\ server'[r] # "absent" /\ \A s \in Requests : KnownToApi(s) => server'[s] # "absent"
    BY <2>1 DEF FormInv, TypeOK, Statuses, KnownToApi
  <2>3. TypeOK' /\ RetryIsSafe' /\ OneIntervalPerRequest'
    BY <2>1, <2>2 DEF FormInv, TypeOK, RetryIsSafe, OneIntervalPerRequest, shownVars, timerVars, errorVars
  <2>4. ~KnownToApi(r)
    BY <2>1 DEF KnownToApi
  <2>5. r # requestId /\ \A i \in Intervals : live[i] # r
    BY <2>4, NoneAssumption DEF FormInv
  <2> QED
    BY <2>1, <2>2, <2>3, <2>5 DEF FormInv, KnownToApi, shownVars, timerVars
<1> QED
  BY <1>1, <1>2

LEMMA PollKeepsInv ==
  ASSUME FormInv, NEW p \in Polls, PollStep(p)
  PROVE  FormInv'
<1>0. /\ poll \in [Polls -> Calls \cup {Nothing}] /\ server \in [Requests -> Statuses \cup {"absent"}]
      /\ poll[p] \in Calls /\ server[poll[p].req] \in Statuses /\ poll[p] # Nothing
  BY NothingIsNoCall DEF PollStep, Read, Answered, NetworkFails, OtherwiseFails, FormInv, TypeOK, KnownToApi
<1>1. CASE Read(p)
  <2>1. /\ poll' = [poll EXCEPT ![p] = [poll[p] EXCEPT !.status = server[poll[p].req]]]
        /\ UNCHANGED <<server, submitVars, shownVars, timerVars, errorVars>>
    BY <1>0, <1>1 DEF Read
  <2>2. /\ [poll[p] EXCEPT !.status = server[poll[p].req]] \in Calls
        /\ [poll[p] EXCEPT !.status = server[poll[p].req]].req = poll[p].req
    BY <1>0 DEF Calls, Statuses
  <2>3. poll' \in [Polls -> Calls \cup {Nothing}] /\ \A q \in Polls : poll'[q] # Nothing =>
          KnownToApi(poll'[q].req)
    BY <1>0, <2>1, <2>2 DEF FormInv
  <2> QED
    BY <2>1, <2>3 DEF FormInv, TypeOK, RetryIsSafe, OneIntervalPerRequest, KnownToApi, submitVars, shownVars,
       timerVars, errorVars
<1>2. ASSUME Answered(p) \/ NetworkFails(p) \/ OtherwiseFails(p)
      PROVE  /\ UNCHANGED <<server, submit, asked, requestState, barred, requestId>>
             /\ \A q \in Polls : poll'[q] = poll[q] \/ poll'[q] = Nothing
             /\ poll' \in [Polls -> Calls \cup {Nothing}]
             /\ sponsorship' \in Details \cup {Nothing}
             /\ retries' \in 0..MAX_POLLING_RETRIES
             /\ showManualRetry' \in BOOLEAN
             /\ stopPolling \/ ((UNCHANGED timerVars) /\ (showManualRetry' => showManualRetry))
  <2>1. poll' = [poll EXCEPT ![p] = Nothing] /\ UNCHANGED <<server, submitVars, requestId>>
    BY <1>2 DEF Answered, NetworkFails, OtherwiseFails, Ends
  <2>2. sponsorship' \in Details \cup {Nothing}
    BY <1>0, <1>2, NothingIsNoCall DEF Answered, NetworkFails, OtherwiseFails, FormInv, TypeOK
  <2>3. retries' \in 0..MAX_POLLING_RETRIES
    BY <1>2, RetriesAssumption DEF Answered, NetworkFails, OtherwiseFails, FormInv, TypeOK
  <2>4. /\ showManualRetry' \in BOOLEAN
        /\ stopPolling \/ ((UNCHANGED timerVars) /\ (showManualRetry' => showManualRetry))
    <3>1. CASE Answered(p)
      BY <3>1 DEF Answered
    <3>2. CASE NetworkFails(p)
      BY <3>2 DEF NetworkFails, FormInv, TypeOK
    <3>3. CASE OtherwiseFails(p)
      BY <3>3 DEF OtherwiseFails
    <3> QED
      BY <1>2, <3>1, <3>2, <3>3
  <2> QED
    BY <1>0, <2>1, <2>2, <2>3, <2>4 DEF submitVars
<1>3. CASE (Answered(p) \/ NetworkFails(p) \/ OtherwiseFails(p)) /\ stopPolling
  BY <1>2, <1>3, StopKeepsInv
<1>4. CASE (Answered(p) \/ NetworkFails(p) \/ OtherwiseFails(p)) /\ ~stopPolling
  BY <1>2, <1>4 DEF FormInv, TypeOK, RetryIsSafe, OneIntervalPerRequest, KnownToApi, timerVars
<1> QED
  BY <1>1, <1>3, <1>4 DEF PollStep

LEMMA FormStep == FormInv /\ [Next]_vars => FormInv'
<1> SUFFICES ASSUME FormInv, [Next]_vars PROVE FormInv'
  OBVIOUS
<1>1. CASE Submit \/ Registered \/ SubmitFails \/ Unbar \/ \E r \in Requests : Create(r)
  BY <1>1, SubmitKeepsInv
<1>2. CASE Created
  <2>1. /\ KnownToApi(asked) /\ \A i \in Intervals : live[i] # asked
        /\ startPolling(asked) /\ requestId' = asked /\ sponsorship' = Nothing
        /\ UNCHANGED <<server, barred>> /\ barred \in BOOLEAN
        /\ submit' = "idle" /\ asked' = None /\ requestState' = "success"
    BY <1>2 DEF Created, IdToPoll, FormInv, TypeOK
  <2> QED
    BY <2>1, StartKeepsInv
<1>3. CASE handleManualRetry
  <2>1. /\ KnownToApi(requestId) /\ startPolling(requestId) /\ handle = None /\ requestId # None
        /\ UNCHANGED <<server, submitVars, shownVars>>
    BY <1>3 DEF handleManualRetry, FormInv, RetryIsSafe
  <2>2. \A i \in Intervals : live[i] # requestId
    BY <2>1, NoneAssumption DEF FormInv, OneIntervalPerRequest
  <2> QED
    BY <2>1, <2>2, StartKeepsInv DEF FormInv, TypeOK, submitVars, shownVars
<1>4. CASE \E r \in Requests : Settle(r)
  <2>1. /\ UNCHANGED <<submitVars, shownVars, poll, timerVars, errorVars>>
        /\ server' \in [Requests -> Statuses \cup {"absent"}]
        /\ \A r \in Requests : server[r] # "absent" => server'[r] # "absent"
    BY <1>4 DEF Settle, FormInv, TypeOK, Statuses
  <2> QED
    BY <2>1 DEF FormInv, TypeOK, RetryIsSafe, OneIntervalPerRequest, KnownToApi, submitVars, shownVars,
       timerVars, errorVars
<1>5. ASSUME NEW i \in Intervals, Tick(i) PROVE FormInv'
  <2>1. PICK p \in Polls : Send(p, live[i])
    BY <1>5 DEF Tick
  <2>2. KnownToApi(live[i]) /\ UNCHANGED <<server, submitVars, shownVars, timerVars, errorVars>>
    BY <1>5 DEF Tick, FormInv
  <2>3. poll' \in [Polls -> Calls \cup {Nothing}] /\ \A q \in Polls : poll'[q] # Nothing =>
          KnownToApi(poll'[q].req)
    BY <2>1, <2>2 DEF Send, FormInv, TypeOK, Calls, KnownToApi
  <2> QED
    BY <2>2, <2>3 DEF FormInv, TypeOK, RetryIsSafe, OneIntervalPerRequest, KnownToApi, submitVars, shownVars,
       timerVars, errorVars
<1>6. CASE \E p \in Polls : PollStep(p)
  BY <1>6, PollKeepsInv
<1>7. CASE UNCHANGED vars
  BY <1>7 DEF FormInv, TypeOK, RetryIsSafe, OneIntervalPerRequest, KnownToApi, vars, submitVars, shownVars,
     timerVars, errorVars
<1> QED
  BY <1>1, <1>2, <1>3, <1>4, <1>5, <1>6, <1>7 DEF Next

\* Everything the form polls or shows exists, and the ref, the intervals and
\* the request on display stay consistent in every order of answers.
THEOREM FormInvariant == Spec => []FormInv
  BY FormInit, FormStep, PTL DEF Spec

\* Pressing the retry button never leaves an interval behind that nothing can
\* stop: handleManualRetry finds the ref empty.
THEOREM RetryLeaksNothing == Spec => []RetryIsSafe
<1>1. FormInv => RetryIsSafe
  BY DEF FormInv
<1> QED
  BY <1>1, FormInvariant, PTL

\* No request is polled by two intervals, and only submissions leave intervals
\* behind.
THEOREM IntervalsAreSingle == Spec => []OneIntervalPerRequest
<1>1. FormInv => OneIntervalPerRequest
  BY DEF FormInv
<1> QED
  BY <1>1, FormInvariant, PTL
=============================================================================
