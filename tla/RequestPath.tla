---------------------------- MODULE RequestPath ----------------------------
(***************************************************************************)
(* The way of an HTTP call from the page to the tables and back: the       *)
(* page's client with its timer (api-client.ts), the proxy of the web      *)
(* server (api/backend/[...path]/route.ts), the API with its hooks,        *)
(* handlers and error handler, and the life of the API's process           *)
(* (server.js).  None of the three cancels what the next one is doing, so  *)
(* a call may be carried out after its caller has given up.                *)
(***************************************************************************)
EXTENDS Naturals, Sequences

CONSTANTS
  Calls,
  Wallets,
  About,    \* the wallet each call is about
  Scenarios \* what the calls ask for: functions from Calls to Asks

VARIABLES
  asked,    \* what each call asks for, once it is made
  browser,  \* fetchWithTimeout: idle, waiting (for headers), reading (the body), over
  heard,    \* how it has ended for the caller: a status, or a TimeoutError or NetworkError
  proxy,    \* proxyRequest: none, forwarding, answered
  status,   \* the status it answers with
  api,      \* where the API is with the call
  answer,   \* the status the API has decided on
  proc,     \* the API's process: up, disconnecting, closing, exited
  exitCode, \* how it has ended: with code 0, or with code 1 or a signal
  wallet,   \* rows of wallets: absent, open, blocked
  request,  \* the request row a call has inserted
  served    \* calls that have had their effect, reads that have been answered

clientVars == <<asked, browser, heard>>
proxyVars  == <<proxy, status>>
apiVars    == <<api, answer>>
procVars   == <<proc, exitCode>>
tables     == <<wallet, request, served>>
vars == <<clientVars, proxyVars, apiVars, procVars, tables>>

Routes == {"register", "request", "lookup", "detail"}
Asks == Routes \cup {"badSchema", "badJson", "unknownRoute", "wrongMethod"}

ASSUME AboutAssumption == About \in [Calls -> Wallets]
ASSUME ScenariosAssumption == Scenarios \subseteq [Calls -> Asks]

Success == {"ok", "created"}
Refusal == {"badRequest", "forbidden", "notFound", "methodNotAllowed", "tooMany"}
Failure == {"serverError", "unavailable", "badGateway"}
Statuses == Success \cup Refusal \cup Failure

\* Stages in which a handler awaits a statement, and those before an effect.
Statements == {"handler", "create", "update", "checkActive", "checkCompleted", "insert"}
Before == {"received"} \cup Statements
Busy == Before \cup {"replying"}

TypeOK ==
  /\ asked \in [Calls -> Asks]
  /\ browser \in [Calls -> {"idle", "waiting", "reading", "over"}]
  /\ heard \in [Calls -> Statuses \cup {"none", "unanswered"}]
  /\ proxy \in [Calls -> {"none", "forwarding", "answered"}]
  /\ status \in [Calls -> Statuses \cup {"none"}]
  /\ api \in [Calls -> Busy \cup {"none", "over", "lost"}]
  /\ answer \in [Calls -> Statuses \cup {"none"}]
  /\ proc \in {"up", "disconnecting", "closing", "exited"}
  /\ exitCode \in {"none", "zero", "other"}
  /\ wallet \in [Wallets -> {"absent", "open", "blocked"}]
  /\ request \in [Calls -> {"absent", "inProgress", "completed", "unsponsored"}]
  /\ served \in SUBSET Calls

Init ==
  /\ asked \in Scenarios /\ browser = [c \in Calls |-> "idle"]
  /\ heard = [c \in Calls |-> "none"]
  /\ proxy = [c \in Calls |-> "none"] /\ status = [c \in Calls |-> "none"]
  /\ api = [c \in Calls |-> "none"] /\ answer = [c \in Calls |-> "none"]
  /\ proc = "up" /\ exitCode = "none"
  /\ wallet \in [Wallets -> {"absent", "open", "blocked"}]
  /\ request = [c \in Calls |-> "absent"] /\ served = {}

-----------------------------------------------------------------------------
(* The page: fetchWithTimeout.                                              *)

Send(c) ==
  /\ browser[c] = "idle"
  /\ browser' = [browser EXCEPT ![c] = "waiting"]
  /\ UNCHANGED <<asked, heard, proxyVars, apiVars, procVars, tables>>

Headers(c) ==
  /\ browser[c] = "waiting" /\ proxy[c] = "answered"
  /\ browser' = [browser EXCEPT ![c] = "reading"]
  /\ UNCHANGED <<asked, heard, proxyVars, apiVars, procVars, tables>>

End(c, how) ==
  /\ browser' = [browser EXCEPT ![c] = "over"]
  /\ heard' = [heard EXCEPT ![c] = how]
  /\ UNCHANGED <<asked, proxyVars, apiVars, procVars, tables>>

\* Seeded fault: the headers are taken for the end of the call.
TimerUntilHeaders(c) == browser[c] = "waiting"

\* clearTimeout stands in the finally of the whole, not after the headers.
TimerArmed(c) == browser[c] \in {"waiting", "reading"}

Body(c) == browser[c] = "reading" /\ End(c, status[c])

\* An exception while headers or body are awaited.  The body of an error is
\* only read for its message: whatever happens to it, its status is thrown.
Broken(c) ==
  End(c, IF browser[c] = "reading" /\ status[c] \notin Success THEN status[c] ELSE "unanswered")

Timeout(c) == TimerArmed(c) /\ Broken(c)

ConnectionLost(c) == browser[c] \in {"waiting", "reading"} /\ Broken(c)

Page(c) ==
  \/ Send(c)
  \/ Headers(c) \/ Body(c) \/ Timeout(c) \/ ConnectionLost(c)

-----------------------------------------------------------------------------
(* The proxy.  It does not learn that the page has given up, and has no     *)
(* timer of its own.                                                        *)

Accepting == proc \in {"up", "disconnecting"}

Forward(c) ==
  /\ browser[c] # "idle" /\ proxy[c] = "none" /\ Accepting
  /\ proxy' = [proxy EXCEPT ![c] = "forwarding"]
  /\ api' = [api EXCEPT ![c] = "received"]
  /\ UNCHANGED <<clientVars, status, answer, procVars, tables>>

\* A connection that was kept alive brings a call to a server that is closing.
ForwardTooLate(c) ==
  /\ browser[c] # "idle" /\ proxy[c] = "none" /\ proc = "closing"
  /\ proxy' = [proxy EXCEPT ![c] = "forwarding"]
  /\ api' = [api EXCEPT ![c] = "over"]
  /\ answer' = [answer EXCEPT ![c] = "unavailable"]
  /\ UNCHANGED <<clientVars, status, procVars, tables>>

\* Seeded fault: the answer is passed on without its status.
StatusDropped(code) == "ok"

RelayedStatus(code) == code

PassOn(c) ==
  /\ proxy[c] = "forwarding" /\ api[c] = "over"
  /\ proxy' = [proxy EXCEPT ![c] = "answered"]
  /\ status' = [status EXCEPT ![c] = RelayedStatus(answer[c])]
  /\ UNCHANGED <<clientVars, apiVars, procVars, tables>>

\* The catch of proxyRequest: the page's body or the API's answer did not
\* arrive.  What the API does with the call goes on.
ProxyFails(c) ==
  /\ browser[c] # "idle" /\ proxy[c] \in {"none", "forwarding"}
  /\ proxy' = [proxy EXCEPT ![c] = "answered"]
  /\ status' = [status EXCEPT ![c] = "badGateway"]
  /\ UNCHANGED <<clientVars, apiVars, procVars, tables>>

Proxy(c) == Forward(c) \/ ForwardTooLate(c) \/ PassOn(c) \/ ProxyFails(c)

-----------------------------------------------------------------------------
(* The API's answers: the error handler and the not-found handler.          *)

ClientErrors == {"SchemaViolation", "InvalidJson", "ValidationError", "InvalidStatusTransition"}

\* setErrorHandler: what it does not know is an error of the server.
HandleError(error) ==
  CASE error \in ClientErrors -> "badRequest"
    [] error = "BlockedWallet" -> "forbidden"
    [] error \in {"WalletNotFound", "SponsorshipNotFound"} -> "notFound"
    [] error = "RateLimit" -> "tooMany"
    [] OTHER -> "serverError"

\* Seeded fault: what it does not know is laid to the client's charge.
UnknownIsBadRequest(error) ==
  IF HandleError(error) = "serverError" THEN "badRequest" ELSE HandleError(error)

ErrorStatus(error) == HandleError(error)

\* The parser of content-type-check hands on a SyntaxError without the
\* statusCode that isJsonParseError looks for first.
ParseError == [name |-> "SyntaxError", statusCode |-> "none"]
isJsonParseError(error) == error.statusCode = "400"
ParseErrorClass == IF isJsonParseError(ParseError) THEN "InvalidJson" ELSE "Unknown"

Registrations ==
  <<"cors", "securityHeaders", "correlationId", "contentTypeCheck", "replayProtection",
    "errorHandler", "ipRateLimit", "routes", "notFoundHandler">>

Position(plugin) == CHOOSE i \in DOMAIN Registrations : Registrations[i] = plugin

\* An onRoute hook hears of the routes that are registered after it.
RoutesAreMapped == Position("notFoundHandler") < Position("routes")

NotFoundStatus(what) ==
  IF what = "wrongMethod" /\ RoutesAreMapped THEN "methodNotAllowed" ELSE "notFound"

Answer(c, code) ==
  /\ api' = [api EXCEPT ![c] = "over"]
  /\ answer' = [answer EXCEPT ![c] = code]
  /\ UNCHANGED <<clientVars, proxyVars, procVars>>

Throw(c, error) == Answer(c, ErrorStatus(error)) /\ UNCHANGED tables

GoOn(c, stage) ==
  /\ api' = [api EXCEPT ![c] = stage]
  /\ UNCHANGED <<clientVars, proxyVars, answer, procVars, tables>>

-----------------------------------------------------------------------------
(* The API: parser, schema, hooks, handlers.                                *)

\* Parser and schema, then the preHandler hooks, which the not-found handler
\* has too.  RateLimiter says when replay protection and the counters refuse.
Receive(c) ==
  /\ api[c] = "received"
  /\ \/ asked[c] = "badJson" /\ Throw(c, ParseErrorClass)
     \/ asked[c] = "badSchema" /\ Throw(c, "SchemaViolation")
     \/ /\ asked[c] \notin {"badJson", "badSchema"}
        /\ \/ \E error \in {"RateLimit", "DatabaseError"} : Throw(c, error)
           \/ asked[c] \in Routes /\ GoOn(c, "handler")
           \/ asked[c] \notin Routes /\ Answer(c, NotFoundStatus(asked[c])) /\ UNCHANGED tables

\* The answer to a read is its effect.
AnswerRead(c) == Answer(c, "ok") /\ served' = served \cup {c} /\ UNCHANGED <<wallet, request>>

\* A statement whose effect is there before the handler learns of it.
Written(c, code) ==
  /\ api' = [api EXCEPT ![c] = "replying"]
  /\ answer' = [answer EXCEPT ![c] = code]
  /\ served' = served \cup {c}
  /\ UNCHANGED <<clientVars, proxyVars, procVars>>

Row(c) == wallet[About[c]]

Register(c) ==
  /\ api[c] = "handler" /\ asked[c] = "register"
  /\ \/ Row(c) = "absent" /\ GoOn(c, "create")
     \/ Row(c) = "blocked" /\ Throw(c, "BlockedWallet")
     \/ Row(c) = "open" /\ GoOn(c, "update")

\* walletAddress is unique.
Unique(c) == Row(c) = "absent"

\* Seeded fault: the address is not declared unique.
UniqueDropped(c) == TRUE

AddressIsFree(c) == Unique(c)

CreateWallet(c) ==
  /\ api[c] = "create"
  /\ \/ /\ AddressIsFree(c) /\ Written(c, "created")
        /\ wallet' = [wallet EXCEPT ![About[c]] = "open"]
        /\ UNCHANGED request
     \/ ~AddressIsFree(c) /\ Throw(c, "UniqueViolation")

\* The count of the row is SponsorshipRelay's.
UpdateWallet(c) ==
  api[c] = "update" /\ Written(c, "ok") /\ UNCHANGED <<wallet, request>>

LookUpWallet(c) ==
  /\ api[c] = "handler" /\ asked[c] = "lookup"
  /\ IF Row(c) = "absent" THEN Throw(c, "WalletNotFound") ELSE AnswerRead(c)

\* "detail" is a request by its id, a relay by its id or its hash: any row of
\* the tables, of these calls or of earlier ones, or none.
LookUpRow(c) ==
  /\ api[c] = "handler" /\ asked[c] = "detail"
  /\ AnswerRead(c) \/ Throw(c, "SponsorshipNotFound")

Rows(c, states) == {d \in Calls \ {c} : About[d] = About[c] /\ request[d] \in states}

CheckWallet(c) ==
  /\ api[c] = "handler" /\ asked[c] = "request"
  /\ \/ Row(c) = "absent" /\ Throw(c, "WalletNotFound")
     \/ Row(c) = "blocked" /\ Throw(c, "BlockedWallet")
     \/ Row(c) = "open" /\ GoOn(c, "checkActive")

CheckActive(c) ==
  /\ api[c] = "checkActive"
  /\ IF Rows(c, {"inProgress"}) = {} THEN GoOn(c, "checkCompleted") ELSE Throw(c, "ValidationError")

CheckCompleted(c) ==
  /\ api[c] = "checkCompleted"
  /\ IF Rows(c, {"completed"}) = {} THEN GoOn(c, "insert") ELSE Throw(c, "ValidationError")

\* The partial unique index lets one request of a wallet be in progress.
InsertRequest(c) ==
  /\ api[c] = "insert"
  /\ \/ /\ Rows(c, {"inProgress"}) = {} /\ Written(c, "created")
        /\ request' = [request EXCEPT ![c] = "inProgress"]
        /\ UNCHANGED wallet
     \/ Rows(c, {"inProgress"}) # {} /\ Throw(c, "UniqueViolation")

Reply(c) == api[c] = "replying" /\ Answer(c, answer[c]) /\ UNCHANGED tables

\* The database fails: before the statement has its effect, or after it.
DbFails(c) ==
  /\ api[c] \in Statements \cup {"replying"}
  /\ Throw(c, "DatabaseError")

Api(c) ==
  \/ Receive(c)
  \/ Register(c) \/ CreateWallet(c) \/ UpdateWallet(c)
  \/ LookUpWallet(c) \/ LookUpRow(c)
  \/ CheckWallet(c) \/ CheckActive(c) \/ CheckCompleted(c) \/ InsertRequest(c)
  \/ Reply(c) \/ DbFails(c)

-----------------------------------------------------------------------------
(* What others do to the rows: a worker settles a request (SponsorshipRelay),*)
(* an operator blocks a wallet.                                              *)

Settle(c, outcome) ==
  /\ request[c] = "inProgress"
  /\ request' = [request EXCEPT ![c] = outcome]
  /\ UNCHANGED <<clientVars, proxyVars, apiVars, procVars, wallet, served>>

Block(w) ==
  /\ wallet[w] = "open"
  /\ wallet' = [wallet EXCEPT ![w] = "blocked"]
  /\ UNCHANGED <<clientVars, proxyVars, apiVars, procVars, request, served>>

-----------------------------------------------------------------------------
(* The process: shutdown of server.js.                                      *)

Signal ==
  /\ proc = "up" /\ proc' = "disconnecting"
  /\ UNCHANGED <<clientVars, proxyVars, apiVars, exitCode, tables>>

\* prisma.$disconnect comes before app.close: calls are taken meanwhile.
Disconnected ==
  /\ proc = "disconnecting" /\ proc' = "closing"
  /\ UNCHANGED <<clientVars, proxyVars, apiVars, exitCode, tables>>

\* What is in the process goes with it.
Exit(code) ==
  /\ proc' = "exited" /\ exitCode' = code
  /\ api' = [c \in Calls |-> IF api[c] \in Busy THEN "lost" ELSE api[c]]
  /\ answer' = [c \in Calls |-> IF api[c] \in Busy THEN "none" ELSE answer[c]]
  /\ UNCHANGED <<clientVars, proxyVars, tables>>

\* The connection of a call stays until its answer is out, or the proxy's end of
\* it is gone.
Connected(c) == proxy[c] = "forwarding"

\* Seeded fault: the server is closed without waiting for its connections.
ClosedAtOnce == TRUE

\* app.close resolves when no connection is left with an answer to come.  It
\* knows of connections and not of handlers.
CloseResolves == \A c \in Calls : Connected(c) => api[c] \notin Busy

Closed == proc = "closing" /\ CloseResolves /\ Exit("zero")

ShuttingDown == proc \in {"disconnecting", "closing"}

\* Seeded fault: the timer is cleared before app.close.
ArmedUntilClose == proc = "disconnecting"

\* forceExit is cleared at the end of the chain only.
ForceArmed == ShuttingDown

ForcedExit == ForceArmed /\ Exit("other")

ShutdownFails == ShuttingDown /\ Exit("other")

Crash == proc # "exited" /\ Exit("other")

Restart ==
  /\ proc = "exited" /\ proc' = "up" /\ exitCode' = "none"
  /\ UNCHANGED <<clientVars, proxyVars, apiVars, tables>>

Process == Signal \/ Disconnected \/ Closed \/ ForcedExit \/ ShutdownFails \/ Crash \/ Restart

-----------------------------------------------------------------------------
Next ==
  \/ \E c \in Calls : Page(c) \/ Proxy(c) \/ Api(c)
  \/ \E c \in Calls, outcome \in {"completed", "unsponsored"} : Settle(c, outcome)
  \/ \E w \in Wallets : Block(w)
  \/ Process

Spec == Init /\ [][Next]_vars

\* Only the two timers are sure to act: nobody else promises to hurry.
FairSpec ==
  /\ Spec
  /\ \A c \in Calls : WF_vars(Timeout(c))
  /\ WF_vars(ForcedExit)

-----------------------------------------------------------------------------
(* Properties.                                                              *)

\* What the page hears is what the proxy answered; what the proxy answered is
\* what the API answered, unless it is its own 502.
EndsAgree == \A c \in Calls :
  /\ (heard[c] = "none") = (browser[c] # "over")
  /\ browser[c] = "idle" => proxy[c] = "none"
  /\ browser[c] = "reading" => proxy[c] = "answered"
  /\ heard[c] \in Statuses => proxy[c] = "answered" /\ heard[c] = status[c]
  /\ (status[c] = "none") = (proxy[c] # "answered")
  /\ status[c] \notin {"none", "badGateway"} => api[c] = "over" /\ status[c] = answer[c]
  /\ proxy[c] = "none" => api[c] = "none"

\* An answer says of its call what became of it: success only after the
\* effect, refusal only of a call that had and will have none.
AnswersAreTrue == \A c \in Calls :
  /\ (answer[c] = "none") = (api[c] \in Before \cup {"none", "lost"})
  /\ answer[c] # "badGateway"
  /\ api[c] = "replying" => answer[c] \in Success
  /\ answer[c] \in Success => c \in served
  /\ answer[c] \in Refusal \/ api[c] \in Before \cup {"none"} => c \notin served
  /\ (request[c] # "absent") = (asked[c] = "request" /\ c \in served)
  /\ c \in served /\ asked[c] = "register" => wallet[About[c]] # "absent"

\* No handler outlives its process.
NothingOutlives == proc = "exited" => \A c \in Calls : api[c] \notin Busy

\* Of the registrations of one wallet, however they race, one is answered with
\* "created" (registerWallet: findUnique, then create).
OneIsNew == \A c, d \in Calls :
  /\ c # d /\ About[c] = About[d] /\ asked[c] = "register" /\ asked[d] = "register"
  /\ answer[c] = "created"
  => answer[d] # "created"

\* The invariant of the path: page, proxy, API and tables agree about each call
\* at every moment, also when one of them has given up (fetchWithTimeout,
\* proxyRequest, the handlers, shutdown).
PathInv == TypeOK /\ EndsAgree /\ AnswersAreTrue /\ NothingOutlives /\ OneIsNew

\* A page that is told that its request is refused because of another one can
\* rely on that other one, and one that is told that its wallet is blocked on
\* that (validateNoPendingRequest, validateWalletNotBlocked, the error handler).
RefusalsAreFounded == \A c \in Calls :
  /\ heard[c] = "badRequest" /\ asked[c] = "request"
     => Rows(c, {"inProgress", "completed", "unsponsored"}) # {}
  /\ heard[c] = "forbidden" => wallet[About[c]] = "blocked"

\* Every call comes to an end for the page, whatever the proxy, the API and the
\* database do (the timer of fetchWithTimeout).
EveryCallEnds == \A c \in Calls : browser[c] = "waiting" ~> browser[c] = "over"

\* A signalled process ends, also when a handler never does (forceExit).
ShutdownEnds == ShuttingDown ~> proc = "exited"

CleanExit == proc # "exited" /\ proc' = "exited" /\ exitCode' = "zero"

\* Exit code 0 takes no answer from anybody who waits for it: it may abandon a
\* handler, but only one whose call the proxy has answered with 502 by then, which
\* says nothing of what became of it (shutdown: app.close before process.exit(0)).
ExitAbandonsNoCaller ==
  [][CleanExit => \A c \in Calls : api[c] \in Busy => status[c] = "badGateway"]_vars

Verdict(c) ==
  CASE heard[c] = "none"    -> "nothing"
    [] heard[c] \in Success -> "done"
    [] heard[c] \in Refusal -> "refused"
    [] OTHER                -> "unknown"

Promise == INSTANCE RemoteCall WITH carriedOut <- served, told <- [c \in Calls |-> Verdict(c)]

\* What the page may conclude from how its call ended is what RemoteCall says:
\* the page, the proxy and the API implement it together.
ImplementsRemoteCall == Promise!Spec
=============================================================================
