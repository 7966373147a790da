------------------------- MODULE RequestPathProofs -------------------------
(***************************************************************************)
(* Proofs about RequestPath: the invariant of the path holds of every      *)
(* number of calls and wallets, and with it the properties that say what a *)
(* page may conclude from the end of its call.                             *)
(***************************************************************************)
EXTENDS RequestPath, TLAPS

\* Where the handler of a call is fits what the call asks for.
StagesFit == \A c \in Calls :
  /\ api[c] \in {"create", "update"} => asked[c] = "register"
  /\ api[c] = "update" => wallet[About[c]] # "absent"
  /\ api[c] \in {"checkActive", "checkCompleted", "insert"} => asked[c] = "request"

\* RefusalsAreFounded, of what the API has answered.
AnswersAreFounded == \A c \in Calls :
  /\ answer[c] = "badRequest" /\ asked[c] = "request"
     => Rows(c, {"inProgress", "completed", "unsponsored"}) # {}
  /\ answer[c] = "forbidden" => wallet[About[c]] = "blocked"

\* The inductive invariant.
Inv == PathInv /\ StagesFit /\ AnswersAreFounded

Errors == ClientErrors \cup
  {"BlockedWallet", "WalletNotFound", "SponsorshipNotFound", "RateLimit", "Unknown",
   "UniqueViolation", "DatabaseError"}

\* Nothing that is thrown is answered with success or a status of the proxy.
LEMMA Thrown ==
  ASSUME NEW error \in Errors
  PROVE  /\ ErrorStatus(error) \in {"badRequest", "forbidden", "notFound", "tooMany", "serverError"}
         /\ (ErrorStatus(error) = "badRequest") = (error \in ClientErrors)
         /\ (ErrorStatus(error) = "forbidden") = (error = "BlockedWallet")
BY DEF Errors, ClientErrors, ErrorStatus, HandleError

LEMMA ParseThrows == ParseErrorClass \in {"InvalidJson", "Unknown"}
BY DEF ParseErrorClass

LEMMA NotFoundIs == \A what : NotFoundStatus(what) \in {"methodNotAllowed", "notFound"}
BY DEF NotFoundStatus

-----------------------------------------------------------------------------
(* Steps by their shape.                                                    *)

\* What the page and the proxy do among themselves leaves the API's part alone.
LEMMA OutsideApi ==
  ASSUME Inv, UNCHANGED <<asked, apiVars, procVars, tables>>
  PROVE  /\ AnswersAreTrue' /\ NothingOutlives' /\ StagesFit'
         /\ AnswersAreFounded' /\ OneIsNew'
BY DEF Inv, PathInv, AnswersAreTrue, NothingOutlives, StagesFit, AnswersAreFounded, OneIsNew,
       Rows, apiVars, procVars, tables, Row

\* A call that the API is busy with has no answer that was passed on.
LEMMA InsideApi ==
  ASSUME Inv, NEW c \in Calls, api[c] \in Busy,
         NEW stage \in Busy \cup {"over"}, NEW code \in Statuses \cup {"none"},
         api' = [api EXCEPT ![c] = stage], answer' = [answer EXCEPT ![c] = code],
         UNCHANGED <<clientVars, proxyVars, procVars>>
  PROVE  EndsAgree' /\ NothingOutlives'
<1>1. api \in [Calls -> Busy \cup {"none", "over", "lost"}] /\ answer \in [Calls -> Statuses \cup {"none"}]
  BY DEF Inv, PathInv, TypeOK
<1>2. api[c] \notin {"none", "over"}
  BY DEF Busy, Before, Statements
<1>3. EndsAgree'
  BY <1>1, <1>2 DEF Inv, PathInv, EndsAgree, clientVars, proxyVars
<1>4. NothingOutlives'
  BY <1>1 DEF Inv, PathInv, NothingOutlives, procVars
<1> QED BY <1>3, <1>4

\* The handler goes on to its next statement.
LEMMA GoOnStep ==
  ASSUME Inv, NEW c \in Calls, api[c] \in Before, NEW stage \in Statements, GoOn(c, stage),
         stage \in {"create", "update"} => asked[c] = "register",
         stage = "update" => Row(c) # "absent",
         stage \in {"checkActive", "checkCompleted", "insert"} => asked[c] = "request"
  PROVE  Inv'
<1> USE DEF GoOn, Inv, PathInv
<1>1. TypeOK'
  BY DEF TypeOK, Before, Busy, clientVars, proxyVars, procVars, tables
<1>2. answer' = [answer EXCEPT ![c] = answer[c]] /\ answer[c] = "none"
  BY DEF TypeOK, AnswersAreTrue
<1>3. EndsAgree' /\ NothingOutlives'
  BY <1>2, InsideApi DEF Busy, Before
<1>4. AnswersAreTrue'
  BY <1>2 DEF TypeOK, AnswersAreTrue, Before, Statements, Success, Refusal, clientVars, tables
<1>5. StagesFit'
  BY DEF TypeOK, StagesFit, Row, clientVars, tables
<1>6. AnswersAreFounded' /\ OneIsNew'
  BY DEF AnswersAreFounded, OneIsNew, Rows, clientVars, tables
<1> QED BY <1>1, <1>3, <1>4, <1>5, <1>6

\* The API answers without an effect.
LEMMA AnswerStep ==
  ASSUME Inv, NEW c \in Calls, api[c] \in Busy, NEW code \in Refusal \cup {"serverError"},
         Answer(c, code), UNCHANGED tables,
         code \in Refusal => api[c] \in Before,
         code = "badRequest" /\ asked[c] = "request"
           => Rows(c, {"inProgress", "completed", "unsponsored"}) # {},
         code = "forbidden" => Row(c) = "blocked"
  PROVE  Inv'
<1> USE DEF Answer, Inv, PathInv
<1>1. code \in Statuses /\ code \notin Success /\ code \notin {"none", "badGateway", "created"}
  BY DEF Refusal, Statuses, Failure, Success
<1>2. TypeOK'
  BY <1>1 DEF TypeOK, clientVars, proxyVars, procVars, tables
<1>3. EndsAgree' /\ NothingOutlives'
  BY <1>1, InsideApi
<1>4. AnswersAreTrue'
  BY <1>1 DEF TypeOK, AnswersAreTrue, Before, Statements, clientVars, tables
<1>5. StagesFit'
  BY DEF TypeOK, StagesFit, clientVars, tables
<1>6. AnswersAreFounded'
  BY DEF TypeOK, AnswersAreFounded, Rows, Row, clientVars, tables
<1>7. OneIsNew'
  BY <1>1 DEF TypeOK, OneIsNew, clientVars, tables
<1> QED BY <1>2, <1>3, <1>4, <1>5, <1>6, <1>7

\* A statement has its effect; the handler has still to reply.
LEMMA WrittenStep ==
  ASSUME Inv, NEW c \in Calls, NEW code \in Success,
         \/ api[c] = "create" /\ AddressIsFree(c) /\ Written(c, code)
            /\ wallet' = [wallet EXCEPT ![About[c]] = "open"] /\ UNCHANGED request
         \/ api[c] = "update" /\ code = "ok" /\ Written(c, code) /\ UNCHANGED <<wallet, request>>
         \/ api[c] = "insert" /\ Written(c, code)
            /\ request' = [request EXCEPT ![c] = "inProgress"] /\ UNCHANGED wallet
  PROVE  Inv'
<1> USE DEF Written, Inv, PathInv
<1>1. /\ api' = [api EXCEPT ![c] = "replying"] /\ answer' = [answer EXCEPT ![c] = code]
      /\ served' = served \cup {c} /\ UNCHANGED <<clientVars, proxyVars, procVars>>
      /\ api[c] \in Statements
      /\ About[c] \in Wallets /\ code \in Statuses \ {"none", "badGateway", "badRequest", "forbidden"}
      /\ c \notin served
  BY AboutAssumption DEF Statements, Statuses, Success, Refusal, Failure, AnswersAreTrue, Before
<1>2. TypeOK'
  BY <1>1 DEF TypeOK, Busy, clientVars, proxyVars, procVars
<1>3. EndsAgree' /\ NothingOutlives'
  BY <1>1, InsideApi DEF Busy, Before
<1>4. /\ asked[c] \in {"register", "request"}
      /\ asked[c] = "request" => request' = [request EXCEPT ![c] = "inProgress"] /\ UNCHANGED wallet
      /\ asked[c] = "register" => UNCHANGED request /\ wallet'[About[c]] # "absent"
  BY <1>1 DEF StagesFit, TypeOK
<1>5. \A w \in Wallets : wallet[w] # "absent" => wallet'[w] # "absent"
  BY <1>1 DEF TypeOK
<1>6. \A w \in Wallets : wallet[w] = "blocked" => wallet'[w] = "blocked"
  BY <1>1 DEF TypeOK, AddressIsFree, Unique, Row
<1> HIDE DEF Written, Inv, PathInv
<1>t. TypeOK /\ AnswersAreTrue /\ StagesFit
  BY DEF Inv, PathInv
<1>7. AnswersAreTrue'
  <2>1. ASSUME NEW d \in Calls, d # c, asked' = asked
        PROVE  /\ api'[d] = api[d] /\ answer'[d] = answer[d] /\ (d \in served') = (d \in served)
               /\ request'[d] = request[d]
    BY <1>1, <1>4, <1>t, <2>1 DEF TypeOK
  <2>2. ASSUME NEW d \in Calls PROVE wallet[About[d]] # "absent" => wallet'[About[d]] # "absent"
    BY <1>5, AboutAssumption
  <2>3. asked' = asked
    BY <1>1 DEF clientVars
  <2>4. /\ api'[c] = "replying" /\ answer'[c] = code /\ c \in served'
        /\ (request'[c] # "absent") = (asked[c] = "request")
    BY <1>1, <1>4, <1>t DEF TypeOK, AnswersAreTrue
  <2>5. code \notin Refusal
    BY DEF Success, Refusal
  <2> QED BY <1>t, <1>1, <1>4, <2>1, <2>2, <2>3, <2>4, <2>5 DEF AnswersAreTrue, Before, Statements
<1>8. StagesFit'
  <2>1. \A d \in Calls : api'[d] = IF d = c THEN "replying" ELSE api[d]
    BY <1>1, <1>t DEF TypeOK
  <2>2. \A d \in Calls : wallet[About[d]] # "absent" => wallet'[About[d]] # "absent"
    BY <1>5, AboutAssumption
  <2> QED BY <1>1, <1>t, <2>1, <2>2 DEF StagesFit, clientVars
<1> USE DEF Written, Inv, PathInv
<1>9. \A d \in Calls : request[d] # "absent" => request'[d] # "absent"
  BY <1>1, <1>4 DEF TypeOK
<1>10. AnswersAreFounded'
  <2>1. ASSUME NEW d \in Calls, answer'[d] = "badRequest", asked'[d] = "request"
        PROVE  Rows(d, {"inProgress", "completed", "unsponsored"})' # {}
    <3>1. Rows(d, {"inProgress", "completed", "unsponsored"}) # {}
      BY <1>1, <2>1 DEF TypeOK, AnswersAreFounded, clientVars
    <3>2. PICK e \in Calls \ {d} : About[e] = About[d] /\ request[e] # "absent"
      BY <3>1 DEF Rows
    <3>3. request'[e] \in {"inProgress", "completed", "unsponsored"}
      BY <1>2, <1>9, <3>2 DEF TypeOK
    <3> QED BY <3>2, <3>3 DEF Rows
  <2>2. ASSUME NEW d \in Calls, answer'[d] = "forbidden" PROVE wallet'[About[d]] = "blocked"
    <3> HIDE DEF Written, Inv, PathInv
    <3>1. answer[d] = "forbidden"
      BY <1>1, <1>t, <2>2 DEF TypeOK
    <3>2. wallet[About[d]] = "blocked"
      BY <3>1 DEF Inv, AnswersAreFounded
    <3> QED BY <1>6, <3>2, AboutAssumption
  <2> QED BY <2>1, <2>2 DEF AnswersAreFounded
<1>11. OneIsNew'
  <2>1. CASE answer'[c] = "created" /\ asked[c] = "register"
    <3>1. wallet[About[c]] = "absent"
      BY <1>1, <2>1 DEF TypeOK, StagesFit, AddressIsFree, Unique, Row
    <3>2. \A d \in Calls : d # c /\ About[d] = About[c] /\ asked[d] = "register" => answer[d] # "created"
      BY <3>1 DEF AnswersAreTrue, Success
    <3> QED BY <1>1, <3>2 DEF OneIsNew, TypeOK, clientVars
  <2>2. CASE ~(answer'[c] = "created" /\ asked[c] = "register")
    BY <1>1, <2>2 DEF OneIsNew, TypeOK, clientVars
  <2> QED BY <2>1, <2>2
<1> QED BY <1>2, <1>3, <1>7, <1>8, <1>10, <1>11

LEMMA ReadStep ==
  ASSUME Inv, NEW c \in Calls, api[c] = "handler", asked[c] \in {"lookup", "detail"}, AnswerRead(c)
  PROVE  Inv'
<1> USE DEF AnswerRead, Answer, Inv, PathInv
<1>1. "ok" \in Statuses /\ api[c] \in Busy
  BY DEF Statuses, Success, Busy, Before, Statements
<1>2. TypeOK'
  BY <1>1 DEF TypeOK, clientVars, proxyVars, procVars
<1>3. EndsAgree' /\ NothingOutlives'
  BY <1>1, InsideApi
<1>4. AnswersAreTrue'
  BY DEF TypeOK, AnswersAreTrue, Before, Statements, Success, Refusal, clientVars
<1>5. StagesFit' /\ AnswersAreFounded' /\ OneIsNew'
  BY DEF TypeOK, StagesFit, AnswersAreFounded, OneIsNew, Rows, clientVars
<1> QED BY <1>2, <1>3, <1>4, <1>5

LEMMA ReplyStep ==
  ASSUME Inv, NEW c \in Calls, Reply(c)
  PROVE  Inv'
<1> USE DEF Reply, Answer, Inv, PathInv
<1>1. api[c] \in Busy /\ answer[c] \in Statuses /\ answer' = answer
  BY DEF TypeOK, AnswersAreTrue, Busy, Success, Statuses
<1>2. TypeOK'
  BY <1>1 DEF TypeOK, clientVars, proxyVars, procVars, tables
<1>3. EndsAgree' /\ NothingOutlives'
  BY <1>1, InsideApi
<1>4. AnswersAreTrue'
  BY <1>1 DEF TypeOK, AnswersAreTrue, Before, Statements, clientVars, tables, Success
<1>5. StagesFit' /\ AnswersAreFounded' /\ OneIsNew'
  BY <1>1 DEF TypeOK, StagesFit, AnswersAreFounded, OneIsNew, Rows, clientVars, tables
<1> QED BY <1>2, <1>3, <1>4, <1>5

-----------------------------------------------------------------------------
(* Steps by their actor.                                                    *)

LEMMA PageStep ==
  ASSUME Inv, NEW c \in Calls, Page(c)
  PROVE  Inv'
<1>1. UNCHANGED <<asked, proxyVars, apiVars, procVars, tables>>
  BY DEF Page, Send, Headers, Body, Timeout, ConnectionLost, Broken, End
<1>2. TypeOK /\ EndsAgree
  BY DEF Inv, PathInv
<1>3. browser[c] = "reading" => status[c] \in Statuses
  BY <1>2 DEF TypeOK, EndsAgree
<1>4. TypeOK'
  BY <1>1, <1>2, <1>3 DEF TypeOK, Page, Send, Headers, Body, Timeout, ConnectionLost, Broken, End,
     proxyVars, apiVars, procVars, tables
<1>5. EndsAgree'
  <2>0. "none" \notin Statuses /\ "unanswered" \notin Statuses \cup {"none"}
    BY DEF Statuses, Success, Refusal, Failure
  <2>1. CASE Send(c) \/ Headers(c)
    BY <1>2, <2>1 DEF TypeOK, EndsAgree, Send, Headers, proxyVars, apiVars
  <2>2. ASSUME NEW how, (how = status[c] /\ browser[c] = "reading") \/ how = "unanswered",
               browser[c] \in {"waiting", "reading"}, End(c, how)
        PROVE  EndsAgree'
    BY <1>2, <1>3, <2>0, <2>2 DEF TypeOK, EndsAgree, End, proxyVars, apiVars
  <2>3. CASE Body(c)
    BY <2>2, <2>3 DEF Body
  <2>4. CASE Timeout(c) \/ ConnectionLost(c)
    BY <2>2, <2>4 DEF Timeout, TimerArmed, ConnectionLost, Broken
  <2> QED BY <2>1, <2>3, <2>4 DEF Page
<1> QED BY <1>1, <1>4, <1>5, OutsideApi DEF Inv, PathInv

LEMMA ProxyStep ==
  ASSUME Inv, NEW c \in Calls, Proxy(c)
  PROVE  Inv'
<1>0. TypeOK /\ EndsAgree /\ AnswersAreTrue /\ NothingOutlives /\ StagesFit /\ AnswersAreFounded /\ OneIsNew
  BY DEF Inv, PathInv
<1>1. CASE PassOn(c) \/ ProxyFails(c)
  <2>1. "badGateway" \in Statuses /\ "none" \notin Statuses
    BY DEF Statuses, Success, Refusal, Failure
  <2>2. api[c] = "over" => answer[c] \in Statuses
    BY <1>0 DEF TypeOK, AnswersAreTrue, Before, Statements
  <2>3. TypeOK'
    BY <1>0, <1>1, <2>1, <2>2 DEF TypeOK, PassOn, ProxyFails, RelayedStatus, clientVars, apiVars, procVars, tables
  <2>4. EndsAgree'
    BY <1>0, <1>1, <2>1, <2>2 DEF TypeOK, EndsAgree, PassOn, ProxyFails, RelayedStatus, clientVars, apiVars
  <2> QED BY <1>1, <2>3, <2>4, OutsideApi DEF Inv, PathInv, PassOn, ProxyFails, clientVars
<1>2. CASE Forward(c) \/ ForwardTooLate(c)
  <2>1. api[c] = "none" /\ answer[c] = "none" /\ c \notin served /\ status[c] = "none"
    BY <1>0, <1>2 DEF Forward, ForwardTooLate, EndsAgree, AnswersAreTrue
  <2>2. /\ \/ api' = [api EXCEPT ![c] = "received"] /\ answer' = answer /\ proc \in {"up", "disconnecting"}
           \/ api' = [api EXCEPT ![c] = "over"] /\ answer' = [answer EXCEPT ![c] = "unavailable"]
        /\ proxy' = [proxy EXCEPT ![c] = "forwarding"] /\ browser[c] # "idle" /\ proxy[c] = "none"
        /\ UNCHANGED <<clientVars, status, procVars, tables>>
    BY <1>2 DEF Forward, ForwardTooLate, Accepting, procVars, tables
  <2>3. TypeOK'
    BY <1>0, <2>2 DEF TypeOK, Busy, Before, Statuses, Failure, clientVars, procVars, tables
  <2>4. EndsAgree'
    BY <1>0, <2>1, <2>2 DEF TypeOK, EndsAgree, clientVars
  <2>5. AnswersAreTrue'
    BY <1>0, <2>1, <2>2 DEF TypeOK, AnswersAreTrue, Before, Statements, Success, Refusal, clientVars, tables
  <2>6. NothingOutlives'
    BY <1>0, <2>2 DEF TypeOK, NothingOutlives, procVars, Busy, Before, Statements
  <2>7. StagesFit' /\ AnswersAreFounded' /\ OneIsNew'
    BY <1>0, <2>2 DEF TypeOK, StagesFit, AnswersAreFounded, OneIsNew, Rows, clientVars, tables
  <2> QED BY <2>3, <2>4, <2>5, <2>6, <2>7 DEF Inv, PathInv
<1> QED BY <1>1, <1>2 DEF Proxy

LEMMA ThrowStep ==
  ASSUME Inv, NEW c \in Calls, api[c] \in Busy, NEW error \in Errors, Throw(c, error),
         api[c] = "replying" => error = "DatabaseError",
         error \in ClientErrors /\ asked[c] = "request"
           => Rows(c, {"inProgress", "completed", "unsponsored"}) # {},
         error = "BlockedWallet" => Row(c) = "blocked"
  PROVE  Inv'
<1>1. ErrorStatus(error) \in Refusal \cup {"serverError"}
  BY Thrown DEF Refusal
<1>2. error = "DatabaseError" => ErrorStatus(error) = "serverError"
  BY DEF ErrorStatus, HandleError, ClientErrors
<1>3. ErrorStatus(error) \in Refusal => api[c] \in Before
  BY <1>2 DEF Busy, Refusal
<1> QED BY <1>1, <1>3, Thrown, AnswerStep DEF Throw

LEMMA ApiStep ==
  ASSUME Inv, NEW c \in Calls, Api(c)
  PROVE  Inv'
<1>0. Before \subseteq Busy /\ Statements \subseteq Before /\ {"received"} \subseteq Before
  BY DEF Busy, Before
<1>1. Statements = {"handler", "create", "update", "checkActive", "checkCompleted", "insert"}
  BY DEF Statements
<1>2. /\ {"SchemaViolation", "InvalidJson", "ValidationError"} \subseteq Errors
      /\ {"BlockedWallet", "WalletNotFound", "SponsorshipNotFound", "RateLimit", "Unknown",
          "UniqueViolation", "DatabaseError"} \subseteq Errors \ ClientErrors
  BY DEF Errors, ClientErrors
<1>3. StagesFit /\ TypeOK
  BY DEF Inv, PathInv
<1>4. CASE Receive(c)
  <2>1. CASE asked[c] = "badJson" /\ Throw(c, ParseErrorClass)
    BY <1>0, <1>2, <1>4, <2>1, ParseThrows, ThrowStep DEF Receive
  <2>2. CASE asked[c] = "badSchema" /\ Throw(c, "SchemaViolation")
    BY <1>0, <1>2, <1>4, <2>2, ThrowStep DEF Receive
  <2>3. CASE \E error \in {"RateLimit", "DatabaseError"} : Throw(c, error)
    BY <1>0, <1>2, <1>4, <2>3, ThrowStep DEF Receive
  <2>4. CASE GoOn(c, "handler")
    BY <1>0, <1>1, <1>4, <2>4, GoOnStep DEF Receive
  <2>5. CASE Answer(c, NotFoundStatus(asked[c])) /\ UNCHANGED tables
    <3>1. NotFoundStatus(asked[c]) \in Refusal
      BY NotFoundIs DEF Refusal
    <3> QED BY <1>0, <1>4, <2>5, <3>1, NotFoundIs, AnswerStep DEF Receive
  <2> QED BY <1>4, <2>1, <2>2, <2>3, <2>4, <2>5 DEF Receive
<1>5. CASE Register(c)
  <2>1. CASE Row(c) = "absent" /\ GoOn(c, "create")
    BY <1>0, <1>1, <1>5, <2>1, GoOnStep DEF Register
  <2>2. CASE Row(c) = "blocked" /\ Throw(c, "BlockedWallet")
    BY <1>0, <1>1, <1>2, <1>5, <2>2, ThrowStep DEF Register
  <2>3. CASE Row(c) = "open" /\ GoOn(c, "update")
    BY <1>0, <1>1, <1>5, <2>3, GoOnStep DEF Register
  <2> QED BY <1>5, <2>1, <2>2, <2>3 DEF Register
<1>6. CASE CreateWallet(c)
  <2>1. CASE Throw(c, "UniqueViolation")
    BY <1>0, <1>1, <1>2, <1>6, <2>1, ThrowStep DEF CreateWallet
  <2> QED BY <1>6, <2>1, WrittenStep DEF CreateWallet, Success
<1>7. CASE UpdateWallet(c)
  BY <1>7, WrittenStep DEF UpdateWallet, Success
<1>8. CASE LookUpWallet(c)
  <2>1. CASE Throw(c, "WalletNotFound")
    BY <1>0, <1>1, <1>2, <1>8, <2>1, ThrowStep DEF LookUpWallet
  <2> QED BY <1>8, <2>1, ReadStep DEF LookUpWallet
<1>9. CASE LookUpRow(c)
  <2>1. CASE Throw(c, "SponsorshipNotFound")
    BY <1>0, <1>1, <1>2, <1>9, <2>1, ThrowStep DEF LookUpRow
  <2> QED BY <1>9, <2>1, ReadStep DEF LookUpRow
<1>10. CASE CheckWallet(c)
  <2>1. CASE Row(c) = "absent" /\ Throw(c, "WalletNotFound")
    BY <1>0, <1>1, <1>2, <1>10, <2>1, ThrowStep DEF CheckWallet
  <2>2. CASE Row(c) = "blocked" /\ Throw(c, "BlockedWallet")
    BY <1>0, <1>1, <1>2, <1>10, <2>2, ThrowStep DEF CheckWallet
  <2>3. CASE GoOn(c, "checkActive")
    BY <1>0, <1>1, <1>10, <2>3, GoOnStep DEF CheckWallet
  <2> QED BY <1>10, <2>1, <2>2, <2>3 DEF CheckWallet
<1>11. CASE CheckActive(c) \/ CheckCompleted(c)
  <2>1. ASSUME NEW states \in {{"inProgress"}, {"completed"}}, Rows(c, states) # {}
        PROVE  Rows(c, {"inProgress", "completed", "unsponsored"}) # {}
    BY <2>1 DEF Rows
  <2>2. CASE Throw(c, "ValidationError")
    <3>1. Rows(c, {"inProgress", "completed", "unsponsored"}) # {}
      BY <1>3, <1>11, <2>1, <2>2 DEF CheckActive, CheckCompleted, Throw, Answer, GoOn, TypeOK
    <3> QED BY <1>0, <1>1, <1>2, <1>11, <2>2, <3>1, ThrowStep DEF CheckActive, CheckCompleted
  <2>3. CASE api[c] = "checkActive" /\ GoOn(c, "checkCompleted")
    BY <1>0, <1>1, <1>3, <2>3, GoOnStep DEF StagesFit
  <2>4. CASE api[c] = "checkCompleted" /\ GoOn(c, "insert")
    BY <1>0, <1>1, <1>3, <2>4, GoOnStep DEF StagesFit
  <2> QED BY <1>11, <2>2, <2>3, <2>4 DEF CheckActive, CheckCompleted
<1>12. CASE InsertRequest(c)
  <2>1. CASE Throw(c, "UniqueViolation")
    BY <1>0, <1>1, <1>2, <1>12, <2>1, ThrowStep DEF InsertRequest
  <2> QED BY <1>12, <2>1, WrittenStep DEF InsertRequest, Success
<1>13. CASE Reply(c)
  BY <1>13, ReplyStep
<1>14. CASE DbFails(c)
  BY <1>0, <1>2, <1>14, ThrowStep DEF DbFails, Busy
<1> QED BY <1>4, <1>5, <1>6, <1>7, <1>8, <1>9, <1>10, <1>11, <1>12, <1>13, <1>14 DEF Api

LEMMA OthersStep ==
  ASSUME Inv,
         \/ \E c \in Calls, outcome \in {"completed", "unsponsored"} : Settle(c, outcome)
         \/ \E w \in Wallets : Block(w)
  PROVE  Inv'
<1>0. TypeOK /\ EndsAgree /\ AnswersAreTrue /\ NothingOutlives /\ StagesFit /\ AnswersAreFounded /\ OneIsNew
  BY DEF Inv, PathInv
<1>1. /\ UNCHANGED <<clientVars, proxyVars, apiVars, procVars, served>>
      /\ \A c \in Calls : (request'[c] = "absent") = (request[c] = "absent")
      /\ \A w \in Wallets : /\ (wallet'[w] = "absent") = (wallet[w] = "absent")
                            /\ wallet[w] = "blocked" => wallet'[w] = "blocked"
  BY <1>0 DEF TypeOK, Settle, Block
<1>2. TypeOK'
  BY <1>0 DEF TypeOK, Settle, Block, clientVars, proxyVars, apiVars, procVars
<1>3. EndsAgree' /\ NothingOutlives'
  BY <1>0, <1>1 DEF EndsAgree, NothingOutlives, clientVars, proxyVars, apiVars, procVars
<1>4. \A c \in Calls : (wallet'[About[c]] = "absent") = (wallet[About[c]] = "absent")
  BY <1>1, AboutAssumption
<1>5. AnswersAreTrue' /\ StagesFit' /\ OneIsNew'
  BY <1>0, <1>1, <1>4 DEF AnswersAreTrue, StagesFit, OneIsNew, clientVars, apiVars
<1>6. AnswersAreFounded'
  <2>1. \A c \in Calls : Rows(c, {"inProgress", "completed", "unsponsored"}) # {}
                        => Rows(c, {"inProgress", "completed", "unsponsored"})' # {}
    BY <1>0, <1>1, <1>2 DEF Rows, TypeOK
  <2> QED BY <1>0, <1>1, <2>1, AboutAssumption DEF AnswersAreFounded, clientVars, apiVars
<1> QED BY <1>2, <1>3, <1>5, <1>6 DEF Inv, PathInv

LEMMA ProcessStep ==
  ASSUME Inv, Process
  PROVE  Inv'
<1>0. TypeOK /\ EndsAgree /\ AnswersAreTrue /\ NothingOutlives /\ StagesFit /\ AnswersAreFounded /\ OneIsNew
  BY DEF Inv, PathInv
<1>1. ASSUME NEW code \in {"zero", "other"}, Exit(code)
      PROVE  Inv'
  <2>1. /\ \A c \in Calls : /\ api'[c] = IF api[c] \in Busy THEN "lost" ELSE api[c]
                            /\ answer'[c] = IF api[c] \in Busy THEN "none" ELSE answer[c]
        /\ UNCHANGED <<clientVars, proxyVars, tables>> /\ proc' = "exited"
    BY <1>1 DEF Exit
  <2>2. TypeOK'
    BY <1>0, <1>1 DEF TypeOK, Exit, clientVars, proxyVars, tables
  <2>3. /\ "lost" \notin Busy /\ "over" \notin Busy /\ "none" \notin Busy
        /\ Busy = Before \cup {"replying"} /\ "lost" \notin Before
    BY DEF Busy, Before, Statements
  <2>4. EndsAgree'
    BY <1>0, <2>1, <2>3 DEF EndsAgree, clientVars, proxyVars
  <2>5. AnswersAreTrue'
    BY <1>0, <2>1, <2>3 DEF AnswersAreTrue, Refusal, Success, clientVars, tables
  <2>6. NothingOutlives' /\ StagesFit' /\ AnswersAreFounded' /\ OneIsNew'
    BY <1>0, <2>1, <2>3 DEF NothingOutlives, StagesFit, AnswersAreFounded, OneIsNew, Rows, clientVars, tables
  <2> QED BY <2>2, <2>4, <2>5, <2>6 DEF Inv, PathInv
<1>2. CASE Signal \/ Disconnected \/ Restart
  <2>1. UNCHANGED <<clientVars, proxyVars, apiVars, tables>>
    BY <1>2 DEF Signal, Disconnected, Restart
  <2>2. TypeOK'
    BY <1>0, <1>2 DEF TypeOK, Signal, Disconnected, Restart, clientVars, proxyVars, apiVars, tables
  <2>3. NothingOutlives'
    BY <1>0, <1>2 DEF NothingOutlives, Signal, Disconnected, Restart, apiVars
  <2>4. EndsAgree' /\ AnswersAreTrue' /\ StagesFit' /\ AnswersAreFounded' /\ OneIsNew'
    BY <1>0, <2>1 DEF EndsAgree, AnswersAreTrue, StagesFit, AnswersAreFounded, OneIsNew, Rows,
       clientVars, proxyVars, apiVars, tables
  <2> QED BY <2>2, <2>3, <2>4 DEF Inv, PathInv
<1> QED BY <1>1, <1>2 DEF Process, Closed, ForcedExit, ShutdownFails, Crash

-----------------------------------------------------------------------------
LEMMA InvInit == Init => Inv
<1> SUFFICES ASSUME Init PROVE Inv
  OBVIOUS
<1> USE DEF Init
<1>1. TypeOK
  BY ScenariosAssumption DEF TypeOK
<1>2. EndsAgree /\ NothingOutlives
  BY DEF EndsAgree, NothingOutlives, Statuses, Success, Refusal, Failure
<1>3. AnswersAreTrue
  BY DEF AnswersAreTrue, Before, Statements, Success, Refusal
<1>4. StagesFit /\ AnswersAreFounded /\ OneIsNew
  BY DEF StagesFit, AnswersAreFounded, OneIsNew
<1> QED BY <1>1, <1>2, <1>3, <1>4 DEF Inv, PathInv

LEMMA InvStep == Inv /\ [Next]_vars => Inv'
<1> SUFFICES ASSUME Inv, [Next]_vars PROVE Inv'
  OBVIOUS
<1>1. CASE Next
  BY <1>1, PageStep, ProxyStep, ApiStep, OthersStep, ProcessStep DEF Next
<1>2. CASE UNCHANGED vars
  BY <1>2 DEF vars, clientVars, proxyVars, apiVars, procVars, tables, Inv, PathInv, TypeOK, EndsAgree,
     AnswersAreTrue, NothingOutlives, StagesFit, AnswersAreFounded, OneIsNew, Rows
<1> QED BY <1>1, <1>2

LEMMA Invariance == Spec => []Inv
BY InvInit, InvStep, PTL DEF Spec

\* The page, the proxy, the API and the tables agree about every call, for any
\* number of calls and wallets.
THEOREM PathInvariant == Spec => []PathInv
BY Invariance, PTL DEF Inv

\* Of the registrations of a wallet one is answered with "created"
\* (registerWallet).
THEOREM OneRegistrationIsNew == Spec => []OneIsNew
BY Invariance, PTL DEF Inv, PathInv

\* A refusal the page hears has the reason it gives (the error handler).
THEOREM RefusalsHaveReasons == Spec => []RefusalsAreFounded
<1>1. ASSUME Inv, NEW c \in Calls, heard[c] \in {"badRequest", "forbidden"}
      PROVE  answer[c] = heard[c]
  <2>1. status[c] = heard[c] /\ proxy[c] = "answered"
    BY <1>1 DEF Inv, PathInv, EndsAgree, Statuses, Refusal
  <2> QED BY <1>1, <2>1 DEF Inv, PathInv, EndsAgree
<1>2. Inv => RefusalsAreFounded
  BY <1>1 DEF Inv, AnswersAreFounded, RefusalsAreFounded
<1> QED BY <1>2, Invariance, PTL

\* Whoever still waits for a call when the API's process reports exit code 0 has
\* its answer under way, or had 502 from the proxy (shutdown).
THEOREM CleanExitOfApi == Spec => ExitAbandonsNoCaller
<1> DEFINE Excused == \A c \in Calls : api[c] \in Busy => status[c] = "badGateway"
<1>1. Inv /\ [Next]_vars => [CleanExit => Excused]_vars
  <2> SUFFICES ASSUME Inv, Next, CleanExit PROVE Excused
    OBVIOUS
  <2>1. CASE Closed
    <3> SUFFICES ASSUME NEW c \in Calls, api[c] \in Busy PROVE status[c] = "badGateway"
      OBVIOUS
    <3>1. api[c] \notin {"none", "over"}
      BY DEF Busy, Before, Statements
    <3>2. proxy[c] # "forwarding"
      BY <2>1 DEF Closed, CloseResolves, Connected
    <3>3. proxy[c] = "answered"
      BY <3>1, <3>2 DEF Inv, PathInv, TypeOK, EndsAgree
    <3> QED BY <3>1, <3>3 DEF Inv, PathInv, EndsAgree
  <2>2. CASE UNCHANGED procVars
    BY <2>2 DEF procVars, CleanExit
  <2>3. CASE ForcedExit \/ ShutdownFails \/ Crash \/ Signal \/ Disconnected \/ Restart
    BY <2>3 DEF CleanExit, ForcedExit, ShutdownFails, Crash, Exit, Signal, Disconnected, Restart
  <2>4. ASSUME NEW c \in Calls, Page(c) \/ Proxy(c) PROVE UNCHANGED procVars
    BY <2>4 DEF Page, Proxy, Send, Headers, Body, Timeout, ConnectionLost, Broken, End,
       Forward, ForwardTooLate, PassOn, ProxyFails
  <2>5. ASSUME NEW c \in Calls, Api(c) PROVE UNCHANGED procVars
    BY <2>5 DEF Api, Receive, Register, CreateWallet, UpdateWallet, LookUpWallet, LookUpRow,
       CheckWallet, CheckActive, CheckCompleted, InsertRequest, Reply, DbFails,
       GoOn, Throw, Answer, AnswerRead, Written
  <2>6. ASSUME NEW c \in Calls, NEW outcome, Settle(c, outcome) PROVE UNCHANGED procVars
    BY <2>6 DEF Settle
  <2>7. ASSUME NEW w \in Wallets, Block(w) PROVE UNCHANGED procVars
    BY <2>7 DEF Block
  <2> QED BY <2>1, <2>2, <2>3, <2>4, <2>5, <2>6, <2>7 DEF Next, Process
<1> QED BY <1>1, Invariance, PTL DEF Spec, ExitAbandonsNoCaller

-----------------------------------------------------------------------------
(* The path implements RemoteCall.                                          *)

told == [c \in Calls |-> Verdict(c)]

LEMMA Verdicts ==
  ASSUME NEW c \in Calls
  PROVE  /\ heard[c] = "none" <=> Verdict(c) = "nothing"
         /\ Verdict(c) = "refused" <=> heard[c] \in Refusal
         /\ Verdict(c) = "done" <=> heard[c] \in Success
         /\ Verdict(c) \in {"nothing", "done", "refused", "unknown"}
BY DEF Verdict, Success, Refusal

\* One caller learns how its call ended: what it is told is so.
LEMMA EndIsTold ==
  ASSUME Inv, NEW c \in Calls, NEW how, End(c, how), heard[c] = "none",
         (how = status[c] /\ browser[c] = "reading") \/ how = "unanswered"
  PROVE  Promise!Next
<1>0. TypeOK /\ EndsAgree /\ AnswersAreTrue
  BY DEF Inv, PathInv
<1>1. heard' = [heard EXCEPT ![c] = how] /\ served' = served
  BY DEF End, tables
<1>2. \A d \in Calls : heard'[d] = IF d = c THEN how ELSE heard[d]
  BY <1>0, <1>1 DEF TypeOK
<1>3. how # "none"
  BY <1>0 DEF EndsAgree
<1>4. told[c] = "nothing" /\ told' = [told EXCEPT ![c] = Verdict(c)'] /\ Verdict(c)' \in {"done", "refused", "unknown"}
  <2>1. Verdict(c) = "nothing"
    BY Verdicts
  <2>2. Verdict(c)' \in {"done", "refused", "unknown"}
    BY <1>2, <1>3 DEF Verdict
  <2>3. \A d \in Calls : d # c => Verdict(d)' = Verdict(d)
    BY <1>2 DEF Verdict
  <2> QED BY <2>1, <2>2, <2>3 DEF told
<1>5. Verdict(c)' = "done" => c \in served
  BY <1>0, <1>2 DEF Verdict, EndsAgree, AnswersAreTrue, Success
<1>6. Verdict(c)' = "refused" => c \notin served
  BY <1>0, <1>2 DEF Verdict, EndsAgree, AnswersAreTrue, Success, Refusal
<1>7. CASE Verdict(c)' = "done"
  BY <1>1, <1>4, <1>5, <1>7 DEF Promise!Next, Promise!Acknowledge, Promise!Tell, told
<1>8. CASE Verdict(c)' = "refused"
  BY <1>1, <1>4, <1>6, <1>8 DEF Promise!Next, Promise!Refuse, Promise!Tell, told
<1>9. CASE Verdict(c)' = "unknown"
  BY <1>1, <1>4, <1>9 DEF Promise!Next, Promise!GiveUp, Promise!Tell, told
<1> QED BY <1>4, <1>7, <1>8, <1>9

\* The effect of a call is a step of its own, and no refused call has one.
LEMMA EffectIsCarriedOut ==
  ASSUME Inv, NEW c \in Calls, api[c] \in Before, served' = served \cup {c}, UNCHANGED clientVars
  PROVE  Promise!Next
<1>1. c \notin served /\ heard[c] \notin Refusal
  BY DEF Inv, PathInv, EndsAgree, AnswersAreTrue, Refusal, Statuses, Before, Statements
<1>2. told' = told /\ told[c] # "refused"
  BY <1>1, Verdicts DEF told, Verdict, clientVars
<1> QED BY <1>1, <1>2 DEF Promise!Next, Promise!CarryOut, told

LEMMA PromiseStep == Inv /\ [Next]_vars => [Promise!Next]_<<served, told>>
<1> SUFFICES ASSUME Inv, [Next]_vars PROVE Promise!Next \/ UNCHANGED <<served, told>>
  OBVIOUS
<1>0. TypeOK /\ EndsAgree
  BY DEF Inv, PathInv
<1>1. ASSUME UNCHANGED <<heard, served>> PROVE UNCHANGED <<served, told>>
  BY <1>1 DEF told, Verdict
<1>2. ASSUME NEW c \in Calls, Page(c) PROVE Promise!Next \/ UNCHANGED <<served, told>>
  <2>1. CASE Send(c) \/ Headers(c)
    BY <1>1, <2>1 DEF Send, Headers, tables
  <2>2. CASE Body(c)
    BY <1>0, <2>2, EndIsTold DEF Body, EndsAgree
  <2>3. CASE Timeout(c) \/ ConnectionLost(c)
    <3>1. heard[c] = "none"
      BY <1>0, <2>3 DEF Timeout, TimerArmed, ConnectionLost, EndsAgree
    <3> QED BY <2>3, <3>1, EndIsTold DEF Timeout, ConnectionLost, Broken
  <2> QED BY <1>2, <2>1, <2>2, <2>3 DEF Page
<1>3. ASSUME NEW c \in Calls, Proxy(c) PROVE UNCHANGED <<heard, served>>
  BY <1>3 DEF Proxy, Forward, ForwardTooLate, PassOn, ProxyFails, clientVars, tables
<1>4. ASSUME NEW c \in Calls, Api(c) PROVE Promise!Next \/ UNCHANGED <<served, told>>
  <2>1. CASE served' = served
    <3>1. UNCHANGED heard
      BY <1>4 DEF Api, Receive, Register, CreateWallet, UpdateWallet, LookUpWallet, LookUpRow,
         CheckWallet, CheckActive, CheckCompleted, InsertRequest, Reply, DbFails,
         GoOn, Throw, Answer, AnswerRead, Written, clientVars
    <3> QED BY <1>1, <2>1, <3>1
  <2>2. CASE served' # served
    <3>1. api[c] \in Before /\ served' = served \cup {c} /\ UNCHANGED clientVars
      BY <1>4, <2>2 DEF Api, Receive, Register, CreateWallet, UpdateWallet, LookUpWallet, LookUpRow,
         CheckWallet, CheckActive, CheckCompleted, InsertRequest, Reply, DbFails,
         GoOn, Throw, Answer, AnswerRead, Written, tables, Before, Statements
    <3> QED BY <3>1, EffectIsCarriedOut
  <2> QED BY <2>1, <2>2
<1>5. ASSUME NEW c \in Calls, NEW outcome, Settle(c, outcome) PROVE UNCHANGED <<heard, served>>
  BY <1>5 DEF Settle, clientVars
<1>6. ASSUME NEW w \in Wallets, Block(w) PROVE UNCHANGED <<heard, served>>
  BY <1>6 DEF Block, clientVars
<1>7. CASE Process
  BY <1>1, <1>7 DEF Process, Signal, Disconnected, Closed, ForcedExit, ShutdownFails, Crash, Restart,
     Exit, clientVars, tables
<1>8. CASE UNCHANGED vars
  BY <1>1, <1>8 DEF vars, clientVars, tables
<1> QED BY <1>1, <1>2, <1>3, <1>4, <1>5, <1>6, <1>7, <1>8 DEF Next

\* What a page may conclude from the end of its call is what RemoteCall
\* promises, whatever the proxy, the API, the database and the signals do.
THEOREM CallsAreHonest == Spec => ImplementsRemoteCall
<1>1. Init => Promise!Init
  <2> SUFFICES ASSUME Init PROVE Promise!Init
    OBVIOUS
  <2>1. \A c \in Calls : Verdict(c) = "nothing"
    BY Verdicts DEF Init
  <2> QED BY <2>1 DEF Init, Promise!Init
<1>2. Inv /\ [Next]_vars => [Promise!Next]_<<served, [c \in Calls |-> Verdict(c)]>>
  BY PromiseStep DEF told
<1> QED BY <1>1, <1>2, Invariance, PTL DEF Spec, ImplementsRemoteCall, Promise!Spec
=============================================================================
