---------------------------- MODULE RateLimiter ----------------------------
(***************************************************************************)
(* What the hooks of the API let through to POST /sponsorship/request, for *)
(* one wallet and one IP address: replay-protection.js, which refuses a    *)
(* request that follows too soon on another, and then the counter of       *)
(* rate-limit.service.js for one identifier.  Each is three statements on  *)
(* the same table with nothing around them, and no constraint keeps two    *)
(* requests from creating two rows.                                        *)
(*                                                                         *)
(* The functions for the IP address and for the wallet differ in the limit *)
(* only, but they are reached differently.  The replay hook sends the      *)
(* refusal of a duplicate and returns while the hooks that put headers on  *)
(* it are still to run (they are async).  The reply counts as unsent until *)
(* then, so the next hook is called for the duplicate all the same, and    *)
(* that is the counter of the IP address.  The wallet's comes behind the   *)
(* statements of that one, when the reply is out: it never sees a          *)
(* duplicate.                                                              *)
(*                                                                         *)
(* Time is kept as ages, so that it may go on for ever: how long ago the   *)
(* window began, how long a block has left, how old the "now" of a request *)
(* is.                                                                     *)
(***************************************************************************)
EXTENDS Integers, FiniteSets

CONSTANTS
  Handlers,      \* requests under way at once
  RowIds,        \* rows of each key: as many as requests can create
  ReplayWindow,  \* REPLAY_WINDOW_MS, in ticks
  Limit,         \* config.rateLimitIpMax, rateLimitWalletMax
  Window,        \* config.rateLimitWindowMs, in ticks
  BlockDuration, \* config.rateLimitBlockDurationMs, in ticks
  NoRow

ASSUME LimitAssumption ==
  /\ Limit \in Nat \ {0} /\ Window \in Nat \ {0} /\ BlockDuration \in Nat \ {0}
  /\ ReplayWindow \in 1..Window
ASSUME RowAssumption ==
  /\ IsFiniteSet(Handlers) /\ IsFiniteSet(RowIds) /\ RowIds \subseteq Nat
  /\ Cardinality(RowIds) >= Cardinality(Handlers)

VARIABLES
  counter, \* which of the two it is: ip or wallet
  echoes, \* refused duplicates that are at the counter
  stamps, \* the rows of the key wallet:ip, as the age of windowStart
  rows,  \* [count, age of windowStart, block: ticks left], block -1 if null
  pc,    \* where each request is
  plan,  \* the write it will make: create, reset, count, block
  target, newCount, \* the row it has read, the count it will write
  lag    \* ticks since it took its "now", in the stage it is in

vars == <<counter, echoes, stamps, rows, pc, plan, target, newCount, lag>>

Null == -1
Rows == [count : Nat, age : 0..Window, block : {Null} \cup 0..BlockDuration]

ASSUME NoRowAssumption == NoRow \notin Nat /\ NoRow \notin Rows

\* Bound: only the comparison with the limit counts, so the counter stops here.
Capped(n) == IF n > Limit THEN Limit ELSE n

Stages == {"idle", "screened", "stamping", "stamped", "echoed", "checked", "writing"}

TypeOK ==
  /\ counter \in {"ip", "wallet"}
  /\ echoes \subseteq Handlers
  /\ stamps \in [RowIds -> 0..ReplayWindow \cup {NoRow}]
  /\ rows \in [RowIds -> Rows \cup {NoRow}]
  /\ pc \in [Handlers -> Stages]
  /\ plan \in [Handlers -> {"none", "create", "reset", "count", "block"}]
  /\ target \in [Handlers -> RowIds \cup {NoRow}]
  /\ newCount \in [Handlers -> Nat]
  /\ lag \in [Handlers -> Nat]

\* The identifier is new, or it has one row of a window that is over.
Init ==
  /\ counter \in {"ip", "wallet"}
  /\ echoes = {}
  /\ stamps = [i \in RowIds |-> NoRow]
  /\ \E used \in {i \in SUBSET RowIds : Cardinality(i) <= 1} :
       /\ \A i \in used, j \in RowIds : i <= j
       /\ rows = [i \in RowIds |->
                    IF i \in used THEN [count |-> 1, age |-> Window, block |-> Null] ELSE NoRow]
  /\ pc = [h \in Handlers |-> "idle"]
  /\ plan = [h \in Handlers |-> "none"]
  /\ target = [h \in Handlers |-> NoRow]
  /\ newCount = [h \in Handlers |-> 0]
  /\ lag = [h \in Handlers |-> 0]

Existing(table) == {i \in RowIds : table[i] # NoRow}

\* findFirst has no order: any row, or none if there is none.
Found(i, table) == IF Existing(table) = {} THEN i = NoRow ELSE i \in Existing(table)

\* The row a create makes.  Nothing depends on the ids, so they are used in order.
Created(i, table) == table[i] = NoRow /\ \A j \in RowIds : j < i => table[j] # NoRow

-----------------------------------------------------------------------------
(* The preHandler of replay-protection.js.                                  *)

\* A stamp younger than the window.
Fresh == {i \in Existing(stamps) : stamps[i] < ReplayWindow}

\* Seeded fault: a duplicate is recorded as well.
DuplicateRecorded(i) == IF i \in Fresh THEN 0 ELSE stamps[i]

\* What the refusal of a duplicate makes of a stamp: nothing.
AfterDuplicate(i) == stamps[i]

\* The first findFirst finds a stamp within the window: the request is refused
\* with 429, and goes on to the counter if that is the one of the IP address.
Duplicate(h) ==
  /\ Fresh # {}
  /\ stamps' = [i \in RowIds |-> AfterDuplicate(i)]
  /\ IF counter = "ip"
       THEN /\ pc' = [pc EXCEPT ![h] = "echoed"]
            /\ echoes' = echoes \cup {h}
       ELSE UNCHANGED <<pc, echoes>>
  /\ UNCHANGED lag

\* It finds none.
NoDuplicate(h) ==
  /\ Fresh = {}
  /\ pc' = [pc EXCEPT ![h] = "screened"]
  /\ lag' = [lag EXCEPT ![h] = 0]
  /\ UNCHANGED <<echoes, stamps>>

Screen(h) ==
  /\ pc[h] = "idle"
  /\ Duplicate(h) \/ NoDuplicate(h)
  /\ UNCHANGED <<counter, rows, plan, target, newCount>>

\* The second findFirst, for any row of the key.
Recall(h) ==
  /\ pc[h] = "screened"
  /\ pc' = [pc EXCEPT ![h] = "stamping"]
  /\ \E i \in RowIds \cup {NoRow} :
       Found(i, stamps) /\ target' = [target EXCEPT ![h] = i]
  /\ UNCHANGED <<counter, echoes, stamps, rows, plan, newCount, lag>>

\* Seeded fault: the local windowStart, now - REPLAY_WINDOW_MS, is what is stored.
CutoffStored(h) == ReplayWindow

\* windowStart is the "now" with which the request arrived.
StampAge(h) == lag[h]

\* The update or create.
Stamp(h) ==
  /\ pc[h] = "stamping"
  /\ pc' = [pc EXCEPT ![h] = "stamped"]
  /\ \E i \in RowIds :
       /\ IF target[h] = NoRow THEN Created(i, stamps) ELSE i = target[h]
       /\ stamps' = [stamps EXCEPT ![i] = StampAge(h)]
  /\ target' = [target EXCEPT ![h] = NoRow]
  /\ UNCHANGED <<counter, echoes, rows, plan, newCount, lag>>

-----------------------------------------------------------------------------
(* The counter.                                                             *)

\* Seeded fault: a window never ends.
NeverExpired(row) == FALSE

WindowExpired(row) == row.age >= Window

Refused(row) == row.block > 0 \/ (~WindowExpired(row) /\ row.count >= Limit)

\* checkIpRateLimit, checkWalletRateLimit: refused with 429, or not.
Check(h) ==
  /\ pc[h] \in {"stamped", "echoed"}
  /\ \E i \in RowIds \cup {NoRow} :
       /\ Found(i, rows)
       /\ IF i # NoRow /\ Refused(rows[i])
            THEN /\ pc' = [pc EXCEPT ![h] = "idle"]
                 /\ echoes' = echoes \ {h}
            ELSE /\ pc' = [pc EXCEPT ![h] = "checked"]
                 /\ UNCHANGED echoes
  /\ lag' = [lag EXCEPT ![h] = 0]
  /\ UNCHANGED <<counter, stamps, rows, plan, target, newCount>>

\* Seeded fault: the block comes one request late.
BlocksAfter(n) == n > Limit

\* Auto-block when the limit is reached.
Blocks(n) == n >= Limit

\* incrementIpRequestCount, incrementWalletRequestCount: the row is read and
\* what will be written is decided.
Read(h) ==
  /\ pc[h] = "checked"
  /\ pc' = [pc EXCEPT ![h] = "writing"]
  /\ lag' = [lag EXCEPT ![h] = 0]
  /\ \E i \in RowIds \cup {NoRow} :
       /\ Found(i, rows)
       /\ target' = [target EXCEPT ![h] = i]
       /\ IF i = NoRow \/ WindowExpired(rows[i])
            THEN /\ plan' = [plan EXCEPT ![h] = IF i = NoRow THEN "create" ELSE "reset"]
                 /\ newCount' = [newCount EXCEPT ![h] = 1]
            ELSE /\ newCount' = [newCount EXCEPT ![h] = Capped(rows[i].count + 1)]
                 /\ plan' = [plan EXCEPT ![h] =
                               IF Blocks(rows[i].count + 1) THEN "block" ELSE "count"]
  /\ UNCHANGED <<counter, echoes, stamps, rows>>

\* blockedUntil counts from the moment the write was decided on.
BlockLeft(h) == IF lag[h] < BlockDuration THEN BlockDuration - lag[h] ELSE 0

\* The row as the update leaves it; windowStart is the "now" of the request.
Updated(h, row) ==
  CASE plan[h] \in {"create", "reset"} ->
         [count |-> newCount[h], age |-> lag[h], block |-> Null]
    [] plan[h] = "count" -> [row EXCEPT !.count = newCount[h]]
    [] plan[h] = "block" ->
         [row EXCEPT !.count = newCount[h], !.block = BlockLeft(h)]

\* The update or create; the request goes on to its handler, unless it has been
\* refused as a duplicate.
Write(h) ==
  /\ pc[h] = "writing"
  /\ \E i \in RowIds :
       /\ IF plan[h] = "create" THEN Created(i, rows) ELSE i = target[h]
       /\ rows' = [rows EXCEPT ![i] = Updated(h, @)]
  /\ pc' = [pc EXCEPT ![h] = "idle"]
  /\ plan' = [plan EXCEPT ![h] = "none"]
  /\ target' = [target EXCEPT ![h] = NoRow]
  /\ newCount' = [newCount EXCEPT ![h] = 0]
  /\ lag' = [lag EXCEPT ![h] = 0]
  /\ echoes' = echoes \ {h}
  /\ UNCHANGED <<counter, stamps>>

Older(row) ==
  [row EXCEPT !.age = IF @ < Window THEN @ + 1 ELSE @,
              !.block = IF @ > 0 THEN @ - 1 ELSE @]

InHook(h) == pc[h] \in {"screened", "stamping"}

\* No comparison asks for more; where no "now" is kept, none is needed.
LagLimit(h) ==
  CASE InHook(h) \/ pc[h] = "stamped" -> ReplayWindow
    [] pc[h] = "writing" /\ plan[h] \in {"create", "reset"} -> Window
    [] pc[h] = "writing" /\ plan[h] = "block" -> BlockDuration
    [] OTHER -> 0

Tick ==
  /\ stamps' = [i \in RowIds |->
                   IF i \in Fresh THEN stamps[i] + 1 ELSE stamps[i]]
  /\ rows' = [i \in RowIds |-> IF rows[i] = NoRow THEN NoRow ELSE Older(rows[i])]
  /\ lag' = [h \in Handlers |->
               IF lag[h] < LagLimit(h) THEN lag[h] + 1 ELSE lag[h]]
  /\ UNCHANGED <<counter, echoes, pc, plan, target, newCount>>

\* A request comes to its handler.
LetThrough(h) == Write(h) /\ h \notin echoes

Handler(h) == Screen(h) \/ Recall(h) \/ Stamp(h) \/ Check(h) \/ Read(h) \/ Write(h)

Next == (\E h \in Handlers : Handler(h)) \/ Tick

Spec == Init /\ [][Next]_vars

\* Time passes, and the client keeps asking: of its requests one or another goes
\* on, whatever becomes of the rest.
FairSpec == Spec /\ WF_vars(Tick) /\ WF_vars(\E h \in Handlers : Handler(h))
-----------------------------------------------------------------------------
\* A counter at its limit always carries a block, also after requests that
\* read the row earlier have written over it: the count and the block are one
\* write, and a smaller count never takes the block along.  (With a limit of 1
\* the first request fills the counter without a block.)
FullIsBlocked ==
  \A i \in Existing(rows) : Limit > 1 /\ rows[i].count >= Limit => rows[i].block # Null

\* The invariant of the counter and of the rows the hooks are at work on.
CounterInv == TypeOK /\ FullIsBlocked

\* A client that keeps asking is always let in again, whatever duplicate rows
\* there are and whatever it did before, as long as in the end its duplicates no
\* longer count: from then on no refusal prolongs a wait, and blocks and
\* windows end.  The wallet's counter counts no duplicates, so there it holds of
\* every client; of the IP address's, of one that leaves the replay window between
\* its requests.  (Without the condition it is false: duplicates fill the window
\* as soon as it begins anew, and those that are none find it full.)
ClientsAreServed == <>[](echoes = {}) => []<><<\E h \in Handlers : LetThrough(h)>>_vars

\* As long as no two requests are in the replay hook together: a request that
\* arrives within the window of one that was let through is refused, also while
\* that one is under way.  Two that arrived within the last window never wait for
\* the counter together.
OneInHook == Cardinality({h \in Handlers : InHook(h)}) <= 1

OnePassed == Cardinality({h \in Handlers : pc[h] = "stamped" /\ lag[h] < ReplayWindow}) <= 1

EchoesAreRefused == []OneInHook => []OnePassed
=============================================================================
