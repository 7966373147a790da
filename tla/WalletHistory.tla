--------------------------- MODULE WalletHistory ---------------------------
(***************************************************************************)
(* GET /wallets/:address/history, page by page (wallet.service.js).  A     *)
(* client walks through a wallet's requests with the cursor of the page    *)
(* before, while requests of this wallet and of others are inserted.       *)
(***************************************************************************)
EXTENDS Integers, FiniteSets

CONSTANTS
  Ids,       \* ids of requests: random, so in no relation to their times
  Own,       \* those of the wallet the client asks about
  Times,     \* requestedAt
  PageSizes, \* values of ?limit=, which may differ from page to page
  None

ASSUME IdAssumption == IsFiniteSet(Ids) /\ Ids \subseteq Nat /\ Own \subseteq Ids
ASSUME TimeAssumption == Times \subseteq Nat
ASSUME PageAssumption == PageSizes \subseteq Nat \ {0}
ASSUME NoneAssumption == None \notin Ids /\ None \notin Times

VARIABLES
  requestedAt, \* the rows
  walk,        \* idle, asked (the cursor was looked up), waiting, done
  boundary,    \* the row the page under way begins after
  cursor,      \* as returned with the last page
  page,        \* the last page
  shown,       \* history: what the walk has returned
  base         \* history: what there was to return when it began

vars == <<requestedAt, walk, boundary, cursor, page, shown, base>>

Exists(r) == requestedAt[r] # None

\* A cursor names an existing row.
TypeOK ==
  /\ requestedAt \in [Ids -> Times \cup {None}]
  /\ walk \in {"idle", "asked", "waiting", "done"}
  /\ boundary \in Ids \cup {None} /\ (boundary # None => Exists(boundary))
  /\ cursor \in Own \cup {None} /\ (cursor # None => Exists(cursor))
  /\ page \subseteq Own /\ shown \subseteq Own /\ base \subseteq Own

Init ==
  /\ requestedAt \in [Ids -> Times \cup {None}]
  /\ walk = "idle" /\ boundary = None /\ cursor = None
  /\ page = {} /\ shown = {} /\ base = {}

\* A submission.  Its time is taken before the row is visible and by the clock
\* of its own server, so the new row need not be the newest.
Insert(r, t) ==
  /\ ~Exists(r)
  /\ requestedAt' = [requestedAt EXCEPT ![r] = t]
  /\ UNCHANGED <<walk, boundary, cursor, page, shown, base>>

\* ORDER BY requestedAt DESC, id DESC
Newer(a, b) ==
  \/ requestedAt[a] > requestedAt[b]
  \/ requestedAt[a] = requestedAt[b] /\ a > b

\* Seeded fault: rows of the cursor's own moment are taken to be behind it.
OlderInTime(b, r) == requestedAt[r] < requestedAt[b]

\* Seeded fault: the row of the cursor is repeated.
NotNewer(b, r) == ~Newer(r, b)

Older(b, r) == Newer(b, r)

\* WHERE walletId = ... AND (older than the row of the cursor, if it was found)
After(b) == {r \in Own : Exists(r) /\ (b # None => Older(b, r))}

\* Seeded fault: the id is used whether or not it has a row.
RowOfAny(c) == c

\* An id without a row finds nothing, and is ignored.
RowOf(c) == IF c # None /\ Exists(c) THEN c ELSE None

\* The first page: without a cursor, or with whatever id the client has, which
\* may be that of another wallet's request.
Begin(c) ==
  /\ walk # "asked"
  /\ walk' = "asked" /\ boundary' = RowOf(c)
  /\ shown' = {} /\ base' = After(RowOf(c))
  /\ UNCHANGED <<requestedAt, cursor, page>>

\* The next page.
AskNext ==
  /\ walk = "waiting"
  /\ walk' = "asked" /\ boundary' = RowOf(cursor)
  /\ UNCHANGED <<requestedAt, cursor, page, shown, base>>

\* The first n rows in the order of the query.
Newest(S, n) == {r \in S : Cardinality({q \in S : Newer(q, r)}) < n}

\* One row more than the page holds is fetched to see whether there is another
\* page; the last row of this one is its cursor.
Answer(limit) ==
  /\ walk = "asked"
  /\ page' = Newest(After(boundary), limit)
  /\ shown' = shown \cup page'
  /\ IF Cardinality(After(boundary)) > limit
       THEN /\ walk' = "waiting"
            /\ cursor' \in {c \in page' : \A r \in page' : r = c \/ Newer(r, c)}
       ELSE walk' = "done" /\ cursor' = None
  /\ boundary' = None
  /\ UNCHANGED <<requestedAt, base>>

Next ==
  \/ \E r \in Ids, t \in Times : Insert(r, t)
  \/ \E c \in Ids \cup {None} : Begin(c)
  \/ AskNext
  \/ \E limit \in PageSizes : Answer(limit)

Spec == Init /\ [][Next]_vars

-----------------------------------------------------------------------------
\* No row is returned twice, and every page is older than the ones before it,
\* whatever is inserted between two pages and whatever limits are asked for.
\* .kiro/specs/sponsorship-platform-mvp/design.md:456
PagesDescend ==
  [][walk = "asked" /\ walk' # "asked" => \A r \in shown, q \in page' : Newer(r, q)]_vars

\* A walk that has come to its end has returned every row there was when it
\* began: rows of the same moment and rows inserted meanwhile make no gap.
NothingIsSkipped == walk = "done" => base \subseteq shown

\* The inductive invariant: the row where the walk stands separates what was
\* returned from what is still to come.
Separates(b) ==
  /\ \A r \in shown : Exists(r) /\ (b # None => r = b \/ Newer(r, b))
  /\ \A r \in base : Exists(r) /\ (r \in shown \/ b = None \/ Older(b, r))

WalkInv ==
  /\ walk = "asked"   => Separates(boundary) /\ (boundary = None => shown = {})
  /\ walk = "waiting" => cursor # None /\ Separates(cursor)
  /\ NothingIsSkipped

\* The invariant of the walk (getHistoryByWalletAddress, the history page).
HistoryInv == TypeOK /\ WalkInv
=============================================================================
