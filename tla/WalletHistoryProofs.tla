------------------------ MODULE WalletHistoryProofs ------------------------
(***************************************************************************)
(* The pages of a walk are complete and never repeat a row, for every set  *)
(* of requests, every sequence of limits and any insertions meanwhile.     *)
(***************************************************************************)
EXTENDS WalletHistory, FiniteSetTheorems, TLAPS

\* The order of the query is a strict total order of the rows there are.
LEMMA OrderIsTotal ==
  ASSUME TypeOK, NEW a \in Ids, NEW b \in Ids, NEW c \in Ids,
         Exists(a), Exists(b), Exists(c)
  PROVE  /\ ~Newer(a, a)
         /\ a = b \/ Newer(a, b) \/ Newer(b, a)
         /\ Newer(a, b) /\ Newer(b, c) => Newer(a, c)
<1>1. requestedAt[a] \in Nat /\ requestedAt[b] \in Nat /\ requestedAt[c] \in Nat
  BY TimeAssumption DEF TypeOK, Exists
<1>2. a \in Nat /\ b \in Nat /\ c \in Nat
  BY IdAssumption
<1> QED
  BY <1>1, <1>2, SMT DEF Newer

\* What is fetched for a page is of the wallet and is there.
LEMMA AfterIsOwn ==
  ASSUME NEW b
  PROVE  /\ After(b) \subseteq Own /\ After(b) \subseteq Ids
         /\ \A r \in After(b) : Exists(r)
         /\ IsFiniteSet(After(b))
<1>1. After(b) \subseteq Ids
  BY IdAssumption DEF After
<1>2. IsFiniteSet(After(b))
  BY <1>1, IdAssumption, FS_Subset
<1> QED
  BY <1>1, <1>2 DEF After

\* Every row that does not fit on a page is older than all that do.
LEMMA PageIsNewest ==
  ASSUME TypeOK, NEW S \in SUBSET Ids, \A r \in S : Exists(r), IsFiniteSet(S),
         NEW n \in Nat,
         NEW p \in Newest(S, n), NEW r \in S, r \notin Newest(S, n)
  PROVE  Newer(p, r)
<1> DEFINE above(x) == {q \in S : Newer(q, x)}
<1>1. p \in S /\ Cardinality(above(p)) < n
  BY DEF Newest
<1>2. ~(Cardinality(above(r)) < n)
  BY DEF Newest
<1>3. p # r
  BY <1>1, <1>2
<1>4. ASSUME Newer(r, p)
      PROVE  FALSE
  <2>1. ASSUME NEW q \in S, Newer(q, r)
        PROVE  Newer(q, p)
    BY <1>1, <1>4, <2>1, OrderIsTotal
  <2>2. above(r) \subseteq above(p)
    BY <2>1
  <2>3. above(p) \subseteq S
    OBVIOUS
  <2>4. IsFiniteSet(above(p))
    BY <2>3, FS_Subset
  <2>5. IsFiniteSet(above(r)) /\ Cardinality(above(r)) <= Cardinality(above(p))
    BY <2>2, <2>4, FS_Subset
  <2>6. Cardinality(above(p)) \in Nat /\ Cardinality(above(r)) \in Nat
    BY <2>4, <2>5, FS_CardinalityType
  <2> HIDE DEF above
  <2> QED
    BY <1>1, <1>2, <2>5, <2>6
<1> QED
  BY <1>1, <1>3, <1>4, OrderIsTotal

\* If all rows fit on the page, all are on it.
LEMMA LastPageIsAll ==
  ASSUME TypeOK, NEW S \in SUBSET Ids, \A r \in S : Exists(r), IsFiniteSet(S),
         NEW n \in Nat, ~(Cardinality(S) > n)
  PROVE  Newest(S, n) = S
<1> DEFINE above(x) == {q \in S : Newer(q, x)}
<1>1. ASSUME NEW r \in S
      PROVE  Cardinality(above(r)) < n
  <2>1. above(r) \subseteq S
    OBVIOUS
  <2>2. r \notin above(r)
    BY OrderIsTotal
  <2>3. above(r) # S
    BY <2>2
  <2>4. /\ IsFiniteSet(above(r)) /\ Cardinality(above(r)) <= Cardinality(S)
        /\ Cardinality(above(r)) # Cardinality(S)
    BY <2>1, <2>3, FS_Subset
  <2>5. Cardinality(S) \in Nat /\ Cardinality(above(r)) \in Nat
    BY <2>4, FS_CardinalityType
  <2> HIDE DEF above
  <2> QED
    BY <2>4, <2>5
<1> QED
  BY <1>1 DEF Newest

-----------------------------------------------------------------------------
LEMMA InvInit == Init => HistoryInv
BY DEF Init, HistoryInv, TypeOK, WalkInv, NothingIsSkipped

\* A new row moves no other, so the walk stands where it stood.
LEMMA InsertKeeps ==
  ASSUME HistoryInv, NEW r \in Ids, NEW t \in Times, Insert(r, t)
  PROVE  HistoryInv'
<1> USE DEF HistoryInv
<1>1. /\ requestedAt' \in [Ids -> Times \cup {None}]
      /\ \A q \in Ids : Exists(q) => Exists(q)' /\ requestedAt'[q] = requestedAt[q]
  BY NoneAssumption DEF TypeOK, Insert, Exists
<1>2. \A b \in Ids : Exists(b) /\ Separates(b) => Separates(b)'
  <2> SUFFICES ASSUME NEW b \in Ids, Exists(b), Separates(b)
               PROVE  Separates(b)'
    OBVIOUS
  <2>1. shown \subseteq Ids /\ base \subseteq Ids /\ UNCHANGED <<shown, base>>
    BY IdAssumption DEF TypeOK, Insert
  <2>2. /\ \A q \in shown : Exists(q) /\ (b # None => q = b \/ Newer(q, b))
        /\ \A q \in base : Exists(q) /\ (q \in shown \/ b = None \/ Older(b, q))
    BY DEF Separates
  <2>3. \A q \in Ids : Exists(q) =>
          /\ Exists(q)'
          /\ Newer(q, b) => Newer(q, b)'
          /\ Older(b, q) => Older(b, q)'
    BY <1>1 DEF Newer, Older
  <2>4. \A q \in shown' : Exists(q)' /\ (b # None => q = b \/ Newer(q, b)')
    BY <2>1, <2>2, <2>3
  <2>5. \A q \in base' : Exists(q)' /\ (q \in shown' \/ b = None \/ Older(b, q)')
    BY <2>1, <2>2, <2>3
  <2> QED
    BY <2>4, <2>5 DEF Separates
<1>3. Separates(None) => Separates(None)'
  <2>1. shown \subseteq Ids /\ base \subseteq Ids /\ UNCHANGED <<shown, base>>
    BY IdAssumption DEF TypeOK, Insert
  <2> QED
    BY <1>1, <2>1 DEF Separates
<1>4. TypeOK'
  BY <1>1, IdAssumption DEF TypeOK, Insert
<1>5. WalkInv'
  BY <1>2, <1>3, IdAssumption DEF WalkInv, NothingIsSkipped, Insert, TypeOK
<1> QED
  BY <1>4, <1>5

LEMMA BeginKeeps ==
  ASSUME HistoryInv, NEW c \in Ids \cup {None}, Begin(c)
  PROVE  HistoryInv'
<1>1. PICK b \in Ids \cup {None} : b = RowOf(c) /\ (b # None => Exists(b))
  BY DEF RowOf
<1>2. /\ walk' = "asked" /\ boundary' = b /\ shown' = {} /\ base' = After(b)
      /\ UNCHANGED <<requestedAt, cursor, page>>
  BY <1>1 DEF Begin
<1>3. TypeOK'
  BY <1>1, <1>2, AfterIsOwn DEF HistoryInv, TypeOK, Exists
<1>4. Separates(boundary)'
  BY <1>2 DEF Separates, After, Exists, Older, Newer
<1>5. WalkInv'
  BY <1>2, <1>4 DEF WalkInv, NothingIsSkipped
<1> QED
  BY <1>3, <1>5 DEF HistoryInv

LEMMA AskNextKeeps ==
  ASSUME HistoryInv, AskNext
  PROVE  HistoryInv'
<1>1. RowOf(cursor) = cursor /\ cursor # None
  BY DEF RowOf, AskNext, HistoryInv, TypeOK, WalkInv
<1>2. TypeOK'
  BY <1>1, IdAssumption DEF AskNext, HistoryInv, TypeOK, Exists
<1>3. WalkInv'
  BY <1>1 DEF AskNext, HistoryInv, WalkInv, NothingIsSkipped, Separates, Exists, Older, Newer
<1> QED
  BY <1>2, <1>3 DEF HistoryInv

\* What a page adds to the walk is older than what it has returned.
LEMMA PageIsOlder ==
  ASSUME HistoryInv, NEW limit \in PageSizes, Answer(limit)
  PROVE  /\ page' \subseteq After(boundary)
         /\ \A r \in shown, q \in page' : Newer(r, q)
<1>1. page' \subseteq After(boundary)
  BY DEF Answer, Newest
<1>2. ASSUME NEW r \in shown, NEW q \in page'
      PROVE  Newer(r, q)
  <2>1. /\ boundary # None /\ boundary \in Ids /\ Exists(boundary)
        /\ Exists(r) /\ r \in Ids /\ (r = boundary \/ Newer(r, boundary))
    BY IdAssumption DEF Answer, HistoryInv, TypeOK, WalkInv, Separates
  <2>2. q \in Ids /\ Exists(q) /\ Newer(boundary, q)
    BY <1>1, <2>1, AfterIsOwn DEF After, Older
  <2> QED
    BY <2>1, <2>2, OrderIsTotal DEF HistoryInv
<1> QED
  BY <1>1, <1>2

LEMMA AnswerKeeps ==
  ASSUME HistoryInv, NEW limit \in PageSizes, Answer(limit)
  PROVE  HistoryInv'
<1> DEFINE S == After(boundary)
<1>1. /\ S \subseteq Own /\ S \in SUBSET Ids /\ IsFiniteSet(S)
      /\ \A r \in S : Exists(r)
  BY AfterIsOwn
<1>2. /\ walk = "asked" /\ Separates(boundary) /\ TypeOK
      /\ (boundary = None => shown = {}) /\ limit \in Nat
      /\ shown \subseteq Ids /\ base \subseteq Own
  BY PageAssumption, IdAssumption DEF Answer, HistoryInv, WalkInv, TypeOK
<1>3. /\ page' = Newest(S, limit) /\ page' \subseteq S
      /\ shown' = shown \cup page' /\ boundary' = None
      /\ UNCHANGED <<requestedAt, base>>
  BY DEF Answer, Newest
<1>4. \A r \in base : r \in shown \/ r \in S
  BY <1>2 DEF Separates, After
<1>5. \A r \in shown' : Exists(r)
  BY <1>1, <1>2, <1>3 DEF Separates
<1>6. \A r \in base : Exists(r)
  BY <1>2 DEF Separates
<1>7. CASE Cardinality(S) > limit
  <2>1. PICK c \in page' :
          /\ walk' = "waiting" /\ cursor' = c
          /\ \A r \in page' : r = c \/ Newer(r, c)
    BY <1>7 DEF Answer
  <2>2. c \in Own /\ c \in Ids /\ c # None /\ Exists(c) /\ c \in Newest(S, limit)
    BY <1>1, <1>3, <2>1, NoneAssumption
  <2>3. \A r \in shown' : r = c \/ Newer(r, c)
    BY <1>3, <2>1, PageIsOlder
  <2>4. ASSUME NEW r \in base, r \notin shown'
        PROVE  Older(c, r)
    <3>1. r \in S /\ r \notin Newest(S, limit)
      BY <1>3, <1>4, <2>4
    <3> HIDE DEF S
    <3> QED
      BY <1>1, <1>2, <2>2, <3>1, PageIsNewest DEF Older
  <2>5. Separates(cursor)'
    BY <1>3, <1>5, <1>6, <2>1, <2>3, <2>4 DEF Separates, Exists, Older, Newer
  <2>6. TypeOK'
    BY <1>1, <1>2, <1>3, <2>1, <2>2 DEF TypeOK, Exists
  <2> QED
    BY <2>1, <2>2, <2>5, <2>6 DEF HistoryInv, WalkInv, NothingIsSkipped
<1>8. CASE ~(Cardinality(S) > limit)
  <2>1. walk' = "done" /\ cursor' = None
    BY <1>8 DEF Answer
  <2>2. Newest(S, limit) = S
    BY <1>1, <1>2, <1>8, LastPageIsAll
  <2>3. base' \subseteq shown'
    BY <1>3, <1>4, <2>2
  <2>4. TypeOK'
    BY <1>1, <1>2, <1>3, <2>1 DEF TypeOK, Exists
  <2> QED
    BY <2>1, <2>3, <2>4 DEF HistoryInv, WalkInv, NothingIsSkipped
<1> QED
  BY <1>7, <1>8

LEMMA InvNext == HistoryInv /\ [Next]_vars => HistoryInv'
<1> SUFFICES ASSUME HistoryInv, [Next]_vars
             PROVE  HistoryInv'
  OBVIOUS
<1>1. CASE UNCHANGED vars
  BY <1>1 DEF vars, HistoryInv, TypeOK, WalkInv, NothingIsSkipped, Separates,
              Exists, Older, Newer
<1>2. CASE Next
  BY <1>2, InsertKeeps, BeginKeeps, AskNextKeeps, AnswerKeeps DEF Next
<1> QED
  BY <1>1, <1>2

-----------------------------------------------------------------------------
\* The inductive invariant holds of every behaviour.
THEOREM HistoryInvariant == Spec => []HistoryInv
BY InvInit, InvNext, PTL DEF Spec

\* A walk that has ended has returned every row there was when it began.
THEOREM WalkIsComplete == Spec => []NothingIsSkipped
<1>1. HistoryInv => NothingIsSkipped
  BY DEF HistoryInv, WalkInv
<1> QED
  BY <1>1, HistoryInvariant, PTL

\* Every page of a walk is older than the ones before it, so none is repeated.
THEOREM PagesNeverRepeat == Spec => PagesDescend
<1>1. HistoryInv /\ [Next]_vars =>
        [walk = "asked" /\ walk' # "asked" => \A r \in shown, q \in page' : Newer(r, q)]_vars
  <2> SUFFICES ASSUME HistoryInv, Next, walk = "asked", walk' # "asked"
               PROVE  \A r \in shown, q \in page' : Newer(r, q)
    BY DEF vars
  <2>1. PICK limit \in PageSizes : Answer(limit)
    BY DEF Next, Insert, Begin, AskNext
  <2> QED
    BY <2>1, PageIsOlder
<1> QED
  BY <1>1, HistoryInvariant, PTL DEF Spec, PagesDescend
=============================================================================
