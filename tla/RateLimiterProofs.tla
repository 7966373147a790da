------------------------- MODULE RateLimiterProofs -------------------------
(***************************************************************************)
(* Proofs about RateLimiter: what is left of the limit when any number of  *)
(* requests race for any number of rows.                                   *)
(***************************************************************************)
EXTENDS RateLimiter, FiniteSetTheorems, TLAPS

\* A request that waits for its write: what it will write is fit for the row it
\* has read, whatever others have made of that row meanwhile.
WritesAreFit == \A h \in Handlers : pc[h] = "writing" =>
  /\ plan[h] # "none"
  /\ plan[h] \in {"create", "reset"} => newCount[h] = 1 /\ lag[h] <= Window
  /\ plan[h] = "count" => newCount[h] < Limit
  /\ plan[h] # "create" => target[h] \in RowIds /\ rows[target[h]] \in Rows

\* The "now" that replay protection stores is no older than its window.
StampsAreYoung == \A h \in Handlers : InHook(h) => lag[h] <= ReplayWindow

\* The inductive invariant.
Inv == CounterInv /\ WritesAreFit /\ StampsAreYoung

-----------------------------------------------------------------------------
\* A row that is there is a row.
LEMMA ExistingRows == TypeOK => \A i \in Existing(rows) : i \in RowIds /\ rows[i] \in Rows
BY DEF TypeOK, Existing

\* What a write leaves is a row, and one that is full carries a block
\* (incrementIpRequestCount, incrementWalletRequestCount).
LEMMA UpdatedIsSound ==
  ASSUME Inv, NEW h \in Handlers, pc[h] = "writing", NEW row,
         plan[h] # "create" => row \in Rows
  PROVE  /\ Updated(h, row) \in Rows
         /\ Limit > 1 /\ Updated(h, row).count >= Limit => Updated(h, row).block # Null
<1> DEFINE new == Updated(h, row)
<1>1. /\ lag[h] \in Nat /\ newCount[h] \in Nat
      /\ plan[h] \in {"create", "reset", "count", "block"}
  BY DEF Inv, CounterInv, TypeOK, WritesAreFit
<1>2. BlockLeft(h) \in 0..BlockDuration
  BY <1>1, LimitAssumption DEF BlockLeft
<1>3. CASE plan[h] \in {"create", "reset"}
  <2>1. new = [count |-> newCount[h], age |-> lag[h], block |-> Null]
       /\ newCount[h] = 1 /\ lag[h] <= Window
    BY <1>3 DEF Updated, Inv, WritesAreFit
  <2> QED BY <1>1, <2>1, LimitAssumption DEF Rows, Null
<1>4. CASE plan[h] = "count"
  <2>1. new = [row EXCEPT !.count = newCount[h]] /\ newCount[h] < Limit
    BY <1>4 DEF Updated, Inv, WritesAreFit
  <2>2. row \in Rows
    BY <1>4
  <2>3. new \in Rows /\ new.count = newCount[h]
    BY <1>1, <2>1, <2>2 DEF Rows
  <2> QED BY <1>1, <2>1, <2>3, LimitAssumption
<1>5. CASE plan[h] = "block"
  <2>1. new = [row EXCEPT !.count = newCount[h], !.block = BlockLeft(h)]
    BY <1>5 DEF Updated
  <2>2. row \in Rows
    BY <1>5
  <2>3. new \in Rows /\ new.block = BlockLeft(h)
    BY <1>1, <1>2, <2>1, <2>2 DEF Rows
  <2> QED BY <1>2, <2>3 DEF Null
<1> QED BY <1>1, <1>3, <1>4, <1>5

\* Time makes a row of a row, keeps its count, and no block null.
LEMMA OlderIsSound ==
  ASSUME NEW row \in Rows
  PROVE  /\ Older(row) \in Rows /\ Older(row).count = row.count
         /\ row.block # Null => Older(row).block # Null
<1>1. /\ row.count \in Nat /\ row.age \in 0..Window
      /\ row.block \in {Null} \cup 0..BlockDuration
  BY DEF Rows
<1> DEFINE age == IF row.age < Window THEN row.age + 1 ELSE row.age
<1> DEFINE block == IF row.block > 0 THEN row.block - 1 ELSE row.block
<1>2. Older(row) = [count |-> row.count, age |-> age, block |-> block]
  <2>1. row = [count |-> row.count, age |-> row.age, block |-> row.block]
    BY DEF Rows
  <2>2. Older(row) = [row EXCEPT !.age = age, !.block = block]
    BY DEF Older
  <2> HIDE DEF age, block
  <2> QED BY <2>1, <2>2
<1>3. age \in 0..Window /\ block \in {Null} \cup 0..BlockDuration
  BY <1>1, LimitAssumption DEF Null
<1>4. row.block # Null => block # Null
  BY <1>1 DEF Null
<1> HIDE DEF age, block
<1> QED BY <1>1, <1>2, <1>3, <1>4 DEF Rows

-----------------------------------------------------------------------------
\* A step in front of the counter's write leaves the rows as they are.
LEMMA ScreenStep ==
  ASSUME Inv, NEW h \in Handlers, Screen(h) \/ Recall(h)  PROVE Inv'
<1>1. CASE Screen(h)
  <2>1. /\ stamps' \in [RowIds -> 0..ReplayWindow \cup {NoRow}]
        /\ pc' \in [Handlers -> Stages] /\ pc'[h] \in {"idle", "echoed", "screened"}
        /\ \A g \in Handlers \ {h} : pc'[g] = pc[g]
        /\ echoes' \subseteq Handlers /\ counter' = counter
        /\ lag' \in [Handlers -> Nat] /\ \A g \in Handlers \ {h} : lag'[g] = lag[g]
        /\ pc'[h] = "screened" => lag'[h] = 0
        /\ UNCHANGED <<rows, plan, target, newCount>>
    <3>1. CASE Duplicate(h)
      BY <1>1, <3>1 DEF Screen, Duplicate, AfterDuplicate, Inv, CounterInv, TypeOK, Stages
    <3>2. CASE NoDuplicate(h)
      BY <1>1, <3>2 DEF Screen, NoDuplicate, Inv, CounterInv, TypeOK, Stages
    <3> QED BY <1>1, <3>1, <3>2 DEF Screen
  <2>2. TypeOK'
    BY <2>1 DEF Inv, CounterInv, TypeOK
  <2>3. FullIsBlocked'
    BY <2>1 DEF Inv, CounterInv, FullIsBlocked, Existing
  <2>4. WritesAreFit'
    BY <2>1 DEF Inv, WritesAreFit
  <2>5. StampsAreYoung'
    BY <2>1, LimitAssumption DEF Inv, StampsAreYoung, InHook
  <2> QED BY <2>2, <2>3, <2>4, <2>5 DEF Inv, CounterInv
<1>2. CASE Recall(h)
  <2>1. TypeOK'
    BY <1>2 DEF Recall, Inv, CounterInv, TypeOK, Stages
  <2>2. FullIsBlocked'
    BY <1>2 DEF Recall, Inv, CounterInv, FullIsBlocked, Existing
  <2>3. WritesAreFit'
    BY <1>2 DEF Recall, Inv, CounterInv, TypeOK, WritesAreFit
  <2>4. StampsAreYoung'
    BY <1>2 DEF Recall, Inv, CounterInv, TypeOK, StampsAreYoung, InHook
  <2> QED BY <2>1, <2>2, <2>3, <2>4 DEF Inv, CounterInv
<1> QED BY <1>1, <1>2

LEMMA StampStep ==
  ASSUME Inv, NEW h \in Handlers, Stamp(h)  PROVE Inv'
<1>1. lag[h] \in 0..ReplayWindow
  BY LimitAssumption DEF Stamp, Inv, CounterInv, TypeOK, StampsAreYoung, InHook
<1>2. TypeOK'
  BY <1>1 DEF Stamp, StampAge, Inv, CounterInv, TypeOK, Stages
<1>3. FullIsBlocked'
  BY DEF Stamp, Inv, CounterInv, FullIsBlocked, Existing
<1>4. WritesAreFit'
  BY DEF Stamp, Inv, CounterInv, TypeOK, WritesAreFit
<1>5. StampsAreYoung'
  BY DEF Stamp, Inv, CounterInv, TypeOK, StampsAreYoung, InHook
<1> QED BY <1>2, <1>3, <1>4, <1>5 DEF Inv, CounterInv

LEMMA CheckStep ==
  ASSUME Inv, NEW h \in Handlers, Check(h)  PROVE Inv'
<1>1. /\ pc' \in [Handlers -> Stages] /\ echoes' \subseteq Handlers
      /\ pc'[h] \in {"idle", "checked"} /\ \A g \in Handlers \ {h} : pc'[g] = pc[g]
  BY DEF Check, Inv, CounterInv, TypeOK, Stages
<1>2. TypeOK'
  BY <1>1, LimitAssumption DEF Check, Inv, CounterInv, TypeOK
<1>3. FullIsBlocked'
  BY DEF Check, Inv, CounterInv, FullIsBlocked, Existing
<1>4. WritesAreFit'
  BY <1>1 DEF Check, Inv, CounterInv, TypeOK, WritesAreFit
<1>5. StampsAreYoung'
  BY <1>1 DEF Check, Inv, CounterInv, TypeOK, StampsAreYoung, InHook
<1> QED BY <1>2, <1>3, <1>4, <1>5 DEF Inv, CounterInv

\* The row is read and the write decided on.
LEMMA ReadStep ==
  ASSUME Inv, NEW h \in Handlers, Read(h)  PROVE Inv'
<1>1. PICK i \in RowIds \cup {NoRow} :
        /\ Found(i, rows)
        /\ target' = [target EXCEPT ![h] = i]
        /\ IF i = NoRow \/ WindowExpired(rows[i])
             THEN /\ plan' = [plan EXCEPT ![h] = IF i = NoRow THEN "create" ELSE "reset"]
                  /\ newCount' = [newCount EXCEPT ![h] = 1]
             ELSE /\ newCount' = [newCount EXCEPT ![h] = Capped(rows[i].count + 1)]
                  /\ plan' = [plan EXCEPT ![h] =
                                IF Blocks(rows[i].count + 1) THEN "block" ELSE "count"]
  BY DEF Read
<1>2. i # NoRow => i \in RowIds /\ rows[i] \in Rows /\ rows[i].count \in Nat
  BY <1>1, ExistingRows DEF Found, Rows, Inv, CounterInv
<1>3. /\ plan'[h] \in {"create", "reset", "count", "block"} /\ newCount'[h] \in Nat
      /\ plan'[h] \in {"create", "reset"} => newCount'[h] = 1
      /\ plan'[h] = "count" => newCount'[h] < Limit
      /\ plan'[h] # "create" => i # NoRow
      /\ target'[h] = i
  BY <1>1, <1>2, LimitAssumption DEF Capped, Blocks, Inv, CounterInv, TypeOK
<1>4. /\ plan' = [plan EXCEPT ![h] = plan'[h]] /\ newCount' = [newCount EXCEPT ![h] = newCount'[h]]
  BY <1>1 DEF Inv, CounterInv, TypeOK
<1>5. /\ pc' = [pc EXCEPT ![h] = "writing"] /\ lag' = [lag EXCEPT ![h] = 0]
      /\ UNCHANGED <<counter, echoes, stamps, rows>>
  BY DEF Read
<1>6. TypeOK'
  BY <1>1, <1>3, <1>4, <1>5, LimitAssumption DEF Inv, CounterInv, TypeOK, Stages
<1>7. FullIsBlocked'
  BY <1>5 DEF Inv, CounterInv, FullIsBlocked, Existing
<1>8. WritesAreFit'
  <2> SUFFICES ASSUME NEW g \in Handlers, pc'[g] = "writing"
               PROVE  /\ plan'[g] # "none"
                      /\ plan'[g] \in {"create", "reset"} => newCount'[g] = 1 /\ lag'[g] <= Window
                      /\ plan'[g] = "count" => newCount'[g] < Limit
                      /\ plan'[g] # "create" => target'[g] \in RowIds /\ rows'[target'[g]] \in Rows
    BY DEF WritesAreFit, Rows, Null
  <2>1. CASE g = h
    <3>1. lag'[g] = 0
      BY <1>5, <2>1 DEF Inv, CounterInv, TypeOK
    <3> QED BY <1>2, <1>3, <1>5, <2>1, <3>1, LimitAssumption
  <2>2. CASE g # h
    BY <1>1, <1>4, <1>5, <2>2 DEF Inv, CounterInv, TypeOK, WritesAreFit
  <2> QED BY <2>1, <2>2
<1>9. StampsAreYoung'
  BY <1>5 DEF Inv, CounterInv, TypeOK, StampsAreYoung, InHook
<1> QED BY <1>6, <1>7, <1>8, <1>9 DEF Inv, CounterInv

\* The write.
LEMMA WriteStep ==
  ASSUME Inv, NEW h \in Handlers, Write(h)  PROVE Inv'
<1>1. PICK i \in RowIds :
        /\ IF plan[h] = "create" THEN Created(i, rows) ELSE i = target[h]
        /\ rows' = [rows EXCEPT ![i] = Updated(h, @)]
  BY DEF Write
<1>2. /\ pc[h] = "writing"
      /\ pc' = [pc EXCEPT ![h] = "idle"] /\ plan' = [plan EXCEPT ![h] = "none"]
      /\ target' = [target EXCEPT ![h] = NoRow] /\ newCount' = [newCount EXCEPT ![h] = 0]
      /\ lag' = [lag EXCEPT ![h] = 0] /\ echoes' = echoes \ {h}
      /\ UNCHANGED <<counter, stamps>>
  BY DEF Write
<1>3. plan[h] # "create" => rows[i] \in Rows
  BY <1>1, <1>2 DEF Inv, WritesAreFit
<1>4. /\ rows'[i] \in Rows
      /\ Limit > 1 /\ rows'[i].count >= Limit => rows'[i].block # Null
      /\ \A j \in RowIds \ {i} : rows'[j] = rows[j]
      /\ rows' \in [RowIds -> Rows \cup {NoRow}]
  <2>1. rows \in [RowIds -> Rows \cup {NoRow}] /\ rows'[i] = Updated(h, rows[i])
    BY <1>1 DEF Inv, CounterInv, TypeOK
  <2> QED BY <1>1, <1>2, <1>3, <2>1, UpdatedIsSound
<1>5. TypeOK'
  BY <1>2, <1>4, LimitAssumption DEF Inv, CounterInv, TypeOK, Stages
<1>6. FullIsBlocked'
  BY <1>4 DEF Inv, CounterInv, FullIsBlocked, Existing
<1>7. WritesAreFit'
  <2> SUFFICES ASSUME NEW g \in Handlers, pc'[g] = "writing"
               PROVE  /\ plan'[g] # "none"
                      /\ plan'[g] \in {"create", "reset"} => newCount'[g] = 1 /\ lag'[g] <= Window
                      /\ plan'[g] = "count" => newCount'[g] < Limit
                      /\ plan'[g] # "create" => target'[g] \in RowIds /\ rows'[target'[g]] \in Rows
    BY DEF WritesAreFit
  <2>1. g # h /\ pc[g] = "writing"
    BY <1>2 DEF Inv, CounterInv, TypeOK
  <2>2. /\ plan'[g] = plan[g] /\ newCount'[g] = newCount[g] /\ target'[g] = target[g]
        /\ lag'[g] = lag[g]
    BY <1>2, <2>1 DEF Inv, CounterInv, TypeOK
  <2> QED BY <1>4, <2>1, <2>2 DEF Inv, WritesAreFit
<1>8. StampsAreYoung'
  BY <1>2 DEF Inv, CounterInv, TypeOK, StampsAreYoung, InHook
<1> QED BY <1>5, <1>6, <1>7, <1>8 DEF Inv, CounterInv

LEMMA TickStep == Inv /\ Tick => Inv'
<1> SUFFICES ASSUME Inv, Tick PROVE Inv'
  OBVIOUS
<1>1. /\ rows' = [i \in RowIds |-> IF rows[i] = NoRow THEN NoRow ELSE Older(rows[i])]
      /\ UNCHANGED <<counter, echoes, pc, plan, target, newCount>>
  BY DEF Tick
<1>2. ASSUME NEW i \in RowIds
      PROVE  /\ rows'[i] = (IF rows[i] = NoRow THEN NoRow ELSE Older(rows[i]))
             /\ rows'[i] \in Rows \cup {NoRow}
             /\ rows[i] \in Rows => rows'[i] \in Rows
             /\ rows'[i] # NoRow => rows[i] # NoRow /\ rows[i] \in Rows
  BY <1>1, OlderIsSound DEF Inv, CounterInv, TypeOK
<1>3. stamps' \in [RowIds -> 0..ReplayWindow \cup {NoRow}]
  <2> SUFFICES ASSUME NEW i \in RowIds
               PROVE  (IF i \in Fresh THEN stamps[i] + 1 ELSE stamps[i]) \in 0..ReplayWindow \cup {NoRow}
    BY DEF Tick
  <2>1. stamps[i] \in 0..ReplayWindow \cup {NoRow}
    BY DEF Inv, CounterInv, TypeOK
  <2> QED BY <2>1, LimitAssumption DEF Fresh, Existing
<1>4. ASSUME NEW h \in Handlers
      PROVE  /\ lag'[h] \in Nat /\ (InHook(h) => lag'[h] <= ReplayWindow)
             /\ pc[h] = "writing" /\ plan[h] \in {"create", "reset"} => lag'[h] <= Window
  <2>1. /\ lag[h] \in Nat /\ (InHook(h) => lag[h] <= ReplayWindow)
        /\ pc[h] = "writing" /\ plan[h] \in {"create", "reset"} => lag[h] <= Window
    BY DEF Inv, CounterInv, TypeOK, StampsAreYoung, WritesAreFit
  <2>2. lag'[h] = IF lag[h] < LagLimit(h) THEN lag[h] + 1 ELSE lag[h]
    BY DEF Tick
  <2>3. /\ LagLimit(h) \in Nat /\ (InHook(h) => LagLimit(h) = ReplayWindow)
        /\ pc[h] = "writing" /\ plan[h] \in {"create", "reset"} => LagLimit(h) = Window
    BY LimitAssumption DEF LagLimit, InHook
  <2> QED BY <2>1, <2>2, <2>3, LimitAssumption
<1>5. TypeOK'
  <2>1. rows' \in [RowIds -> Rows \cup {NoRow}]
    BY <1>1, <1>2
  <2>2. lag' \in [Handlers -> Nat]
    BY <1>4 DEF Tick
  <2> QED BY <1>1, <1>3, <2>1, <2>2 DEF Inv, CounterInv, TypeOK
<1>6. FullIsBlocked'
  <2> SUFFICES ASSUME NEW i \in RowIds, rows'[i] # NoRow, Limit > 1, rows'[i].count >= Limit
               PROVE  rows'[i].block # Null
    BY DEF FullIsBlocked, Existing, Null
  <2>1. rows[i] \in Rows /\ rows[i] # NoRow /\ rows'[i] = Older(rows[i])
    BY <1>2
  <2>2. rows[i].count >= Limit
    BY <2>1, OlderIsSound
  <2>3. rows[i].block # Null
    BY <2>1, <2>2 DEF Inv, CounterInv, FullIsBlocked, Existing
  <2> QED BY <2>1, <2>3, OlderIsSound
<1>7. WritesAreFit'
  BY <1>1, <1>2, <1>4 DEF Inv, WritesAreFit
<1>8. StampsAreYoung'
  BY <1>1, <1>4 DEF StampsAreYoung, InHook
<1> QED BY <1>5, <1>6, <1>7, <1>8 DEF Inv, CounterInv

-----------------------------------------------------------------------------
LEMMA InvInit == Init => Inv
<1> SUFFICES ASSUME Init PROVE Inv
  OBVIOUS
<1>1. \A i \in RowIds : rows[i] = [count |-> 1, age |-> Window, block |-> Null] \/ rows[i] = NoRow
  BY DEF Init
<1>2. rows \in [RowIds -> Rows \cup {NoRow}]
  <2>1. [count |-> 1, age |-> Window, block |-> Null] \in Rows
    BY LimitAssumption DEF Rows
  <2>2. rows = [i \in RowIds |-> rows[i]]
    BY DEF Init
  <2> QED BY <1>1, <2>1, <2>2
<1>3. TypeOK
  BY <1>2, LimitAssumption DEF Init, TypeOK, Stages
<1>4. FullIsBlocked
  BY <1>1, LimitAssumption DEF FullIsBlocked, Existing
<1>5. WritesAreFit /\ StampsAreYoung
  BY LimitAssumption DEF Init, WritesAreFit, StampsAreYoung, InHook
<1> QED BY <1>3, <1>4, <1>5 DEF Inv, CounterInv

LEMMA InvStep == Inv /\ [Next]_vars => Inv'
<1> SUFFICES ASSUME Inv, [Next]_vars PROVE Inv'
  OBVIOUS
<1>1. ASSUME NEW h \in Handlers, Handler(h) PROVE Inv'
    BY <1>1, ScreenStep, StampStep, CheckStep, ReadStep, WriteStep DEF Handler
<1>2. CASE UNCHANGED vars
    BY <1>2 DEF vars, Inv, CounterInv, TypeOK, FullIsBlocked, Existing, WritesAreFit,
       StampsAreYoung, InHook
<1> QED BY <1>1, <1>2, TickStep DEF Next

LEMMA InvHolds == Spec => []Inv
BY InvInit, InvStep, PTL DEF Spec

\* A full counter carries a block, however many requests race for however many
\* rows (incrementIpRequestCount, incrementWalletRequestCount).
THEOREM CounterInvariant == Spec => []CounterInv
BY InvHolds, PTL DEF Inv

-----------------------------------------------------------------------------
(* What holds as long as requests do not meet in the same statements.        *)

\* A finite set of size one at most has no two members, and the other way round.
LEMMA AtMostOne ==
  ASSUME NEW T, IsFiniteSet(T), NEW S \in SUBSET T
  PROVE  Cardinality(S) <= 1 <=> \A g, h \in S : g = h
<1>1. IsFiniteSet(S) /\ Cardinality(S) \in Nat
  BY FS_Subset, FS_CardinalityType
<1>2. ASSUME Cardinality(S) <= 1, NEW g \in S, NEW h \in S, g # h
      PROVE  FALSE
  <2>1. {g, h} \in SUBSET S
    OBVIOUS
  <2>2. Cardinality({g}) = 1 /\ IsFiniteSet({g})
    BY FS_Singleton
  <2> DEFINE G == {g}
  <2>3. Cardinality(G \cup {h}) = 2
    <3>1. h \notin G /\ IsFiniteSet(G) /\ Cardinality(G) = 1
      BY <1>2, <2>2
    <3> HIDE DEF G
    <3>2. Cardinality(G \cup {h}) = IF h \in G THEN Cardinality(G) ELSE Cardinality(G) + 1
      BY <3>1, FS_AddElement
    <3> QED
      BY <3>1, <3>2
  <2>4. G \cup {h} = {g, h}
    OBVIOUS
  <2> QED
    BY <1>1, <1>2, <2>1, <2>3, <2>4, FS_Subset
<1>3. ASSUME \A g, h \in S : g = h
      PROVE  Cardinality(S) <= 1
  <2>1. CASE S = {}
    BY <2>1, FS_EmptySet
  <2>2. CASE S # {}
    <3>1. PICK g \in S : S = {g}
      BY <1>3, <2>2
    <3> QED
      BY <3>1, FS_Singleton
  <2> QED
    BY <2>1, <2>2
<1> QED
  BY <1>2, <1>3

\* A request that was let through within the window and waits for the counter.
Passed(h) == pc[h] = "stamped" /\ lag[h] < ReplayWindow

\* Such a request has left a stamp that is no older than its own "now", and is
\* alone: nobody came into the hook behind it.
PassedIsAlone == \A h \in Handlers : Passed(h) =>
  /\ \E i \in RowIds : stamps[i] \in Nat /\ stamps[i] <= lag[h]
  /\ \A g \in Handlers : ~InHook(g) /\ (Passed(g) => g = h)

\* While there is such a stamp, it is fresh, so the first lookup finds it.
LEMMA PassedKeepsFresh ==
  ASSUME Inv, PassedIsAlone, NEW h \in Handlers, Passed(h)
  PROVE  Fresh # {}
<1>1. PICK i \in RowIds : stamps[i] \in Nat /\ stamps[i] <= lag[h]
  BY DEF PassedIsAlone
<1>2. lag[h] \in Nat /\ lag[h] < ReplayWindow /\ ReplayWindow \in Nat
  BY LimitAssumption DEF Inv, CounterInv, TypeOK, Passed
<1> QED
  BY <1>1, <1>2, NoRowAssumption DEF Fresh, Existing

LEMMA AloneStep ==
  ASSUME Inv, PassedIsAlone, OneInHook, [Next]_vars
  PROVE  PassedIsAlone'
<1> USE DEF Inv, CounterInv, TypeOK
<1>1. ASSUME NEW h \in Handlers, Screen(h) PROVE PassedIsAlone'
  <2>1. CASE Fresh # {}
    <3>1. /\ \A i \in RowIds : stamps'[i] = stamps[i]
          /\ \A g \in Handlers : /\ pc'[g] = pc[g] \/ pc'[g] = "echoed"
                                /\ lag'[g] = lag[g]
      BY <1>1, <2>1 DEF Screen, Duplicate, NoDuplicate, AfterDuplicate
    <3>2. \A g \in Handlers : /\ InHook(g)' => InHook(g)
                              /\ Passed(g)' => Passed(g)
      BY <3>1 DEF InHook, Passed
    <3> QED
      BY <3>1, <3>2 DEF PassedIsAlone
  <2>2. CASE Fresh = {}
    <3>1. \A g \in Handlers : ~Passed(g)
      BY <2>2, PassedKeepsFresh
    <3>2. \A g \in Handlers : ~Passed(g)'
      BY <1>1, <2>2, <3>1 DEF Screen, Duplicate, NoDuplicate, Passed
    <3> QED
      BY <3>2 DEF PassedIsAlone
  <2> QED
    BY <2>1, <2>2
<1>2. ASSUME NEW h \in Handlers, Recall(h) PROVE PassedIsAlone'
  <2>1. InHook(h)
    BY <1>2 DEF Recall, InHook
  <2>2. \A g \in Handlers : ~Passed(g)
    BY <2>1 DEF PassedIsAlone
  <2>3. \A g \in Handlers : ~Passed(g)'
    BY <1>2, <2>2 DEF Recall, Passed
  <2> QED
    BY <2>3 DEF PassedIsAlone
<1>3. ASSUME NEW h \in Handlers, Stamp(h) PROVE PassedIsAlone'
  <2>1. InHook(h)
    BY <1>3 DEF Stamp, InHook
  <2>2. \A g \in Handlers \ {h} : ~InHook(g) /\ ~Passed(g)
    <3>1. \A g \in Handlers \ {h} : ~InHook(g)
      <4> DEFINE S == {g \in Handlers : InHook(g)}
      <4>1. S \in SUBSET Handlers /\ h \in S /\ Cardinality(S) <= 1
        BY <2>1 DEF OneInHook
      <4> HIDE DEF S
      <4>2. \A g \in S : g = h
        BY <4>1, AtMostOne, RowAssumption
      <4> USE DEF S
      <4> QED
        BY <4>2
    <3> QED
      BY <2>1, <3>1 DEF PassedIsAlone
  <2>3. /\ pc' = [pc EXCEPT ![h] = "stamped"] /\ lag' = lag
        /\ \E i \in RowIds : stamps' = [stamps EXCEPT ![i] = lag[h]]
    BY <1>3 DEF Stamp, StampAge
  <2>4. \A g \in Handlers \ {h} : ~InHook(g)' /\ ~Passed(g)'
    BY <2>2, <2>3 DEF InHook, Passed
  <2>5. ~InHook(h)'
    BY <2>3 DEF InHook
  <2>6. \E i \in RowIds : stamps'[i] \in Nat /\ stamps'[i] <= lag'[h]
    <3>1. PICK i \in RowIds : stamps' = [stamps EXCEPT ![i] = lag[h]]
      BY <2>3
    <3>2. stamps'[i] = lag[h] /\ lag[h] \in Nat /\ lag'[h] = lag[h]
      BY <2>3, <3>1, LimitAssumption
    <3> QED
      BY <3>2
  <2> QED
    BY <2>4, <2>5, <2>6 DEF PassedIsAlone
<1>4. ASSUME NEW h \in Handlers, Check(h) \/ Read(h) \/ Write(h) PROVE PassedIsAlone'
  <2>1. /\ pc[h] \in {"stamped", "echoed", "checked", "writing"}
        /\ pc'[h] \in {"idle", "checked", "writing"}
        /\ \A g \in Handlers \ {h} : pc'[g] = pc[g] /\ lag'[g] = lag[g]
        /\ stamps' = stamps
    BY <1>4 DEF Check, Read, Write
  <2>2. \A g \in Handlers : /\ InHook(g)' => InHook(g)
                            /\ Passed(g)' => Passed(g) /\ lag'[g] = lag[g]
    BY <2>1 DEF InHook, Passed
  <2> QED
    BY <2>1, <2>2 DEF PassedIsAlone
<1>5. CASE Tick
  <2>1. UNCHANGED pc /\ \A g \in Handlers : InHook(g)' = InHook(g)
    BY <1>5 DEF Tick, InHook
  <2>2. ASSUME NEW h \in Handlers, Passed(h)'
        PROVE  Passed(h) /\ lag'[h] = lag[h] + 1
    <3>1. /\ pc[h] = "stamped" /\ lag'[h] < ReplayWindow
          /\ lag'[h] = IF lag[h] < ReplayWindow THEN lag[h] + 1 ELSE lag[h]
      BY <1>5, <2>1, <2>2 DEF Tick, LagLimit, Passed
    <3> QED
      BY <3>1, LimitAssumption DEF Passed
  <2>3. ASSUME NEW h \in Handlers, Passed(h)'
        PROVE  \E i \in RowIds : stamps'[i] \in Nat /\ stamps'[i] <= lag'[h]
    <3>1. PICK i \in RowIds : stamps[i] \in Nat /\ stamps[i] <= lag[h]
      BY <2>2, <2>3 DEF PassedIsAlone
    <3>2. stamps'[i] = IF i \in Fresh THEN stamps[i] + 1 ELSE stamps[i]
      BY <1>5 DEF Tick
    <3>3. lag[h] \in Nat /\ lag'[h] = lag[h] + 1
      BY <2>2, <2>3
    <3> QED
      BY <3>1, <3>2, <3>3
  <2> QED
    BY <2>1, <2>2, <2>3 DEF PassedIsAlone
<1>6. CASE UNCHANGED vars
  BY <1>6 DEF vars, PassedIsAlone, Passed, InHook
<1> QED
  BY <1>1, <1>2, <1>3, <1>4, <1>5, <1>6 DEF Next, Handler

\* As long as no two requests are in the replay hook together, of the requests
\* that were let through within the window at most one waits for the counter.
THEOREM EchoesRefused == Spec => EchoesAreRefused
<1>1. Init => PassedIsAlone
  BY DEF Init, PassedIsAlone, Passed
<1>2. Inv /\ PassedIsAlone /\ OneInHook /\ [Next]_vars => PassedIsAlone'
  BY AloneStep
<1>3. PassedIsAlone => OnePassed
  <2> DEFINE S == {h \in Handlers : pc[h] = "stamped" /\ lag[h] < ReplayWindow}
  <2>1. PassedIsAlone => \A g, h \in S : g = h
    BY DEF PassedIsAlone, Passed
  <2>2. S \in SUBSET Handlers
    OBVIOUS
  <2> QED
    BY <2>1, <2>2, AtMostOne, RowAssumption DEF OnePassed
<1> QED
  BY <1>1, <1>2, <1>3, InvHolds, PTL DEF Spec, EchoesAreRefused

\* The counter's statements for its table that are in a race: a row was read,
\* and what will be written depends on it.
OneInCounter == Cardinality({h \in Handlers : pc[h] = "writing"}) <= 1

OneOf(table) == \A i, j \in Existing(table) : i = j

\* A write is about the row as it is: the only row is created, a window that is
\* over is begun again, any other request counts as one more.
CountIsCurrent(h) ==
  /\ plan[h] = "create" => Existing(rows) = {}
  /\ plan[h] = "reset" => WindowExpired(rows[target[h]])
  /\ plan[h] \in {"count", "block"} => newCount[h] = Capped(rows[target[h]].count + 1)

CountsAreCurrent == \A h \in Handlers : pc[h] = "writing" => CountIsCurrent(h)

\* As long as no two requests are between the counter's read and its write,
\* there is one row and no request goes uncounted.
SerialCountsAreExact == []OneInCounter => [](OneOf(rows) /\ CountsAreCurrent)

LEMMA SerialInit == Init => OneOf(rows) /\ CountsAreCurrent
<1> SUFFICES ASSUME Init PROVE OneOf(rows) /\ CountsAreCurrent
  OBVIOUS
<1>1. PICK used \in SUBSET RowIds :
        /\ Cardinality(used) <= 1
        /\ rows = [i \in RowIds |->
                     IF i \in used THEN [count |-> 1, age |-> Window, block |-> Null] ELSE NoRow]
  BY DEF Init
<1>2. \A i, j \in used : i = j
  BY <1>1, AtMostOne, RowAssumption
<1>3. Existing(rows) \subseteq used
  BY <1>1 DEF Existing
<1>4. CountsAreCurrent
  BY DEF Init, CountsAreCurrent
<1> QED
  BY <1>2, <1>3, <1>4 DEF OneOf

LEMMA SerialStep ==
  ASSUME Inv, OneOf(rows), CountsAreCurrent, OneInCounter, [Next]_vars
  PROVE  OneOf(rows)' /\ CountsAreCurrent'
<1> USE DEF Inv, CounterInv, TypeOK
<1>1. CASE UNCHANGED <<rows, pc, plan, target, newCount>>
  BY <1>1 DEF OneOf, Existing, CountsAreCurrent, CountIsCurrent
<1>2. ASSUME NEW h \in Handlers, Screen(h) \/ Recall(h) \/ Stamp(h) \/ Check(h)
      PROVE  OneOf(rows)' /\ CountsAreCurrent'
  <2>1. /\ rows' = rows /\ plan' = plan /\ newCount' = newCount
        /\ pc[h] # "writing" /\ pc'[h] # "writing"
        /\ \A g \in Handlers \ {h} : pc'[g] = pc[g] /\ target'[g] = target[g]
    BY <1>2 DEF Screen, Duplicate, NoDuplicate, Recall, Stamp, Check
  <2> QED
    BY <2>1 DEF OneOf, Existing, CountsAreCurrent, CountIsCurrent
<1>3. ASSUME NEW h \in Handlers, Read(h)
      PROVE  OneOf(rows)' /\ CountsAreCurrent'
  <2>1. PICK i \in RowIds \cup {NoRow} :
          /\ Found(i, rows)
          /\ target' = [target EXCEPT ![h] = i]
          /\ IF i = NoRow \/ WindowExpired(rows[i])
               THEN /\ plan' = [plan EXCEPT ![h] = IF i = NoRow THEN "create" ELSE "reset"]
                    /\ newCount' = [newCount EXCEPT ![h] = 1]
               ELSE /\ newCount' = [newCount EXCEPT ![h] = Capped(rows[i].count + 1)]
                    /\ plan' = [plan EXCEPT ![h] =
                                  IF Blocks(rows[i].count + 1) THEN "block" ELSE "count"]
    BY <1>3 DEF Read
  <2>2. i = NoRow => Existing(rows) = {}
    BY <2>1, NoRowAssumption, RowAssumption DEF Found, Existing
  <2>3. rows' = rows /\ \A g \in Handlers \ {h} : pc'[g] = pc[g]
    BY <1>3 DEF Read
  <2>4. CountIsCurrent(h)'
    BY <2>1, <2>2, <2>3 DEF CountIsCurrent, Existing, WindowExpired, Capped
  <2>5. ASSUME NEW g \in Handlers, g # h, pc'[g] = "writing"
        PROVE  CountIsCurrent(g)'
    <3>1. /\ pc[g] = "writing" /\ plan'[g] = plan[g] /\ target'[g] = target[g]
          /\ newCount'[g] = newCount[g]
      BY <2>1, <2>3, <2>5
    <3> QED
      BY <2>3, <3>1 DEF CountsAreCurrent, CountIsCurrent, Existing, WindowExpired, Capped
  <2> QED
    BY <2>3, <2>4, <2>5 DEF OneOf, Existing, CountsAreCurrent
<1>4. ASSUME NEW h \in Handlers, Write(h)
      PROVE  OneOf(rows)' /\ CountsAreCurrent'
  <2>1. PICK i \in RowIds :
          /\ IF plan[h] = "create" THEN Created(i, rows) ELSE i = target[h]
          /\ rows' = [rows EXCEPT ![i] = Updated(h, @)]
    BY <1>4 DEF Write
  <2>2. pc[h] = "writing" /\ pc' = [pc EXCEPT ![h] = "idle"]
    BY <1>4 DEF Write
  <2>3. \A g \in Handlers : pc'[g] # "writing"
    <3> DEFINE S == {g \in Handlers : pc[g] = "writing"}
    <3>1. S \in SUBSET Handlers /\ h \in S /\ Cardinality(S) <= 1
      BY <2>2 DEF OneInCounter
    <3> HIDE DEF S
    <3>2. \A g \in S : g = h
      BY <3>1, AtMostOne, RowAssumption
    <3> USE DEF S
    <3> QED
      BY <2>2, <3>2
  <2>4. \A j \in RowIds \ {i} : rows'[j] = rows[j]
    BY <2>1
  <2>5. \A j \in RowIds \ {i} : rows[j] = NoRow
    <3>1. CASE plan[h] = "create"
      BY <2>2, <3>1 DEF CountsAreCurrent, CountIsCurrent, Existing
    <3>2. CASE plan[h] # "create"
      <4>1. rows[i] \in Rows
        BY <2>1, <2>2, <3>2 DEF WritesAreFit
      <4>2. i \in Existing(rows)
        BY <4>1, NoRowAssumption DEF Existing
      <4> QED
        BY <4>2 DEF OneOf, Existing
    <3> QED
      BY <3>1, <3>2
  <2> QED
    BY <2>3, <2>4, <2>5 DEF OneOf, Existing, CountsAreCurrent
<1>5. CASE Tick
  <2>1. /\ \A i \in RowIds : rows'[i] = IF rows[i] = NoRow THEN NoRow ELSE Older(rows[i])
        /\ UNCHANGED <<pc, plan, target, newCount>>
    BY <1>5 DEF Tick
  <2>2. ASSUME NEW i \in RowIds, rows[i] \in Rows
        PROVE  /\ rows'[i] # NoRow /\ rows'[i].count = rows[i].count
               /\ WindowExpired(rows[i]) => WindowExpired(rows'[i])
    <3>1. rows'[i] = Older(rows[i]) /\ Older(rows[i]) \in Rows /\ Older(rows[i]).count = rows[i].count
      BY <2>1, <2>2, OlderIsSound, NoRowAssumption
    <3>2. /\ rows[i].age \in 0..Window
          /\ Older(rows[i]).age = IF rows[i].age < Window THEN rows[i].age + 1 ELSE rows[i].age
      BY <2>2 DEF Older, Rows
    <3> QED
      BY <3>1, <3>2, NoRowAssumption, LimitAssumption DEF WindowExpired
  <2>3. Existing(rows)' = Existing(rows)
    BY <2>1, <2>2 DEF Existing
  <2>4. ASSUME NEW h \in Handlers, pc[h] = "writing"
        PROVE  CountIsCurrent(h)'
    <3>1. CASE plan[h] = "create"
      BY <2>1, <2>3, <2>4, <3>1 DEF CountsAreCurrent, CountIsCurrent
    <3>2. CASE plan[h] # "create"
      <4>1. target[h] \in RowIds /\ rows[target[h]] \in Rows
        BY <2>4, <3>2 DEF WritesAreFit
      <4> QED
        BY <2>1, <2>2, <2>4, <3>2, <4>1 DEF CountsAreCurrent, CountIsCurrent, Capped
    <3> QED
      BY <3>1, <3>2
  <2> QED
    BY <2>1, <2>3, <2>4 DEF OneOf, CountsAreCurrent
<1>6. CASE UNCHANGED vars
  BY <1>1, <1>6 DEF vars
<1> QED
  BY <1>2, <1>3, <1>4, <1>5, <1>6 DEF Next, Handler

\* Without a race the counter has one row and misses no request: what the limit
\* loses, it loses to requests that read the row before another has written it.
THEOREM SerialCounting == Spec => SerialCountsAreExact
<1>1. Inv /\ OneOf(rows) /\ CountsAreCurrent /\ OneInCounter /\ [Next]_vars
        => OneOf(rows)' /\ CountsAreCurrent'
  BY SerialStep
<1> QED
  BY <1>1, SerialInit, InvHolds, PTL DEF Spec, SerialCountsAreExact

-----------------------------------------------------------------------------
(* The limit.                                                               *)

BehindCheck(h) == pc[h] \in {"checked", "writing"}

OneBehindCheck == Cardinality({h \in Handlers : BehindCheck(h)}) <= 1

\* Nobody who is let through would be refused now.
NoneIsPastTheLimit ==
  \A h \in Handlers : BehindCheck(h) => \A i \in Existing(rows) : ~Refused(rows[i])

\* As long as no two requests are between the check of the counter and its
\* write, what the check has found still holds when the request is counted:
\* none passes a full counter or a block.
SerialLimitHolds == []OneBehindCheck => []NoneIsPastTheLimit

LEMMA BehindIsWider == OneBehindCheck => OneInCounter
<1> SUFFICES ASSUME OneBehindCheck PROVE OneInCounter
  OBVIOUS
<1> DEFINE B == {h \in Handlers : BehindCheck(h)}
           S == {h \in Handlers : pc[h] = "writing"}
<1>1. B \in SUBSET Handlers /\ S \in SUBSET Handlers /\ S \subseteq B /\ Cardinality(B) <= 1
  BY DEF OneBehindCheck, BehindCheck
<1> HIDE DEF B, S
<1>2. \A g, h \in B : g = h
  BY <1>1, AtMostOne, RowAssumption
<1>3. Cardinality(S) <= 1
  BY <1>1, <1>2, AtMostOne, RowAssumption
<1> QED
  BY <1>3 DEF S, OneInCounter

\* Time only lets windows and blocks end.
LEMMA OlderIsNotRefused ==
  ASSUME NEW row \in Rows, ~Refused(row)
  PROVE  ~Refused(Older(row))
<1>1. /\ row.count \in Nat /\ row.age \in 0..Window /\ row.block \in Int
      /\ row.block <= 0
  BY LimitAssumption DEF Rows, Null, Refused
<1>2. /\ Older(row).count = row.count
      /\ Older(row).age = IF row.age < Window THEN row.age + 1 ELSE row.age
      /\ Older(row).block = row.block
  BY <1>1 DEF Older, Rows
<1> QED
  BY <1>1, <1>2, LimitAssumption DEF Refused, WindowExpired

LEMMA LimitStep ==
  ASSUME Inv, OneOf(rows), OneBehindCheck, NoneIsPastTheLimit, [Next]_vars
  PROVE  NoneIsPastTheLimit'
<1> USE DEF Inv, CounterInv, TypeOK
<1>1. ASSUME rows' = rows, NEW h \in Handlers, \A g \in Handlers \ {h} : pc'[g] = pc[g],
             ~BehindCheck(h)' \/ BehindCheck(h)
      PROVE  NoneIsPastTheLimit'
  BY <1>1 DEF NoneIsPastTheLimit, BehindCheck, Existing, Refused, WindowExpired
<1>2. ASSUME NEW h \in Handlers, Screen(h) \/ Recall(h) \/ Stamp(h) \/ Read(h)
      PROVE  NoneIsPastTheLimit'
  <2>1. /\ rows' = rows /\ \A g \in Handlers \ {h} : pc'[g] = pc[g]
        /\ ~BehindCheck(h)' \/ BehindCheck(h)
    BY <1>2 DEF Screen, Duplicate, NoDuplicate, Recall, Stamp, Read, BehindCheck
  <2> QED
    BY <1>1, <2>1
<1>3. ASSUME NEW h \in Handlers, Check(h)
      PROVE  NoneIsPastTheLimit'
  <2>1. rows' = rows /\ \A g \in Handlers \ {h} : pc'[g] = pc[g]
    BY <1>3 DEF Check
  <2>2. CASE pc'[h] = "idle"
    BY <1>1, <2>1, <2>2 DEF BehindCheck
  <2>3. CASE pc'[h] # "idle"
    <3>1. PICK i \in RowIds \cup {NoRow} : Found(i, rows) /\ ~(i # NoRow /\ Refused(rows[i]))
      BY <1>3, <2>3 DEF Check
    <3>2. \A j \in Existing(rows) : ~Refused(rows[j])
      BY <3>1, NoRowAssumption, RowAssumption DEF Found, OneOf, Existing
    <3> QED
      BY <2>1, <3>2 DEF NoneIsPastTheLimit, Existing, Refused, WindowExpired
  <2> QED
    BY <2>2, <2>3
<1>4. ASSUME NEW h \in Handlers, Write(h)
      PROVE  NoneIsPastTheLimit'
  <2> DEFINE B == {g \in Handlers : BehindCheck(g)}
  <2>1. pc[h] = "writing" /\ pc' = [pc EXCEPT ![h] = "idle"]
    BY <1>4 DEF Write
  <2>2. B \in SUBSET Handlers /\ h \in B /\ Cardinality(B) <= 1
    BY <2>1 DEF OneBehindCheck, BehindCheck
  <2> HIDE DEF B
  <2>3. \A g \in B : g = h
    BY <2>2, AtMostOne, RowAssumption
  <2>4. \A g \in Handlers : ~BehindCheck(g)'
    BY <2>1, <2>3 DEF B, BehindCheck
  <2> QED
    BY <2>4 DEF NoneIsPastTheLimit
<1>5. CASE Tick
  <2>1. /\ \A i \in RowIds : rows'[i] = IF rows[i] = NoRow THEN NoRow ELSE Older(rows[i])
        /\ UNCHANGED pc
    BY <1>5 DEF Tick
  <2>2. SUFFICES ASSUME NEW h \in Handlers, BehindCheck(h), NEW i \in Existing(rows)'
                 PROVE  ~Refused(rows'[i])
    BY <2>1 DEF NoneIsPastTheLimit, BehindCheck, Refused, WindowExpired
  <2>3. i \in Existing(rows) /\ rows[i] \in Rows /\ rows'[i] = Older(rows[i])
    BY <2>1, <2>2 DEF Existing
  <2>4. ~Refused(rows[i])
    BY <2>2, <2>3 DEF NoneIsPastTheLimit
  <2> QED
    BY <2>3, <2>4, OlderIsNotRefused
<1>6. CASE UNCHANGED vars
  BY <1>6 DEF vars, NoneIsPastTheLimit, BehindCheck, Existing, Refused, WindowExpired
<1> QED
  BY <1>2, <1>3, <1>4, <1>5, <1>6 DEF Next, Handler

\* The limit and the block are only ever passed by requests that race.
THEOREM SerialLimit == Spec => SerialLimitHolds
<1>1. Init => NoneIsPastTheLimit
  BY DEF Init, NoneIsPastTheLimit, BehindCheck
<1>2. Inv /\ OneOf(rows) /\ OneBehindCheck /\ NoneIsPastTheLimit /\ [Next]_vars => NoneIsPastTheLimit'
  BY LimitStep
<1>3. Inv /\ OneOf(rows) /\ CountsAreCurrent /\ OneInCounter /\ [Next]_vars
        => OneOf(rows)' /\ CountsAreCurrent'
  BY SerialStep
<1> QED
  BY <1>1, <1>2, <1>3, BehindIsWider, SerialInit, InvHolds, PTL DEF Spec, SerialLimitHolds
=============================================================================
