----------------------- MODULE WorkerLifecycleProofs -----------------------
(***************************************************************************)
(* A worker whose checks have passed looks for work and no other does, a   *)
(* clean exit abandons nothing and a signal starts nothing: for every set  *)
(* of environments and of requests, every batch size and any number of     *)
(* signals and kills.                                                      *)
(***************************************************************************)
EXTENDS WorkerLifecycle, FiniteSetTheorems, TLAPS

\* A batch is finite; past its first steps the process has a configuration
\* that loaded, and once it is up a node of the chain it names.
Inv ==
  /\ LifecycleInv
  /\ IsFiniteSet(batch)
  /\ proc \in {"verifying", "up"} => LoadSucceeds(env)
  /\ proc = "up" => ChainMatches(env)

-----------------------------------------------------------------------------
(* The batch.                                                               *)

Below(S, r) == {q \in S : q < r}
Rank(S, r)  == Cardinality(Below(S, r))

\* How many come before a request tells it from every other, and is below the
\* batch size for every request of the batch: so there are no more of them.
LEMMA OldestBounded ==
  ASSUME NEW S \in SUBSET Nat
  PROVE  IsFiniteSet(Oldest(S)) /\ Cardinality(Oldest(S)) <= BatchSize
<1>1. \A r \in S : IsFiniteSet(Below(S, r)) /\ Rank(S, r) \in Nat
  <2> SUFFICES ASSUME NEW r \in S
               PROVE  IsFiniteSet(Below(S, r)) /\ Rank(S, r) \in Nat
    OBVIOUS
  <2>1. Below(S, r) \in SUBSET Nat
    BY DEF Below
  <2>2. \A q \in Below(S, r) : q <= r
    BY DEF Below
  <2>3. IsFiniteSet(Below(S, r))
    BY <2>1, <2>2, FS_BoundedSetOfNaturals
  <2> QED
    BY <2>3, FS_CardinalityType DEF Rank
<1>2. \A p, r \in S : p < r => Rank(S, p) < Rank(S, r)
  <2> SUFFICES ASSUME NEW p \in S, NEW r \in S, p < r
               PROVE  Rank(S, p) < Rank(S, r)
    OBVIOUS
  <2>1. p \in Nat /\ r \in Nat
    OBVIOUS
  <2>2. Below(S, p) \cup {p} \in SUBSET Below(S, r)
    <3>1. ASSUME NEW q \in Below(S, p) PROVE q \in S /\ q < r
      <4>1. q \in Nat /\ q \in S /\ q < p
        BY DEF Below
      <4> QED
        BY <4>1, <2>1
    <3> QED
      BY <3>1 DEF Below
  <2>3. p \notin Below(S, p)
    BY <2>1 DEF Below
  <2>4. Cardinality(Below(S, p) \cup {p}) = Rank(S, p) + 1
    BY <2>3, <1>1, FS_AddElement DEF Rank
  <2>5. Cardinality(Below(S, p) \cup {p}) <= Rank(S, r)
    BY <2>2, <1>1, FS_Subset DEF Rank
  <2> QED
    BY <2>4, <2>5, <1>1
<1>3. Oldest(S) \subseteq S /\ \A r \in Oldest(S) : Rank(S, r) < BatchSize
  BY DEF Oldest, Rank, Below
<1> DEFINE rank == [r \in Oldest(S) |-> Rank(S, r)]
<1>4. rank \in [Oldest(S) -> 0..(BatchSize - 1)]
  <2> SUFFICES ASSUME NEW r \in Oldest(S) PROVE Rank(S, r) \in 0..(BatchSize - 1)
    OBVIOUS
  <2>1. Rank(S, r) \in Nat /\ Rank(S, r) < BatchSize
    BY <1>1, <1>3
  <2> QED
    BY <2>1, BatchAssumption
<1>5. \A p, r \in Oldest(S) : Rank(S, p) = Rank(S, r) => p = r
  <2> SUFFICES ASSUME NEW p \in Oldest(S), NEW r \in Oldest(S), p # r
               PROVE  Rank(S, p) # Rank(S, r)
    OBVIOUS
  <2>1. p \in S /\ r \in S /\ p \in Nat /\ r \in Nat
    BY <1>3
  <2>2. p < r \/ r < p
    BY <2>1
  <2> QED
    BY <2>1, <2>2, <1>1, <1>2
<1>6. rank \in Injection(Oldest(S), 0..(BatchSize - 1))
  BY <1>4, <1>5 DEF Injection, IsInjective
<1>7. IsFiniteSet(0..(BatchSize - 1)) /\ Cardinality(0..(BatchSize - 1)) = BatchSize
  BY FS_Interval, BatchAssumption
<1> HIDE DEF rank
<1> QED
  BY <1>6, <1>7, FS_Injection

\* A part of a batch is one.
LEMMA BatchShrinks ==
  ASSUME NEW r, IsFiniteSet(batch), Cardinality(batch) <= BatchSize
  PROVE  IsFiniteSet(batch \ {r}) /\ Cardinality(batch \ {r}) <= BatchSize
<1>1. batch \ {r} \in SUBSET batch
  OBVIOUS
<1>2. Cardinality(batch) \in Nat /\ Cardinality(batch \ {r}) \in Nat
  BY <1>1, FS_Subset, FS_CardinalityType
<1> QED
  BY <1>1, <1>2, FS_Subset, BatchAssumption

LEMMA NoBatch == IsFiniteSet({}) /\ Cardinality({}) <= BatchSize
BY FS_EmptySet, BatchAssumption

-----------------------------------------------------------------------------
(* The configuration.                                                       *)

\* Resolving puts into each name what is effective for it, if anything is there
\* at all, and changes no other name.
LEMMA ResolvedIsEffective ==
  ASSUME NEW e, IsEnvironment(e)
  PROVE  LET r == Resolved(e)
         IN  /\ \A name \in EnvNames \ {"CHAIN_RPC_URL", "SPONSOR_PRIVATE_KEY"} : r[name] = e[name]
             /\ \A name \in {"CHAIN_RPC_URL", "SPONSOR_PRIVATE_KEY"} :
                  IsPresent(r[name]) \/ IsPresent(Effective(e, name)) => r[name] = Effective(e, name)
<1> DEFINE r  == Resolved(e)
           e1 == resolveEnv(e, "CHAIN_RPC_URL", "ARC_RPC_URL")
<1>1. /\ DOMAIN e = EnvNames
      /\ {"CHAIN_RPC_URL", "SPONSOR_PRIVATE_KEY", "DEPLOYER_PRIVATE_KEY"} \subseteq EnvNames
  BY DEF IsEnvironment, EnvNames, Required, Aliases
<1>2. /\ DOMAIN e1 = EnvNames
      /\ \A name \in EnvNames \ {"CHAIN_RPC_URL"} : e1[name] = e[name]
  BY <1>1 DEF resolveEnv
<1>3. \/ IsPresent(e1["CHAIN_RPC_URL"])
      \/ IsPresent(Effective(e, "CHAIN_RPC_URL"))
      => e1["CHAIN_RPC_URL"] = Effective(e, "CHAIN_RPC_URL")
  BY <1>1 DEF resolveEnv, Effective, Present, IsPresent, Fallback
<1>4. r = resolveEnv(e1, "SPONSOR_PRIVATE_KEY", "DEPLOYER_PRIVATE_KEY")
  BY DEF Resolved
<1> HIDE DEF e1, r
<1>5. \A name \in EnvNames \ {"SPONSOR_PRIVATE_KEY"} : r[name] = e1[name]
  BY <1>2, <1>4 DEF resolveEnv
<1>6. /\ e1["SPONSOR_PRIVATE_KEY"] = e["SPONSOR_PRIVATE_KEY"]
      /\ e1["DEPLOYER_PRIVATE_KEY"] = e["DEPLOYER_PRIVATE_KEY"]
  BY <1>1, <1>2
<1>7. \/ IsPresent(r["SPONSOR_PRIVATE_KEY"])
      \/ IsPresent(Effective(e, "SPONSOR_PRIVATE_KEY"))
      => r["SPONSOR_PRIVATE_KEY"] = Effective(e, "SPONSOR_PRIVATE_KEY")
  BY <1>1, <1>2, <1>4, <1>6 DEF resolveEnv, Effective, Present, IsPresent, Fallback
<1> QED
  BY <1>1, <1>2, <1>3, <1>5, <1>7 DEF r

\* The names whose values are not promoted keep them.
LEMMA OwnNames ==
  ASSUME NEW e, IsEnvironment(e), NEW name \in EnvNames \ {"CHAIN_RPC_URL", "SPONSOR_PRIVATE_KEY"}
  PROVE  /\ Resolved(e)[name] = e[name] /\ Effective(e, name) = e[name]
         /\ e[name] \in ValuesOf(name)
BY ResolvedIsEffective DEF Effective, Fallback, IsEnvironment

LEMMA NamesOfEach ==
  /\ Addresses \cup Ranged \cup {Amount, "DATABASE_URL", "CHAIN_ID"}
       = EnvNames \ ({"CHAIN_RPC_URL", "SPONSOR_PRIVATE_KEY"} \cup Aliases)
  /\ Required = Addresses \cup {"DATABASE_URL", "CHAIN_ID", "CHAIN_RPC_URL", "SPONSOR_PRIVATE_KEY"}
  /\ Required \subseteq EnvNames
BY DEF EnvNames, Required, Addresses, Ranged, Aliases, Amount

LEMMA ValuesOfEach ==
  /\ ValuesOf("DATABASE_URL") = {"unset", "empty", "blank", "malformed", "ok", "unparsable"}
  /\ \A name \in Addresses :
       ValuesOf(name) = {"unset", "empty", "blank", "malformed", "ok", "badChecksum"}
  /\ \A name \in Ranged \cup {Amount} :
       ValuesOf(name) = {"unset", "empty", "blank", "malformed", "ok", "outOfRange", "fraction"}
<1>1. ValuesOf("DATABASE_URL") = {"unset", "empty", "blank", "malformed", "ok", "unparsable"}
  BY DEF ValuesOf, Addresses, Ranged, Amount
<1>2. ASSUME NEW name \in Addresses
      PROVE  ValuesOf(name) = {"unset", "empty", "blank", "malformed", "ok", "badChecksum"}
  BY DEF ValuesOf, Addresses, Ranged, Amount
<1>3. ASSUME NEW name \in Ranged \cup {Amount}
      PROVE  ValuesOf(name) =
               {"unset", "empty", "blank", "malformed", "ok", "outOfRange", "fraction"}
  BY DEF ValuesOf, Ranged, Amount, Addresses
<1> QED
  BY <1>1, <1>2, <1>3

\* What import, loadConfig and the clients let through, and the node confirms,
\* is fit but for what none of them looks at.
LEMMA LoadedIsChecked ==
  ASSUME NEW e, IsEnvironment(e), LoadSucceeds(e), ChainMatches(e)
  PROVE  Unfit(e) \subseteq Overlooked(e)
<1> DEFINE r == Resolved(e)
<1>1. /\ \A name \in Required : IsPresent(r[name])
      /\ \A name \in Required \ {"DATABASE_URL"} : r[name] # "malformed"
      /\ \A name \in Ranged : r[name] \notin {"malformed", "outOfRange", "blank"}
      /\ r[Amount] \notin {"malformed", "outOfRange", "blank", "fraction"}
      /\ r["SPONSOR_PRIVATE_KEY"] = "ok" /\ r["CHAIN_RPC_URL"] = "ok"
      /\ IsPresent(e["DATABASE_URL"]) /\ e["DATABASE_URL"] # "malformed"
  BY DEF LoadSucceeds, Imports, ConfigErrors, Missing, BadFormat, BadNumber, BadAmount, Derives,
         Parses, Present
<1>2. Effective(e, "CHAIN_RPC_URL") = "ok" /\ Effective(e, "SPONSOR_PRIVATE_KEY") = "ok"
  BY <1>1, ResolvedIsEffective DEF IsPresent
<1>3. \A name \in EnvNames \ {"CHAIN_RPC_URL", "SPONSOR_PRIVATE_KEY"} :
        r[name] = e[name] /\ Effective(e, name) = e[name] /\ e[name] \in ValuesOf(name)
  BY OwnNames
<1> HIDE DEF r
<1>4. ASSUME NEW name \in Required, Effective(e, name) # "ok"
      PROVE  name \in Overlooked(e)
  <2>1. CASE name = "DATABASE_URL"
    <3>1. e[name] = Effective(e, name) /\ e[name] \in ValuesOf("DATABASE_URL")
      BY <1>3, <2>1 DEF EnvNames, Required
    <3> QED
      BY <3>1, <1>1, <1>4, <2>1, ValuesOfEach DEF IsPresent, Overlooked
  <2>2. CASE name = "CHAIN_ID"
    BY <1>4, <2>2 DEF ChainMatches, Effective, Fallback
  <2>3. CASE name \in Addresses
    <3>1. name \in EnvNames \ {"CHAIN_RPC_URL", "SPONSOR_PRIVATE_KEY"} /\ name # "DATABASE_URL"
      BY <2>3 DEF Addresses, EnvNames, Required
    <3>2. r[name] = e[name] /\ e[name] \in ValuesOf(name) /\ e[name] # "ok"
      BY <1>3, <1>4, <3>1
    <3>3. e[name] = "badChecksum"
      BY <1>1, <2>3, <3>1, <3>2, ValuesOfEach DEF IsPresent
    <3> QED
      BY <2>3, <3>3 DEF Overlooked
  <2> QED
    BY <1>2, <1>4, <2>1, <2>2, <2>3, NamesOfEach
<1>5. ASSUME NEW name \in Ranged \cup {Amount}, e[name] \notin {"unset", "empty", "ok"}
      PROVE  name \in Overlooked(e)
  <2>1. name \in EnvNames \ {"CHAIN_RPC_URL", "SPONSOR_PRIVATE_KEY"}
    BY NamesOfEach
  <2>2. r[name] = e[name] /\ e[name] \in {"blank", "malformed", "outOfRange", "fraction"}
    BY <1>3, <1>5, <2>1, ValuesOfEach
  <2>3. name \in Ranged /\ e[name] = "fraction"
    BY <1>1, <2>2
  <2> QED
    BY <2>3 DEF Overlooked
<1> QED
  BY <1>4, <1>5 DEF Unfit

\* The other way round: no check refuses more than that.
LEMMA CheckedIsLoaded ==
  ASSUME NEW e, IsEnvironment(e), Unfit(e) \subseteq Overlooked(e)
  PROVE  LoadSucceeds(e) /\ ChainMatches(e)
<1> DEFINE r == Resolved(e)
<1>1. /\ Effective(e, "CHAIN_RPC_URL") = "ok" /\ Effective(e, "SPONSOR_PRIVATE_KEY") = "ok"
      /\ Effective(e, "CHAIN_ID") = "ok"
  BY DEF Unfit, Overlooked, Required, Ranged, Addresses
<1>2. r["CHAIN_RPC_URL"] = "ok" /\ r["SPONSOR_PRIVATE_KEY"] = "ok" /\ e["CHAIN_ID"] = "ok"
  BY <1>1, ResolvedIsEffective DEF IsPresent, Effective, Fallback
<1>3. \A name \in EnvNames \ {"CHAIN_RPC_URL", "SPONSOR_PRIVATE_KEY"} :
        r[name] = e[name] /\ Effective(e, name) = e[name]
  BY OwnNames
<1> HIDE DEF r
<1>4. e["DATABASE_URL"] \in {"ok", "unparsable"}
  <2>1. "DATABASE_URL" \in Required /\ Effective(e, "DATABASE_URL") = e["DATABASE_URL"]
    BY DEF Required, Effective, Fallback
  <2> QED
    BY <2>1 DEF Unfit, Overlooked, Ranged, Addresses
<1>5. \A name \in Addresses : e[name] \in {"ok", "badChecksum"}
  <2> SUFFICES ASSUME NEW name \in Addresses PROVE e[name] \in {"ok", "badChecksum"}
    OBVIOUS
  <2>1. name \in Required /\ name \notin Ranged /\ name # "DATABASE_URL"
    BY DEF Addresses, Required, Ranged
  <2>2. Effective(e, name) = e[name]
    BY <1>3 DEF Addresses, EnvNames, Required
  <2> QED
    BY <2>1, <2>2 DEF Unfit, Overlooked
<1>6. \A name \in Ranged : e[name] \in {"unset", "empty", "ok", "fraction"}
  <2> SUFFICES ASSUME NEW name \in Ranged PROVE e[name] \in {"unset", "empty", "ok", "fraction"}
    OBVIOUS
  <2>1. name \notin Addresses /\ name # "DATABASE_URL"
    BY DEF Ranged, Addresses
  <2> QED
    BY <2>1 DEF Unfit, Overlooked
<1>7. e[Amount] \in {"unset", "empty", "ok"}
  <2>1. Amount \notin Ranged \cup Addresses \cup {"DATABASE_URL"}
    BY DEF Amount, Ranged, Addresses
  <2> QED
    BY <2>1 DEF Unfit, Overlooked
<1>8. /\ \A name \in Addresses \cup Ranged \cup {Amount, "DATABASE_URL", "CHAIN_ID"} :
           r[name] = e[name]
      /\ \A name \in Required :
           name \in Addresses \cup {"DATABASE_URL", "CHAIN_ID", "CHAIN_RPC_URL", "SPONSOR_PRIVATE_KEY"}
  BY <1>3, NamesOfEach
<1>9. \A name \in Required : r[name] \in {"ok", "badChecksum", "unparsable"}
  BY <1>2, <1>4, <1>5, <1>8
<1>10. Missing(r) = {} /\ BadFormat(r) = {}
  BY <1>9 DEF Missing, BadFormat, Present, IsPresent
<1>11. BadNumber(r) = {}
  BY <1>6, <1>8 DEF BadNumber
<1>12. BadAmount(r) = {}
  BY <1>7, <1>8 DEF BadAmount
<1>13. Imports(e) /\ Derives(r) /\ Parses(r) /\ ChainMatches(e)
  BY <1>2, <1>4 DEF Imports, IsPresent, Derives, Parses, ChainMatches
<1> QED
  BY <1>10, <1>11, <1>12, <1>13 DEF LoadSucceeds, ConfigErrors, r

-----------------------------------------------------------------------------
(* The steps.                                                               *)

LEMMA InvInit == Init => Inv
<1> SUFFICES ASSUME Init PROVE Inv
  OBVIOUS
<1>1. TypeOK
  <2>1. errors \in 0..MaxErrors /\ stops \in 0..MaxStops
    BY BatchAssumption DEF Init
  <2> QED
    BY <2>1, NoBatch DEF Init, TypeOK
<1> QED
  BY <1>1, NoBatch DEF Init, Inv, LifecycleInv

\* The process ends, by whatever hand: nothing is left of poller and shutdown.
LEMMA ExitKeeps ==
  ASSUME NEW code \in {"0", "1", "killed"}, Inv, Exit(code), UNCHANGED <<env, pending>>,
         errors' \in 0..MaxErrors, stops' \in 0..MaxStops
  PROVE  Inv'
BY NoBatch DEF Exit, Inv, LifecycleInv, TypeOK

\* The end of a cycle schedules the next one or resolves the stop.
LEMMA EndCycleKeeps ==
  ASSUME Inv, EndCycle, cycle # "none", UNCHANGED <<env, pending, proc, exitCode, stops>>,
         errors' \in 0..MaxErrors
  PROVE  Inv'
<1>1. CASE isRunning
  BY <1>1, NoBatch DEF EndCycle, Inv, LifecycleInv, TypeOK
<1>2. CASE ~isRunning
  BY <1>2, NoBatch DEF EndCycle, DrainedAtEnd, Inv, LifecycleInv, TypeOK
<1> QED
  BY <1>1, <1>2

LEMMA PollerKeeps ==
  ASSUME Inv, Poller
  PROVE  Inv'
<1>1. CASE Tick
  BY <1>1 DEF Tick, stopVars, Inv, LifecycleInv, TypeOK
<1>2. CASE Query
  <2>1. IsFiniteSet(Oldest(pending)) /\ Cardinality(Oldest(pending)) <= BatchSize
    BY OldestBounded, RequestsAssumption DEF Inv, LifecycleInv, TypeOK
  <2>2. Oldest(pending) \subseteq Requests
    BY DEF Oldest, Inv, LifecycleInv, TypeOK
  <2> QED
    BY <1>2, <2>1, <2>2 DEF Query, stopVars, Inv, LifecycleInv, TypeOK
<1>3. CASE QueryFails
  <2>1. errors' \in 0..MaxErrors
    BY <1>3, BatchAssumption DEF QueryFails, Failed, Inv, LifecycleInv, TypeOK
  <2> QED
    BY <1>3, <2>1, EndCycleKeeps DEF QueryFails, Inv, LifecycleInv, TypeOK
<1>4. CASE Dispatch
  BY <1>4 DEF Dispatch, stopVars, Inv, LifecycleInv, TypeOK
<1>5. CASE FinishLoop
  BY <1>5, EndCycleKeeps DEF FinishLoop, Inv, LifecycleInv, TypeOK
<1>6. CASE Settles \/ Throws
  <2>1. IsFiniteSet(batch \ {Current}) /\ Cardinality(batch \ {Current}) <= BatchSize
    BY BatchShrinks DEF Inv, LifecycleInv, TypeOK
  <2>2. /\ cycle = "processing" /\ cycle' = "dispatch" /\ batch' = batch \ {Current}
        /\ pending' \subseteq pending
        /\ UNCHANGED <<env, proc, exitCode, isRunning, timer, stopping, timedOut, drained, stops>>
    BY <1>6 DEF Settles, Throws, Processed, stopVars
  <2>3. errors' \in 0..MaxErrors
    <3>1. errors \in 0..MaxErrors
      BY DEF Inv, LifecycleInv, TypeOK
    <3>2. errors' = errors \/ (errors < MaxErrors /\ errors' = errors + 1)
      BY <1>6 DEF Settles, Throws, Failed
    <3> QED
      BY <3>1, <3>2, BatchAssumption
  <2> QED
    BY <2>1, <2>2, <2>3 DEF Inv, LifecycleInv, TypeOK
<1> QED
  BY <1>1, <1>2, <1>3, <1>4, <1>5, <1>6 DEF Poller

\* A signal stops the poller; its stop is resolved at once only if the timer
\* was set, and then no cycle is under way.
LEMMA SignalKeeps ==
  ASSUME Inv, Signal
  PROVE  Inv'
<1>0. stops' \in 0..MaxStops /\ UNCHANGED <<env, pending, errors>> /\ errors \in 0..MaxErrors
  BY BatchAssumption DEF Signal, Inv, LifecycleInv, TypeOK
<1>1. CASE proc = "verifying"
  BY <1>0, <1>1, ExitKeeps DEF Signal
<1>2. CASE proc # "verifying"
  <2>1. /\ isRunning' = FALSE /\ timer' = FALSE /\ drained' = timer
        /\ stopping' = "racing"
        /\ UNCHANGED <<proc, exitCode, cycle, batch, timedOut>>
    BY <1>2 DEF Signal, StopResolves
  <2>2. proc = "up"
    BY <1>2 DEF Signal
  <2> QED
    BY <1>0, <2>1, <2>2 DEF Inv, LifecycleInv, TypeOK
<1> QED
  BY <1>1, <1>2

\* The six ways a process ends without a signal to an unfinished start.
LEMMA EndsKeep ==
  ASSUME Inv,
         LoadFails \/ ChainIsOther \/ VerifyFails \/ Kill \/ Disconnected \/ DisconnectFails
           \/ ShutdownTimeout
  PROVE  Inv'
<1>1. /\ \E code \in {"0", "1", "killed"} : Exit(code)
      /\ UNCHANGED <<env, pending>>
  BY DEF LoadFails, ChainIsOther, VerifyFails, Kill, Disconnected, DisconnectFails,
         ShutdownTimeout
<1>2. errors' \in 0..MaxErrors /\ stops' \in 0..MaxStops
  BY BatchAssumption DEF LoadFails, ChainIsOther, VerifyFails, Kill, Disconnected,
         DisconnectFails, ShutdownTimeout, Inv, LifecycleInv, TypeOK
<1> QED
  BY <1>1, <1>2, ExitKeeps

LEMMA InvStep == Inv /\ [Next]_vars => Inv'
<1> SUFFICES ASSUME Inv, [Next]_vars PROVE Inv'
  OBVIOUS
<1>1. CASE \E r \in Requests : Arrive(r)
  BY <1>1 DEF Arrive, pollVars, stopVars, Inv, LifecycleInv, TypeOK
<1>2. CASE Load
  BY <1>2 DEF Load, pollVars, stopVars, Inv, LifecycleInv, TypeOK
<1>3. CASE Start
  BY <1>3 DEF Start, stopVars, Inv, LifecycleInv, TypeOK
<1>4. CASE LoadFails \/ ChainIsOther \/ VerifyFails \/ Kill \/ Disconnected
             \/ DisconnectFails \/ ShutdownTimeout
  BY <1>4, EndsKeep
<1>5. CASE Restart
  BY <1>5 DEF Restart, pollVars, stopVars, Inv, LifecycleInv, TypeOK
<1>6. CASE Poller
  BY <1>6, PollerKeeps
<1>7. CASE Signal
  BY <1>7, SignalKeeps
<1>8. CASE Drained \/ StopTimeout
  <2>1. PICK late \in BOOLEAN : RaceWon(late) /\ (drained \/ late)
    BY <1>8 DEF Drained, StopTimeout
  <2> QED
    BY <2>1 DEF RaceWon, pollVars, Inv, LifecycleInv, TypeOK
<1>9. CASE UNCHANGED vars
  BY <1>9 DEF vars, pollVars, stopVars, Inv, LifecycleInv, TypeOK
<1> QED
  BY <1>1, <1>2, <1>3, <1>4, <1>5, <1>6, <1>7, <1>8, <1>9 DEF Next, Boot, Stop

LEMMA InvHolds == Spec => []Inv
BY InvInit, InvStep, PTL DEF Spec

-----------------------------------------------------------------------------
\* How poller, process and shutdown are tied together holds for good, and a
\* batch is never longer than the code asks for.
THEOREM LifecycleInvariant == Spec => []LifecycleInv
BY InvHolds, PTL DEF Inv

\* Whatever is unfit in the environment of a worker that looks for requests is
\* one of the three things that no check looks at.
THEOREM PollsIfChecked == Spec => []PollsOnlyIfChecked
<1>1. Inv => PollsOnlyIfChecked
  <2> SUFFICES ASSUME Inv, cycle # "none" PROVE Unfit(env) \subseteq Overlooked(env)
    BY DEF PollsOnlyIfChecked
  <2>1. LoadSucceeds(env) /\ ChainMatches(env)
    BY DEF Inv, LifecycleInv
  <2>2. IsEnvironment(env)
    BY EnvironmentsAssumption DEF Inv, LifecycleInv, TypeOK
  <2> QED
    BY <2>1, <2>2, LoadedIsChecked
<1> QED
  BY <1>1, InvHolds, PTL

\* Neither import nor loadConfig nor the check of the chain id turns away an
\* environment for anything but a value that is unfit in another way.
THEOREM RefusesOnlyUnfit == Spec => RefusesOnlyUnfitValues
<1>1. Inv /\ [Next]_vars =>
        (LoadFails \/ ChainIsOther => ~(Unfit(env) \subseteq Overlooked(env)))
  <2> SUFFICES ASSUME Inv, LoadFails \/ ChainIsOther, Unfit(env) \subseteq Overlooked(env)
               PROVE  FALSE
    OBVIOUS
  <2>1. IsEnvironment(env)
    BY EnvironmentsAssumption DEF Inv, LifecycleInv, TypeOK
  <2> QED
    BY <2>1, CheckedIsLoaded DEF LoadFails, ChainIsOther
<1> QED
  BY <1>1, InvHolds, PTL DEF Spec, RefusesOnlyUnfitValues

\* Exit code 0 is reported only when no cycle was under way.
THEOREM CleanExit == Spec => CleanExitIsDrained
<1> DEFINE Clean == proc # "exited" /\ proc' = "exited" /\ exitCode' = "0" => cycle = "none"
<1>1. ASSUME LifecycleInv, Next
      PROVE  Clean
  <2>1. CASE \E r \in Requests : Arrive(r)
    BY <2>1 DEF Arrive
  <2>2. CASE Load \/ Start \/ Restart
    BY <2>2 DEF Load, Start, Restart
  <2>3. CASE LoadFails \/ ChainIsOther \/ VerifyFails \/ Kill \/ DisconnectFails
               \/ ShutdownTimeout
    BY <2>3 DEF LoadFails, ChainIsOther, VerifyFails, Kill, DisconnectFails,
                ShutdownTimeout, Exit
  <2>4. CASE Poller
    BY <2>4 DEF Poller, Tick, Query, QueryFails, Dispatch, FinishLoop, Settles,
                Throws, Processed
  <2>5. CASE Signal
    BY <1>1, <2>5 DEF Signal, LifecycleInv
  <2>6. CASE Drained \/ StopTimeout
    BY <2>6 DEF Drained, StopTimeout, RaceWon
  <2>7. CASE Disconnected
    BY <1>1, <2>7 DEF Disconnected, Exit, LifecycleInv
  <2> QED
    BY <1>1, <2>1, <2>2, <2>3, <2>4, <2>5, <2>6, <2>7 DEF Next, Boot, Stop
<1>2. LifecycleInv /\ [Next]_vars => [Clean]_vars
  BY <1>1
<1> QED
  BY <1>2, LifecycleInvariant, PTL DEF Spec, CleanExitIsDrained

\* After the signal no run begins.
THEOREM SignalStartsNothing == Spec => NothingStartedAfterSignal
<1> DEFINE Quiet == cycle # "processing" /\ cycle' = "processing" => stopping = "none"
<1>1. ASSUME LifecycleInv, Next, cycle # "processing", cycle' = "processing"
      PROVE  Dispatch
  BY <1>1 DEF Next, Arrive, Boot, Load, LoadFails, Start, ChainIsOther, VerifyFails, Kill,
              Restart, Exit, Poller, Tick, Query, QueryFails, EndCycle, FinishLoop, Settles,
              Throws, Processed, Signal, Stop, Drained, StopTimeout, RaceWon, Disconnected,
              DisconnectFails, ShutdownTimeout, pollVars
<1>2. LifecycleInv /\ [Next]_vars => [Quiet]_vars
  BY <1>1 DEF Dispatch, LoopEnds, LifecycleInv
<1> QED
  BY <1>2, LifecycleInvariant, PTL DEF Spec, NothingStartedAfterSignal
=============================================================================
