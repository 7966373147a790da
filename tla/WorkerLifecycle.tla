-------------------------- MODULE WorkerLifecycle --------------------------
(***************************************************************************)
(* One worker process: configuration and chain id (worker.ts,              *)
(* viem-client.ts), the poller's loop and timer (poller.ts), the drain of  *)
(* worker.ts, the signal handler and exit codes of main.ts.  What a run of *)
(* processRequest does is SponsorshipRelay; here a run settles its         *)
(* request, or throws and leaves it as it was.                             *)
(***************************************************************************)
EXTENDS Integers, FiniteSets, WorkerConfig

CONSTANTS
  Environments, \* what the process may be started with
  Requests,   \* in the order of requestedAt
  Stuck,      \* requests whose every run throws
  BatchSize,  \* config.batchSize
  MaxErrors,  \* bound: failures for a reason that passes
  MaxStops    \* bound: signals and kills

ASSUME EnvironmentsAssumption == \A e \in Environments : IsEnvironment(e)
ASSUME RequestsAssumption == Requests \subseteq Nat /\ Stuck \subseteq Requests
ASSUME BatchAssumption == BatchSize \in Nat \ {0} /\ MaxErrors \in Nat /\ MaxStops \in Nat

VARIABLES
  env,       \* the container's environment, the same at every start
  pending,   \* requests the poller's query finds
  proc,      \* the process: starting, verifying, up, exited
  exitCode,  \* how it last ended
  isRunning, \* the poller's flag
  timer,     \* timeoutId is set: the next cycle is scheduled
  cycle,     \* where pollCycle is
  batch,     \* ids read and not yet dispatched
  stopping,  \* where worker.stop is: none, racing, disconnecting
  timedOut,  \* result of the race
  drained,   \* the promise of poller.stop is resolved
  errors, stops

pollVars == <<isRunning, timer, cycle, batch>>
stopVars == <<stopping, timedOut, drained>>
vars == <<env, pending, proc, exitCode, pollVars, stopVars, errors, stops>>

\* Seeded fault: one id less.
OldestButOne(S) == {r \in S : Cardinality({q \in S : q < r}) < BatchSize - 1}

\* ORDER BY requestedAt ASC LIMIT batchSize
Oldest(S) == {r \in S : Cardinality({q \in S : q < r}) < BatchSize}

TypeOK ==
  /\ env \in Environments
  /\ pending \subseteq Requests
  /\ proc \in {"starting", "verifying", "up", "exited"}
  /\ exitCode \in {"none", "0", "1", "killed"}
  /\ isRunning \in BOOLEAN /\ timer \in BOOLEAN
  /\ cycle \in {"none", "query", "dispatch", "processing"}
  /\ batch \subseteq Requests /\ Cardinality(batch) <= BatchSize
  /\ stopping \in {"none", "racing", "disconnecting"}
  /\ timedOut \in BOOLEAN /\ drained \in BOOLEAN
  /\ errors \in 0..MaxErrors /\ stops \in 0..MaxStops

Init ==
  /\ env \in Environments
  /\ pending \in SUBSET Requests
  /\ proc = "starting" /\ exitCode = "none"
  /\ isRunning = FALSE /\ timer = FALSE /\ cycle = "none" /\ batch = {}
  /\ stopping = "none" /\ timedOut = FALSE /\ drained = FALSE
  /\ errors = 0 /\ stops = 0

\* A new request is the newest.  Ids that are no longer pending come back as
\* new requests (a bound of the model).
Arrive(r) ==
  /\ r \notin pending /\ \A q \in pending : q < r
  /\ pending' = pending \cup {r}
  /\ UNCHANGED <<env, proc, exitCode, pollVars, stopVars, errors, stops>>

-----------------------------------------------------------------------------
(* The process.                                                             *)

\* process.exit: whatever was under way is gone, its transaction rolled back.
Exit(code) ==
  /\ proc' = "exited" /\ exitCode' = code
  /\ isRunning' = FALSE /\ timer' = FALSE /\ cycle' = "none" /\ batch' = {}
  /\ stopping' = "none" /\ timedOut' = FALSE /\ drained' = FALSE

\* The imports, and worker.start up to its first await: no signal is handled meanwhile.
Load ==
  /\ proc = "starting" /\ LoadSucceeds(env)
  /\ proc' = "verifying"
  /\ UNCHANGED <<env, pending, exitCode, pollVars, stopVars, errors, stops>>

LoadFails ==
  /\ proc = "starting" /\ ~LoadSucceeds(env)
  /\ Exit("1")
  /\ UNCHANGED <<env, pending, errors, stops>>

\* The node has answered.  The first cycle begins at once.
Start ==
  /\ proc = "verifying" /\ ChainMatches(env)
  /\ proc' = "up" /\ isRunning' = TRUE /\ cycle' = "query"
  /\ UNCHANGED <<env, pending, exitCode, timer, batch, stopVars, errors, stops>>

ChainIsOther ==
  /\ proc = "verifying" /\ ~ChainMatches(env)
  /\ Exit("1")
  /\ UNCHANGED <<env, pending, errors, stops>>

\* The node fails, or does not answer in time.
VerifyFails ==
  /\ proc = "verifying" /\ errors < MaxErrors
  /\ Exit("1")
  /\ errors' = errors + 1
  /\ UNCHANGED <<env, pending, stops>>

\* The process dies without a signal it could handle.
Kill ==
  /\ proc # "exited" /\ stops < MaxStops
  /\ Exit("killed")
  /\ stops' = stops + 1
  /\ UNCHANGED <<env, pending, errors>>

\* The orchestrator starts the container again.
Restart ==
  /\ proc = "exited"
  /\ proc' = "starting"
  /\ UNCHANGED <<env, pending, exitCode, pollVars, stopVars, errors, stops>>

-----------------------------------------------------------------------------
(* The poller.                                                              *)

\* A query or a run fails for a reason that passes; or because of what no check
\* of the environment has looked at, and then it may do so for ever.
Failed == IF Usable(env) THEN errors < MaxErrors /\ errors' = errors + 1
                         ELSE UNCHANGED errors

\* Seeded fault: stop() is not told that the cycle is over.
DrainedUnlessLate == drained

\* The end of a cycle resolves the promise of stop().
DrainedAtEnd == TRUE

\* scheduleNextCycle.
EndCycle ==
  /\ cycle' = "none" /\ batch' = {}
  /\ IF isRunning THEN timer' = TRUE /\ UNCHANGED drained
                  ELSE drained' = DrainedAtEnd /\ UNCHANGED timer
  /\ UNCHANGED <<isRunning, stopping, timedOut>>

\* The timer fires: no cycle overlaps another, the next one is only scheduled
\* at the end of this one.
Tick ==
  /\ timer
  /\ timer' = FALSE /\ cycle' = "query"
  /\ UNCHANGED <<env, pending, proc, exitCode, isRunning, batch, stopVars, errors, stops>>

Query ==
  /\ cycle = "query" /\ Connects(env)
  /\ batch' = Oldest(pending) /\ cycle' = "dispatch"
  /\ UNCHANGED <<env, pending, proc, exitCode, isRunning, timer, stopVars, errors, stops>>

QueryFails ==
  /\ cycle = "query"
  /\ EndCycle
  /\ Failed
  /\ UNCHANGED <<env, pending, proc, exitCode, stops>>

\* Seeded fault: the loop goes through its batch whatever happens.
LoopEndsWhenDone == batch = {}

\* for (const request of pendingRequests) { if (!isRunning) break ...
LoopEnds == batch = {} \/ ~isRunning

\* The oldest id comes first.
Dispatch ==
  /\ cycle = "dispatch" /\ ~LoopEnds
  /\ cycle' = "processing"
  /\ UNCHANGED <<env, pending, proc, exitCode, isRunning, timer, batch, stopVars, errors, stops>>

FinishLoop ==
  /\ cycle = "dispatch" /\ LoopEnds
  /\ EndCycle
  /\ UNCHANGED <<env, pending, proc, exitCode, errors, stops>>

Current == CHOOSE r \in batch : \A q \in batch : r <= q

\* processRequest returns: its request is settled, or its run has thrown.
Processed(settled) ==
  /\ cycle' = "dispatch" /\ batch' = batch \ {Current}
  /\ pending' = IF settled THEN pending \ {Current} ELSE pending
  /\ UNCHANGED <<env, proc, exitCode, isRunning, timer, stopVars, stops>>

Settles ==
  /\ cycle = "processing" /\ Current \notin Stuck
  /\ Processed(TRUE)
  /\ UNCHANGED errors

Throws ==
  /\ cycle = "processing"
  /\ Processed(FALSE)
  /\ IF Current \in Stuck THEN UNCHANGED errors ELSE Failed

-----------------------------------------------------------------------------
(* Shutdown.                                                                *)

\* Seeded fault: stop() does not wait for a cycle under way.
StopIsImmediate == TRUE

\* poller.stop() resolves at once only if it could clear the timer.
StopResolves == timer

\* SIGTERM or SIGINT; a second one is ignored.  Before the poller exists
\* worker.stop has nothing to do and the process exits.
Signal ==
  /\ proc \in {"verifying", "up"} /\ stopping = "none" /\ stops < MaxStops
  /\ stops' = stops + 1
  /\ IF proc = "verifying"
       THEN Exit("0")
       ELSE /\ isRunning' = FALSE /\ timer' = FALSE
            /\ drained' = StopResolves
            /\ stopping' = "racing"
            /\ UNCHANGED <<proc, exitCode, cycle, batch, timedOut>>
  /\ UNCHANGED <<env, pending, errors>>

\* Promise.race of the poller's stop and the timer of worker.ts.
RaceWon(late) ==
  /\ stopping = "racing"
  /\ stopping' = "disconnecting" /\ timedOut' = late
  /\ UNCHANGED <<env, pending, proc, exitCode, pollVars, drained, errors, stops>>

Drained     == drained /\ RaceWon(FALSE)
StopTimeout == RaceWon(TRUE)

\* prisma.$disconnect has returned.
Disconnected ==
  /\ stopping = "disconnecting"
  /\ Exit(IF timedOut THEN "1" ELSE "0")
  /\ UNCHANGED <<env, pending, errors, stops>>

\* It throws; worker.stop and main.ts let the process end with an error.
DisconnectFails ==
  /\ stopping = "disconnecting" /\ errors < MaxErrors
  /\ Exit("1")
  /\ errors' = errors + 1
  /\ UNCHANGED <<env, pending, stops>>

\* The timer of main.ts, armed just before the one of worker.ts with the same
\* delay; the model lets either be first.
ShutdownTimeout ==
  /\ stopping # "none"
  /\ Exit("1")
  /\ UNCHANGED <<env, pending, errors, stops>>

Boot   == Load \/ LoadFails \/ Start \/ ChainIsOther
Poller == Tick \/ Query \/ QueryFails \/ Dispatch \/ FinishLoop \/ Settles \/ Throws
Stop   == Drained \/ Disconnected

Next ==
  \/ \E r \in Requests : Arrive(r)
  \/ Boot \/ VerifyFails \/ Kill \/ Restart
  \/ Poller
  \/ Signal \/ Stop \/ DisconnectFails \/ StopTimeout \/ ShutdownTimeout

Spec == Init /\ [][Next]_vars

\* The event loop runs, the orchestrator restarts, every run of processRequest
\* ends.  Nothing is assumed of the shutdown timers.
FairSpec ==
  Spec /\ WF_vars(Boot) /\ WF_vars(Restart) /\ WF_vars(Poller) /\ WF_vars(Stop)

-----------------------------------------------------------------------------
\* An exit that reports success abandons nothing: no cycle is under way and no
\* request half processed when the process goes, except by the two timeouts and
\* a kill.
CleanExitIsDrained ==
  [][proc # "exited" /\ proc' = "exited" /\ exitCode' = "0" => cycle = "none"]_vars

\* After the signal no run is started, also not from the batch under way.
\* .kiro/specs/worker-docker-integration/requirements.md:82
NothingStartedAfterSignal ==
  [][cycle # "processing" /\ cycle' = "processing" => stopping = "none"]_vars

\* The drain ends by itself, whatever the poller was doing at the signal: no
\* timer is needed to get the process to exit.
SignalExits == stopping # "none" ~> proc = "exited"

\* With an environment in which every value is fit, and as long as there are
\* fewer requests that throw for ever than a batch holds, every other request has
\* its turn, through failing runs and restarts.
OthersAreServed ==
  Usable(env) /\ Cardinality(Stuck) < BatchSize =>
    \A r \in Requests \ Stuck : r \in pending ~> r \notin pending

-----------------------------------------------------------------------------
\* When a worker looks for requests, what is unfit in its environment is at most
\* a fractional limit, the checksum of an address or what follows the scheme of
\* the database's URL: nothing required is missing, key and URL of the node
\* serve, the node's chain is the one named, and numbers are within their
\* ranges, by whichever names and with whatever white space they were given.
\* .kiro/specs/sponsorship-platform-mvp/requirements.md:113
PollsOnlyIfChecked == cycle # "none" => Unfit(env) \subseteq Overlooked(env)

\* A worker that ends for its configuration, or for the chain of its node, has a
\* value that is unfit, and in another way than those three: what could do its
\* work is never turned away, and no check is stricter than it must be.
RefusesOnlyUnfitValues ==
  [][LoadFails \/ ChainIsOther => ~(Unfit(env) \subseteq Overlooked(env))]_vars

\* The poller's stop is resolved only when no cycle is left; a running poller
\* has a timer or a cycle and never both; it runs until the signal.
LifecycleInv ==
  /\ TypeOK
  /\ timer => isRunning /\ cycle = "none"
  /\ isRunning => proc = "up"
  /\ cycle # "none" \/ stopping # "none" => proc = "up"
  /\ proc = "up" => (isRunning <=> stopping = "none")
  /\ drained => cycle = "none" /\ stopping # "none"
  /\ stopping = "disconnecting" /\ ~timedOut => drained
=============================================================================
