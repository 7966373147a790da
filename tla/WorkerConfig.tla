---------------------------- MODULE WorkerConfig ----------------------------
(***************************************************************************)
(* The checks that the worker's start makes of its environment: the import *)
(* of db.ts, loadConfig of config.ts, the key, the URL and the chain.  A   *)
(* value is what matters of its text:                                      *)
(*   unset, empty, blank   not there, no character, white space only       *)
(*   malformed             not of the format (no http or postgresql        *)
(*                         scheme, no 64 hex digits, no address, no number)*)
(*   unparsable, offCurve, badChecksum                                     *)
(*                         a URL, key or address that has the format only  *)
(*   otherChain            a chain id that is not the one of the node      *)
(*   outOfRange, fraction  numbers                                         *)
(*   ok                    none of these                                   *)
(***************************************************************************)
Addresses == {"CONTRACT_ADDRESS_SPONSOR_VAULT", "CONTRACT_ADDRESS_SPONSORSHIP_REGISTRY"}

Required == {"DATABASE_URL", "CHAIN_RPC_URL", "SPONSOR_PRIVATE_KEY", "CHAIN_ID"} \cup Addresses

Aliases == {"ARC_RPC_URL", "DEPLOYER_PRIVATE_KEY"}

Ranged ==
  {"POLL_INTERVAL_MS", "BATCH_SIZE", "MAX_RETRIES", "LOCK_TIMEOUT_MS", "SHUTDOWN_TIMEOUT_MS",
   "CONFIRMATION_BLOCKS", "TX_TIMEOUT_MS", "CHAIN_ID_VERIFY_TIMEOUT_MS"}

Amount == "SPONSORSHIP_AMOUNT_WEI"

EnvNames == Required \cup Aliases \cup Ranged \cup {Amount}

\* The values of one name: those of any, and the kinds of its own.
ValuesOf(name) ==
  {"unset", "empty", "blank", "malformed", "ok"} \cup
  CASE name \in {"DATABASE_URL", "CHAIN_RPC_URL", "ARC_RPC_URL"} -> {"unparsable"}
    [] name \in {"SPONSOR_PRIVATE_KEY", "DEPLOYER_PRIVATE_KEY"} -> {"offCurve"}
    [] name = "CHAIN_ID" -> {"otherChain"}
    [] name \in Addresses -> {"badChecksum"}
    [] name \in Ranged \cup {Amount} -> {"outOfRange", "fraction"}
    [] OTHER -> {}

IsEnvironment(env) ==
  DOMAIN env = EnvNames /\ \A name \in EnvNames : env[name] \in ValuesOf(name)

\* Seeded fault: a value is not trimmed before it is looked at.
PresentUntrimmed(value) == value \notin {"unset", "empty"}

IsPresent(value) == value \notin {"unset", "empty", "blank"}

Present(value) == IsPresent(value)

\* validateDatabaseUrl, called when the module is imported and so before anything
\* else: present, and of a PostgreSQL scheme, as the text is and untrimmed.
Imports(env) == IsPresent(env["DATABASE_URL"]) /\ env["DATABASE_URL"] # "malformed"

\* A fallback that is there is promoted into the canonical name that is not.
resolveEnv(env, canonical, fallback) ==
  IF ~Present(env[canonical]) /\ Present(env[fallback])
    THEN [env EXCEPT ![canonical] = env[fallback]] ELSE env

Resolved(env) ==
  resolveEnv(resolveEnv(env, "CHAIN_RPC_URL", "ARC_RPC_URL"),
             "SPONSOR_PRIVATE_KEY", "DEPLOYER_PRIVATE_KEY")

Missing(env) == {name \in Required : ~Present(env[name])}

\* The formats are checked of what is left after trimming, and of that only if
\* it is not empty.  The database's URL has had its check at import.
BadFormat(env) == {name \in Required \ {"DATABASE_URL"} : env[name] = "malformed"}

\* An empty value is the default; Number of a blank one is 0, which is in no
\* range.  A fraction is a number like others.
BadNumber(env) == {name \in Ranged : env[name] \in {"malformed", "outOfRange", "blank"}}

\* BigInt takes no fraction; of a blank text it makes 0.
BadAmount(env) ==
  {name \in {Amount} : env[name] \in {"malformed", "outOfRange", "blank", "fraction"}}

ConfigErrors(env) == Missing(env) \cup BadFormat(env) \cup BadNumber(env) \cup BadAmount(env)

\* What start does with the configuration before it asks the node: the key must
\* derive an account, the URL must parse.
Derives(env) == env["SPONSOR_PRIVATE_KEY"] = "ok"
Parses(env)  == env["CHAIN_RPC_URL"] = "ok"

LoadSucceeds(env) ==
  LET e == Resolved(env)
  IN  Imports(env) /\ ConfigErrors(e) = {} /\ Derives(e) /\ Parses(e)

\* verifyChainId, once the node has answered.
ChainMatches(env) == env["CHAIN_ID"] = "ok"

\* The database client reads its URL when it first connects.
Connects(env) == env["DATABASE_URL"] # "unparsable"

-----------------------------------------------------------------------------
\* What the worker needs, whatever the checks above make of it: everything
\* named, by its own name or an alias, and each value such that the code which
\* uses it can; numbers may be left to their defaults.
Fallback == [CHAIN_RPC_URL |-> "ARC_RPC_URL", SPONSOR_PRIVATE_KEY |-> "DEPLOYER_PRIVATE_KEY"]

Effective(env, name) ==
  IF name \in DOMAIN Fallback /\ ~IsPresent(env[name]) THEN env[Fallback[name]] ELSE env[name]

Unfit(env) ==
  {name \in Required : Effective(env, name) # "ok"} \cup
  {name \in Ranged \cup {Amount} : env[name] \notin {"unset", "empty", "ok"}}

Usable(env) == Unfit(env) = {}

\* What no check looks at: a limit that is no integer (which
\* .kiro/specs/real-relay-execution/requirements.md:46 and 47 want refused), an
\* address in mixed case that fails its checksum, what follows the scheme of the
\* database's URL.
Overlooked(env) ==
  {name \in Ranged : env[name] = "fraction"} \cup
  {name \in Addresses : env[name] = "badChecksum"} \cup
  {name \in {"DATABASE_URL"} : env[name] = "unparsable"}
=============================================================================
