------------------------- MODULE MCWorkerLifecycle -------------------------
(* An instance of WorkerLifecycle for TLC: three environments that are fit,   *)
(* and those that differ from the first in one value that is not, for one     *)
(* name of each kind and every value it may have.                             *)
EXTENDS WorkerLifecycle

Optional == Ranged \cup {Amount}

\* Everything by its own name, the limits by default.
Plain == [name \in EnvNames |-> IF name \in Aliases \cup Optional THEN "unset" ELSE "ok"]

\* By the aliases, every limit given.
Aliased ==
  [name \in EnvNames |->
     IF name \in {"CHAIN_RPC_URL", "SPONSOR_PRIVATE_KEY"} THEN "blank" ELSE "ok"]

\* Empty limits, and aliases that nothing looks at.
Odd ==
  [name \in EnvNames |->
     CASE name \in Optional -> "empty"
       [] name \in Aliases  -> "malformed"
       [] OTHER -> "ok"]

\* One name of each kind.
Kinds ==
  {"DATABASE_URL", "CHAIN_RPC_URL", "SPONSOR_PRIVATE_KEY", "CHAIN_ID",
   "CONTRACT_ADDRESS_SPONSOR_VAULT", "BATCH_SIZE", Amount}

Unusable ==
  {e \in UNION {{[Plain EXCEPT ![name] = value] : value \in ValuesOf(name)} : name \in Kinds} :
     ~Usable(e)}

MCEnvironments ==
  {Plain, Aliased, Odd} \cup Unusable \cup {[Aliased EXCEPT !["DEPLOYER_PRIVATE_KEY"] = "offCurve"]}
=============================================================================
