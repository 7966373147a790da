------------------------ MODULE MCSponsorshipRelay ------------------------
(***************************************************************************)
(* Instances of SponsorshipRelay for TLC.                                  *)
(***************************************************************************)
EXTENDS SponsorshipRefinement, SponsorshipClaims,
  SponsorshipRelayInvariant, TLC

CONSTANTS w1, w2, r1, r2

\* One request.
LoneOwner == r1 :> w1

\* One wallet that submits twice.
OneOwner == r1 :> w1 @@ r2 :> w1

\* Two wallets, one request each.
TwoOwners == r1 :> w1 @@ r2 :> w2

\* Workers, handlers and calls are interchangeable: no definition tells one
\* from another.  Used for safety only.
Symmetry == Permutations(Workers) \cup Permutations(Handlers) \cup Permutations(TxIds)

\* States that differ in the handlers' answers or in sponsorshipCount alone are
\* one state: no action reads the former, only the bound of Register the latter,
\* and the properties of the run that uses this view compare sponsorshipCount with
\* its next value at most.
WithoutOutputs ==
  <<status, relays, blocked, chainVars, workerVars, hpc, hwallet, hseen, faults>>
=============================================================================
