-------------------------- MODULE SponsorshipTypes --------------------------
(***************************************************************************)
(* The status constants and the transition tables that the API and the     *)
(* worker share (packages/shared/src/sponsorship-types.ts).                *)
(***************************************************************************)

SponsorshipStatus ==
  {"pending", "approved", "rejected", "relayed", "completed", "failed"}

RelayStatus == {"queued", "submitted", "confirmed", "failed"}

\* Seeded fault: the table has no way to give a relayed request up.
TransitionsWithoutFailure ==
  [pending   |-> {"approved", "rejected"},
   approved  |-> {"relayed"},
   relayed   |-> {"completed"},
   rejected  |-> {},
   completed |-> {},
   failed    |-> {}]

\* The statuses a sponsorship request may move to from each status.
VALID_SPONSORSHIP_TRANSITIONS ==
  [pending   |-> {"approved", "rejected"},
   approved  |-> {"relayed"},
   relayed   |-> {"completed", "failed"},
   rejected  |-> {},
   completed |-> {},
   failed    |-> {}]

\* The statuses a relay row may move to from each status.
VALID_RELAY_TRANSITIONS ==
  [queued    |-> {"submitted", "failed"},
   submitted |-> {"confirmed", "failed"},
   confirmed |-> {},
   failed    |-> {}]

\* What the partial unique index of the migration and validateNoPendingRequest
\* call a request that is still in progress.
ActiveStatus == {"pending", "approved", "relayed"}

\* The statuses with no way out.
TerminalStatus == {s \in SponsorshipStatus : VALID_SPONSORSHIP_TRANSITIONS[s] = {}}

\* A relay row that makes the processor skip or shortcut: the idempotency
\* guard of the processor and the NOT EXISTS of the poller's query.
ActiveRelayStatus == {"submitted", "confirmed"}
=============================================================================
