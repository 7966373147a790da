---------------------------- MODULE SponsorVault ----------------------------
(***************************************************************************)
(* SponsorVault.sol with its SponsorshipRegistry.sol.  The vault sends     *)
(* value with a plain call, so a recipient with code runs before the       *)
(* vault's function is over and may call the vault again.  A call that     *)
(* fails takes back everything done since it began, by whomever.           *)
(***************************************************************************)
EXTENDS Integers, Sequences

CONSTANTS
  Accounts,    \* addresses that may send a transaction or be paid
  Contracts,   \* those with code: they can call the vault while it calls them
  Owner,       \* msg.sender of the constructor; no function changes it
  Vault, Zero, \* the vault's own address, address(0)
  None,        \* registry not set
  Amounts,     \* values of amount and limit that are tried
  MaxFunds,    \* bound: the balance the vault is funded to
  MaxDepth     \* depth of nested calls (1024 in the EVM)

Addresses == Accounts \cup {Vault, Zero}

\* A registry that knows this vault, or one deployed for another vault.
Registries == {"own", "foreign"}

ASSUME AddressAssumption ==
  /\ Owner \in Accounts /\ Contracts \subseteq Accounts
  /\ Vault \notin Accounts /\ Zero \notin Accounts /\ Vault # Zero
ASSUME VaultNoneAssumption == None \notin Registries
ASSUME AmountAssumption ==
  Amounts \subseteq Nat /\ (\E a \in Amounts : a > 0) /\ MaxFunds \in Nat /\ MaxDepth \in Nat

VARIABLES
  storage, \* what the two contracts store, and the vault's balance
  stack    \* calls under way out of the vault or into a contract, oldest first

vars == <<storage, stack>>

\* sponsorshipCount is the registry's; paid is a history of the sponsorships
\* whose value each address has received.
Storage ==
  [operator : Addresses, limit : Nat, registry : Registries \cup {None},
   balance : Nat, sponsorshipCount : [Addresses -> Nat], paid : [Addresses -> Nat]]

\* entry is the storage a frame returns to when it fails: that before the
\* function that made the call.
Frames == [to : Addresses, entry : Storage]

TypeOK == storage \in Storage /\ stack \in Seq(Frames)

\* The constructor, and a first funding.
Init ==
  /\ \E operator \in Accounts, limit \in {a \in Amounts : a > 0}, funds \in 0..MaxFunds :
       storage = [operator |-> operator, limit |-> limit, registry |-> None,
                  balance |-> funds,
                  sponsorshipCount |-> [a \in Addresses |-> 0],
                  paid |-> [a \in Addresses |-> 0]]
  /\ stack = <<>>

Top == stack[Len(stack)]
Pop == SubSeq(stack, 1, Len(stack) - 1)

\* msg.sender: an account without code in a transaction of its own, or the
\* contract that is being called.
Sender(s) ==
  IF stack = <<>> THEN s \in Accounts \ Contracts ELSE s \in Contracts /\ Top.to = s

\* Value and control pass to an address; funds the vault sends to itself stay.
CallWithValue(to, amount, st) ==
  /\ Len(stack) < MaxDepth
  /\ stack' = Append(stack, [to |-> to, entry |-> storage])
  /\ storage' = [st EXCEPT !.balance = IF to = Vault THEN @ ELSE @ - amount]

\* Somebody sends a transaction to a contract, which then calls the vault.
Invoke(c) ==
  /\ stack = <<>> /\ MaxDepth > 0
  /\ stack' = <<[to |-> c, entry |-> storage]>>
  /\ UNCHANGED storage

\* receive()
Fund(s, amount) ==
  /\ Sender(s) /\ storage.balance + amount <= MaxFunds
  /\ storage' = [storage EXCEPT !.balance = @ + amount]
  /\ UNCHANGED stack

\* Seeded fault: the registry may be set again.
MayInitializeAlways == TRUE

MayInitialize == storage.registry = None

initializeRegistry(s, g) ==
  /\ Sender(s) /\ s = Owner
  /\ MayInitialize
  /\ storage' = [storage EXCEPT !.registry = g]
  /\ UNCHANGED stack

setOperator(s, o) ==
  /\ Sender(s) /\ s = Owner
  /\ o # Zero
  /\ storage' = [storage EXCEPT !.operator = o]
  /\ UNCHANGED stack

setPerTransactionLimit(s, limit) ==
  /\ Sender(s) /\ s = Owner
  /\ limit > 0
  /\ storage' = [storage EXCEPT !.limit = limit]
  /\ UNCHANGED stack

Covered(amount) == amount > 0 /\ storage.balance >= amount

\* Seeded fault: the registry is not asked.
EligibleAlways(r) == r # Zero

EligibleRecipient(r) == r # Zero /\ storage.sponsorshipCount[r] = 0

\* recordSponsorship, and the payment that follows it without anybody between.
Recorded(r) == [storage EXCEPT !.sponsorshipCount[r] = @ + 1, !.paid[r] = @ + 1]

\* A registry of another vault refuses recordSponsorship.
sponsorTransfer(s, r, amount) ==
  /\ Sender(s) /\ s = storage.operator
  /\ storage.registry = "own"
  /\ Covered(amount) /\ amount <= storage.limit
  /\ EligibleRecipient(r)
  /\ CallWithValue(r, amount, Recorded(r))

emergencyWithdraw(s, to, amount) ==
  /\ Sender(s) /\ s = Owner
  /\ to # Zero /\ Covered(amount)
  /\ CallWithValue(to, amount, storage)

\* The callee returns and the function that called it is over.
Return ==
  /\ stack # <<>>
  /\ stack' = Pop
  /\ UNCHANGED storage

\* Seeded fault: the success of the call is not required, so only the payment
\* is taken back and the sponsorship stays recorded.
AfterFailedCallRecorded(f) == [f.entry EXCEPT !.sponsorshipCount = storage.sponsorshipCount]

\* require(success): a failed call fails the whole function.
AfterFailedCall(f) == f.entry

\* The callee throws or runs out of gas.
Fail ==
  /\ stack # <<>>
  /\ stack' = Pop
  /\ storage' = AfterFailedCall(Top)

\* The vault as its own operator, who sends no transaction, is left out.
Next ==
  \/ \E c \in Contracts : Invoke(c)
  \/ \E s \in Accounts :
       \/ \E a \in Amounts : Fund(s, a) \/ setPerTransactionLimit(s, a)
       \/ \E g \in Registries : initializeRegistry(s, g)
       \/ \E o \in Accounts \cup {Zero} : setOperator(s, o)
       \/ \E r \in Addresses, a \in Amounts :
            sponsorTransfer(s, r, a) \/ emergencyWithdraw(s, r, a)
  \/ Return \/ Fail

Spec == Init /\ [][Next]_vars

-----------------------------------------------------------------------------
\* What the chain keeps if the transaction under way fails as a whole.
Committed == IF stack = <<>> THEN storage ELSE stack[1].entry

\* No address is sponsored twice, not even by a recipient (which may be the
\* operator or the owner) that calls the vault while it is being paid.
VaultPaysOnce == \A a \in Addresses : storage.paid[a] <= 1

\* The registry's count and the payments agree at every depth of calls: a
\* sponsorship whose payment failed is not on record, in sponsorTransfer's own
\* frame or in one around it.
RegisteredIsPaid == \A a \in Addresses : storage.sponsorshipCount[a] = storage.paid[a]

\* st keeps the sponsorships and the registry of old.
Keeps(old, st) ==
  /\ \A a \in Addresses : old.sponsorshipCount[a] <= st.sponsorshipCount[a]
  /\ old.registry # None => st.registry = old.registry

\* What one transaction has recorded, no later one takes back: no failing call
\* reaches beyond its own transaction, and the registry, by which all later
\* payments are judged, is set once and for all.
RecordedForGood == [][Keeps(Committed, Committed')]_vars

-----------------------------------------------------------------------------
Sound(st) ==
  \A a \in Addresses : st.sponsorshipCount[a] = st.paid[a] /\ st.paid[a] <= 1

\* The storage is sound, so is every storage a failing call may bring back,
\* and each keeps what the ones below it have recorded.
Accounted ==
  /\ Sound(storage)
  /\ \A i \in 1..Len(stack) :
       /\ Sound(stack[i].entry)
       /\ Keeps(stack[i].entry, storage)
       /\ \A j \in 1..i : Keeps(stack[j].entry, stack[i].entry)

\* The invariant of the two contracts (recordSponsorship, sponsorWallet, revert).
VaultInv == TypeOK /\ Accounted

-----------------------------------------------------------------------------
Promise == INSTANCE SponsoredOnce WITH
             Recipients <- Addresses, payments <- Committed.paid

\* Transaction by transaction, with all that recipients do meanwhile, the vault
\* sponsors nobody a second time and takes nothing back.
ImplementsSponsoredOnce == Promise!Spec
=============================================================================
