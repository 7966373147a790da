------------------------ MODULE SponsorVaultProofs ------------------------
(***************************************************************************)
(* The vault pays each address once, and records it for good, for every    *)
(* set of accounts and every depth of calls.                               *)
(***************************************************************************)
EXTENDS SponsorVault, SequenceTheorems, TLAPS

\* What a storage records is kept by itself and along a chain of storages.
LEMMA KeepsReflexive ==
  ASSUME NEW st \in Storage
  PROVE  Keeps(st, st)
BY DEF Keeps, Storage

LEMMA KeepsTransitive ==
  ASSUME NEW a \in Storage, NEW b \in Storage, NEW c \in Storage, Keeps(a, b), Keeps(b, c)
  PROVE  Keeps(a, c)
BY DEF Keeps, Storage

\* A frame can bring back a storage only.
LEMMA FrameType ==
  ASSUME TypeOK
  PROVE  /\ Len(stack) \in Nat /\ storage \in Storage
         /\ \A i \in 1..Len(stack) : stack[i] \in Frames /\ stack[i].entry \in Storage
<1>1. ASSUME NEW f \in Frames
      PROVE  f.entry \in Storage
  BY DEF Frames
<1>2. stack \in Seq(Frames) /\ storage \in Storage
  BY DEF TypeOK
<1> HIDE DEF Frames, Storage
<1>3. \A i \in 1..Len(stack) : stack[i] \in Frames
  BY <1>2, ElementOfSeq
<1> QED
  BY <1>1, <1>2, <1>3, LenProperties

\* A prefix of a sequence.
LEMMA PrefixProperties ==
  ASSUME NEW S, NEW s \in Seq(S), NEW n \in Nat, n <= Len(s)
  PROVE  /\ SubSeq(s, 1, n) \in Seq(S) /\ Len(SubSeq(s, 1, n)) = n
         /\ \A i \in 1..n : SubSeq(s, 1, n)[i] = s[i]
<1>1. \A i \in 1..n : s[i] \in S
  BY ElementOfSeq, LenProperties
<1>2. SubSeq(s, 1, n) \in Seq(S)
  BY <1>1, SubSeqProperties
<1>3. Len(SubSeq(s, 1, n)) = n
  BY SMT
<1>4. \A i \in 1..n : SubSeq(s, 1, n)[i] = s[i]
  BY SMT
<1> QED
  BY <1>2, <1>3, <1>4

\* What is left of the stack when its newest frame is gone.
LEMMA PopProperties ==
  ASSUME TypeOK, stack # <<>>
  PROVE  /\ Len(stack) \in Nat \ {0}
         /\ Pop \in Seq(Frames) /\ Len(Pop) = Len(stack) - 1
         /\ \A i \in 1..(Len(stack) - 1) : Pop[i] = stack[i]
<1>1. stack \in Seq(Frames) /\ Len(stack) \in Nat \ {0}
  BY EmptySeq DEF TypeOK
<1>2. Len(stack) - 1 \in Nat /\ Len(stack) - 1 <= Len(stack)
  BY <1>1
<1> QED
  BY <1>1, <1>2, PrefixProperties DEF Pop

\* Three kinds of step: one that stays in its frame, one that opens a frame,
\* one that closes the newest.
Local ==
  /\ storage' \in Storage /\ Sound(storage') /\ Keeps(storage, storage')
  /\ stack' = stack

Opens ==
  /\ storage' \in Storage /\ Sound(storage') /\ Keeps(storage, storage')
  /\ \E to \in Addresses : stack' = Append(stack, [to |-> to, entry |-> storage])

Closes ==
  /\ stack # <<>> /\ stack' = Pop
  /\ storage' = storage \/ storage' = Top.entry

\* A frame is opened or left by every step of the vault in one of those ways.
LEMMA CallIsOpening ==
  ASSUME TypeOK, NEW to \in Addresses, NEW amount \in Nat, NEW st \in Storage,
         amount <= st.balance, Sound(st), Keeps(storage, st),
         CallWithValue(to, amount, st)
  PROVE  Opens
<1> DEFINE n == IF to = Vault THEN st.balance ELSE st.balance - amount
<1>1. n \in Nat
  BY DEF Storage
<1>2. storage' = [st EXCEPT !.balance = n]
  BY DEF CallWithValue
<1>3. storage' \in Storage
  BY <1>1, <1>2 DEF Storage
<1>4. /\ storage'.sponsorshipCount = st.sponsorshipCount
      /\ storage'.paid = st.paid /\ storage'.registry = st.registry
  BY <1>2 DEF Storage
<1>5. Sound(storage') /\ Keeps(storage, storage')
  BY <1>4 DEF Sound, Keeps
<1> QED
  BY <1>3, <1>5 DEF Opens, CallWithValue

LEMMA StepKinds ==
  ASSUME VaultInv, Next
  PROVE  Local \/ Opens \/ Closes
<1> USE DEF VaultInv
<1>0. storage \in Storage /\ Sound(storage) /\ Amounts \subseteq Nat
  BY AmountAssumption DEF TypeOK, Accounted
<1>1. ASSUME NEW c \in Contracts, Invoke(c)
      PROVE  Opens
  <2>1. c \in Addresses
    BY AddressAssumption DEF Addresses
  <2>2. stack' = Append(stack, [to |-> c, entry |-> storage])
    BY <1>1 DEF Invoke
  <2> QED
    BY <1>0, <1>1, <2>1, <2>2, KeepsReflexive DEF Opens, Invoke
<1>2. ASSUME NEW s \in Accounts, NEW a \in Amounts,
             Fund(s, a) \/ setPerTransactionLimit(s, a)
      PROVE  Local
  BY <1>0, <1>2 DEF Fund, setPerTransactionLimit, Local, Storage, Sound, Keeps
<1>3. ASSUME NEW s \in Accounts, NEW g \in Registries, initializeRegistry(s, g)
      PROVE  Local
  <2>1. storage' = [storage EXCEPT !.registry = g] /\ storage.registry = None
    BY <1>3 DEF initializeRegistry, MayInitialize
  <2> QED
    BY <1>0, <1>3, <2>1 DEF initializeRegistry, Local, Storage, Sound, Keeps
<1>4. ASSUME NEW s \in Accounts, NEW o \in Addresses, setOperator(s, o)
      PROVE  Local
  BY <1>0, <1>4 DEF setOperator, Local, Storage, Sound, Keeps
<1>5. ASSUME NEW s \in Accounts, NEW r \in Addresses, NEW a \in Amounts,
             sponsorTransfer(s, r, a)
      PROVE  Opens
  <2>1. /\ a <= storage.balance /\ storage.sponsorshipCount[r] = 0
        /\ CallWithValue(r, a, Recorded(r))
    BY <1>0, <1>5 DEF sponsorTransfer, Covered, EligibleRecipient, Storage
  <2>2. storage.paid[r] = 0
    BY <1>0, <2>1 DEF Sound
  <2> DEFINE count == [storage.sponsorshipCount EXCEPT ![r] = @ + 1]
             paid == [storage.paid EXCEPT ![r] = @ + 1]
  <2>3. Recorded(r) = [storage EXCEPT !.sponsorshipCount = count, !.paid = paid]
    BY DEF Recorded
  <2>4. count \in [Addresses -> Nat] /\ paid \in [Addresses -> Nat]
    BY <1>0 DEF Storage
  <2>5. Recorded(r) \in Storage
    BY <1>0, <2>3, <2>4 DEF Storage
  <2>6. /\ Recorded(r).sponsorshipCount = count /\ Recorded(r).paid = paid
        /\ Recorded(r).balance = storage.balance /\ Recorded(r).registry = storage.registry
    BY <1>0, <2>3 DEF Storage
  <2>7. Sound(Recorded(r))
    BY <1>0, <2>1, <2>2, <2>6 DEF Sound, Storage
  <2>8. Keeps(storage, Recorded(r))
    BY <1>0, <2>6 DEF Keeps, Storage
  <2> QED
    BY <1>0, <2>1, <2>5, <2>6, <2>7, <2>8, CallIsOpening
<1>6. ASSUME NEW s \in Accounts, NEW to \in Addresses, NEW a \in Amounts,
             emergencyWithdraw(s, to, a)
      PROVE  Opens
  <2>1. a <= storage.balance /\ CallWithValue(to, a, storage)
    BY <1>0, <1>6 DEF emergencyWithdraw, Covered, Storage
  <2> QED
    BY <1>0, <2>1, KeepsReflexive, CallIsOpening
<1>7. CASE Return \/ Fail
  BY <1>7 DEF Return, Fail, AfterFailedCall, Closes
<1> QED
  BY <1>1, <1>2, <1>3, <1>4, <1>5, <1>6, <1>7 DEF Next, Addresses

-----------------------------------------------------------------------------
(* The invariant is kept by each kind of step.                              *)

LEMMA InvInit == Init => VaultInv
<1> SUFFICES ASSUME Init PROVE VaultInv
  OBVIOUS
<1>1. PICK operator \in Accounts, limit \in {a \in Amounts : a > 0}, funds \in 0..MaxFunds :
        storage = [operator |-> operator, limit |-> limit, registry |-> None,
                   balance |-> funds,
                   sponsorshipCount |-> [a \in Addresses |-> 0],
                   paid |-> [a \in Addresses |-> 0]]
  BY DEF Init
<1>2. storage \in Storage /\ Sound(storage)
  BY <1>1, AmountAssumption DEF Storage, Sound, Addresses
<1> QED
  BY <1>2 DEF Init, VaultInv, TypeOK, Accounted

LEMMA LocalKeeps ==
  ASSUME VaultInv, Local
  PROVE  VaultInv'
<1> USE DEF VaultInv, Local
<1>1. TypeOK'
  BY DEF TypeOK
<1>2. ASSUME NEW i \in 1..Len(stack)
      PROVE  Keeps(stack[i].entry, storage')
  <2>1. stack[i].entry \in Storage /\ storage \in Storage
    BY FrameType
  <2> QED
    BY <2>1, KeepsTransitive DEF Accounted
<1> QED
  BY <1>1, <1>2 DEF Accounted

LEMMA OpensKeeps ==
  ASSUME VaultInv, Opens
  PROVE  VaultInv'
<1> USE DEF VaultInv
<1>1. PICK to \in Addresses : stack' = Append(stack, [to |-> to, entry |-> storage])
  BY DEF Opens
<1> DEFINE n == Len(stack)
<1>2. /\ stack \in Seq(Frames) /\ n \in Nat /\ storage \in Storage
      /\ [to |-> to, entry |-> storage] \in Frames
  BY DEF TypeOK, Frames
<1>3. stack' \in Seq(Frames) /\ Len(stack') = n + 1
  BY <1>1, <1>2
<1>4. /\ \A i \in 1..n : stack'[i] = stack[i]
      /\ stack'[n + 1] = [to |-> to, entry |-> storage]
  BY <1>1, <1>2
<1>5. TypeOK'
  BY <1>3 DEF TypeOK, Opens
<1>6. \A i \in 1..n : stack[i].entry \in Storage
  BY FrameType
<1>7. ASSUME NEW i \in 1..n
      PROVE  Keeps(stack[i].entry, storage')
  BY <1>2, <1>6, KeepsTransitive DEF Accounted, Opens
<1>8. ASSUME NEW i \in 1..(n + 1)
      PROVE  /\ Sound(stack'[i].entry)
             /\ Keeps(stack'[i].entry, storage')
             /\ \A j \in 1..i : Keeps(stack'[j].entry, stack'[i].entry)
  <2>1. CASE i \in 1..n
    <3>1. \A j \in 1..i : j \in 1..n
      BY <2>1, <1>2
    <3> QED
      BY <2>1, <3>1, <1>4, <1>7 DEF Accounted
  <2>2. CASE i = n + 1
    <3>1. stack'[i].entry = storage
      BY <2>2, <1>4
    <3>2. Keeps(storage, storage)
      BY <1>2, KeepsReflexive
    <3>3. ASSUME NEW j \in 1..i
          PROVE  Keeps(stack'[j].entry, storage)
      <4>1. j \in 1..n \/ j = i
        BY <2>2, <1>2
      <4> QED
        BY <4>1, <1>4, <3>1, <3>2 DEF Accounted
    <3> QED
      BY <3>1, <3>3 DEF Accounted, Opens
  <2> QED
    BY <2>1, <2>2, <1>2
<1> QED
  BY <1>3, <1>5, <1>8 DEF Accounted, Opens

LEMMA ClosesKeeps ==
  ASSUME VaultInv, Closes
  PROVE  /\ VaultInv'
         /\ Keeps(stack[1].entry, storage')
<1> USE DEF VaultInv
<1> DEFINE n == Len(stack)
<1>1. TypeOK /\ Accounted /\ stack # <<>> /\ stack' = Pop
  BY DEF Closes
<1>2. /\ n \in Nat \ {0} /\ stack' \in Seq(Frames) /\ Len(stack') = n - 1
      /\ \A i \in 1..(n - 1) : stack'[i] = stack[i]
  BY <1>1, PopProperties
<1>3. storage' = storage \/ storage' = stack[n].entry
  BY DEF Closes, Top
<1>4. storage' \in Storage /\ Sound(storage')
  <2>1. n \in 1..n
    BY <1>2
  <2> QED
    BY <1>1, <1>3, <2>1, FrameType DEF Accounted
<1>5. \A i \in 1..n : Keeps(stack[i].entry, storage')
  BY <1>1, <1>2, <1>3 DEF Accounted
<1>6. \A i \in 1..(n - 1) : i \in 1..n /\ \A j \in 1..i : j \in 1..(n - 1)
  BY <1>2
<1>7. TypeOK'
  BY <1>2, <1>4 DEF TypeOK
<1>8. ASSUME NEW i \in 1..(n - 1)
      PROVE  /\ Sound(stack'[i].entry)
             /\ Keeps(stack'[i].entry, storage')
             /\ \A j \in 1..i : Keeps(stack'[j].entry, stack'[i].entry)
  <2>1. stack'[i] = stack[i] /\ \A j \in 1..i : stack'[j] = stack[j]
    BY <1>2, <1>6
  <2> QED
    BY <1>1, <1>5, <1>6, <2>1 DEF Accounted
<1>9. Accounted'
  BY <1>2, <1>4, <1>8 DEF Accounted
<1> QED
  BY <1>2, <1>5, <1>7, <1>9

LEMMA InvStep == VaultInv /\ [Next]_vars => VaultInv'
<1> SUFFICES ASSUME VaultInv, [Next]_vars PROVE VaultInv'
  OBVIOUS
<1>1. CASE Next
  BY <1>1, StepKinds, LocalKeeps, OpensKeeps, ClosesKeeps
<1>2. CASE UNCHANGED vars
  BY <1>2 DEF vars, VaultInv, TypeOK, Accounted
<1> QED
  BY <1>1, <1>2

-----------------------------------------------------------------------------
\* The types, and the invariant that every storage a failing call may bring
\* back is as sound as the present one.
THEOREM VaultInvariant == Spec => []VaultInv
  BY InvInit, InvStep, PTL DEF Spec

\* sponsorTransfer pays no address twice, whatever the recipients call while
\* they are being paid.
THEOREM VaultNeverPaysTwice == Spec => []VaultPaysOnce
<1>1. VaultInv => VaultPaysOnce
  BY DEF VaultInv, Accounted, VaultPaysOnce, Sound
<1> QED
  BY <1>1, VaultInvariant, PTL

\* The registry's record and the payments agree in every state.
THEOREM RegistryIsTruthful == Spec => []RegisteredIsPaid
<1>1. VaultInv => RegisteredIsPaid
  BY DEF VaultInv, Accounted, RegisteredIsPaid, Sound
<1> QED
  BY <1>1, VaultInvariant, PTL

\* What would be left is a storage, and a sound one.
LEMMA CommittedIsSound ==
  ASSUME VaultInv
  PROVE  Committed \in Storage /\ Sound(Committed)
<1>1. stack \in Seq(Frames) /\ Len(stack) \in Nat
  BY DEF VaultInv, TypeOK
<1>2. stack # <<>> => 1 \in 1..Len(stack)
  BY <1>1, EmptySeq
<1>3. /\ storage \in Storage /\ Sound(storage)
      /\ \A i \in 1..Len(stack) : stack[i].entry \in Storage /\ Sound(stack[i].entry)
  BY FrameType DEF VaultInv, Accounted
<1> QED
  BY <1>2, <1>3 DEF Committed

LEMMA CommittedStep ==
  ASSUME VaultInv, [Next]_vars
  PROVE  Keeps(Committed, Committed')
<1> DEFINE n == Len(stack)
<1>1. /\ stack \in Seq(Frames) /\ n \in Nat /\ storage \in Storage
      /\ \A i \in 1..n : stack[i].entry \in Storage
  BY FrameType DEF VaultInv, TypeOK
<1>2. Committed \in Storage
  BY CommittedIsSound
<1>3. Keeps(Committed, Committed)
  BY <1>2, KeepsReflexive
<1>4. CASE UNCHANGED vars
  BY <1>3, <1>4 DEF vars, Committed
<1>5. CASE Local
  BY <1>3, <1>5 DEF Local, Committed
<1>6. CASE Opens
  <2>1. PICK to \in Addresses : stack' = Append(stack, [to |-> to, entry |-> storage])
    BY <1>6 DEF Opens
  <2>2. stack' # <<>> /\ stack'[1] = IF stack = <<>> THEN [to |-> to, entry |-> storage]
                                                     ELSE stack[1]
    BY <2>1, <1>1
  <2> QED
    BY <2>2, <1>3 DEF Committed
<1>7. CASE Closes
  <2>1. Keeps(stack[1].entry, storage')
    BY <1>7, ClosesKeeps
  <2>2. /\ n \in Nat \ {0} /\ stack' \in Seq(Frames) /\ Len(stack') = n - 1
        /\ stack # <<>>
        /\ \A i \in 1..(n - 1) : stack'[i] = stack[i]
    BY <1>7, PopProperties DEF Closes, VaultInv
  <2>3. CASE n = 1
    <3>1. stack' = <<>>
      BY <2>2, <2>3, EmptySeq
    <3> QED
      BY <3>1, <2>1, <2>2 DEF Committed
  <2>4. CASE n > 1
    <3>1. stack' # <<>>
      BY <2>2, <2>4
    <3>2. stack'[1] = stack[1]
      BY <2>2, <2>4
    <3> QED
      BY <3>1, <3>2, <2>2, <1>3 DEF Committed
  <2> QED
    BY <2>2, <2>3, <2>4
<1> QED
  BY <1>4, <1>5, <1>6, <1>7, StepKinds

\* No transaction takes back what an earlier one has recorded, and the
\* registry is set once.
THEOREM RecordsStay == Spec => RecordedForGood
<1>1. VaultInv /\ [Next]_vars => [Keeps(Committed, Committed')]_vars
  BY CommittedStep
<1> QED
  BY <1>1, VaultInvariant, PTL DEF VaultInv, Spec, RecordedForGood

-----------------------------------------------------------------------------
(* The vault implements SponsoredOnce.                                      *)

LEMMA PromiseInit == Init => Promise!Init
<1> SUFFICES ASSUME Init PROVE Promise!Init
  OBVIOUS
<1>1. Committed.paid = [a \in Addresses |-> 0]
  BY DEF Init, Committed
<1> QED
  BY <1>1 DEF Promise!Init

\* Payments are sound before and after a step, and none is lost: the step has
\* sponsored those whose number went from zero to one.
LEMMA PromiseStep ==
  ASSUME VaultInv, VaultInv', [Next]_vars
  PROVE  [Promise!Next]_(Committed.paid)
<1> DEFINE old == Committed.paid
           new == Committed'.paid
           S   == {a \in Addresses : old[a] = 0 /\ new[a] = 1}
<1>1. /\ Committed \in Storage /\ Sound(Committed)
      /\ Committed' \in Storage /\ Sound(Committed')
  <2>1. Committed \in Storage /\ Sound(Committed)
    BY CommittedIsSound
  <2>2. (Committed \in Storage /\ Sound(Committed))'
    BY CommittedIsSound, PTL
  <2> QED
    BY <2>1, <2>2 DEF Sound
<1>2. /\ old \in [Addresses -> Nat] /\ new \in [Addresses -> Nat]
      /\ \A a \in Addresses : old[a] <= 1 /\ new[a] <= 1
  BY <1>1 DEF Storage, Sound
<1>3. \A a \in Addresses : old[a] <= new[a]
  BY <1>1, CommittedStep DEF Keeps, Sound
<1> HIDE DEF old, new
<1>4. \A a \in Addresses : new[a] = IF a \in S THEN 1 ELSE old[a]
  BY <1>2, <1>3
<1>5. new = [a \in Addresses |-> IF a \in S THEN 1 ELSE old[a]]
  BY <1>2, <1>4
<1>6. S \in SUBSET Addresses /\ \A a \in S : old[a] = 0
  OBVIOUS
<1> HIDE DEF S
<1>7. Promise!Sponsor(S)
  BY <1>5, <1>6 DEF Promise!Sponsor, old, new
<1> QED
  BY <1>6, <1>7 DEF Promise!Next

\* Transaction by transaction, however deep its calls and whichever of them
\* fail, the vault does what SponsoredOnce says.
THEOREM VaultRefinement == Spec => ImplementsSponsoredOnce
<1>1. VaultInv /\ VaultInv' /\ [Next]_vars => [Promise!Next]_(Committed.paid)
  BY PromiseStep
<1> QED
  BY <1>1, PromiseInit, VaultInvariant, PTL DEF Spec, ImplementsSponsoredOnce, Promise!Spec
=============================================================================
