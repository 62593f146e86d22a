-------------------------- MODULE KycServiceProofs --------------------------
(***************************************************************************)
(* Theorems about the compliance backend, for every set of wallets,        *)
(* subjects, mints and request slots and any number of restarts.           *)
(***************************************************************************)
EXTENDS KycService, TLAPS

\* Where a request slot stands decides what its target and tasks may be.
SlotsInOrder ==
    \A c \in Calls :
       /\ pc[c] # "idle" => target[c] \in Wallets
       /\ pc[c] # "write" => \A m \in Mints : task[c][m] = "idle"

SlotInv == KycTypeOK /\ SlotsInOrder

LEMMA InitSlotInv == KycInit => SlotInv
  BY KycAssumption DEF KycAssumption, KycInit, SlotInv, KycTypeOK, SlotsInOrder

\* A request slot that changes its place, and frees its target and tasks.
LEMMA FinishSlot ==
    ASSUME SlotInv, NEW c \in Calls, Finish(c)
    PROVE  /\ pc' \in [Calls -> {"idle", "screen", "risk", "write"}]
           /\ target' \in [Calls -> Wallets \cup {NoWallet}]
           /\ task' \in [Calls -> [Mints -> Running \cup Succeeded \cup {"idle", "failed"}]]
           /\ SlotsInOrder'
           /\ pc'[c] = "idle"
           /\ \A d \in Calls \ {c} : pc'[d] = pc[d] /\ target'[d] = target[d] /\ task'[d] = task[d]
  BY DEF SlotInv, KycTypeOK, SlotsInOrder, Finish

\* A task of a request at "write" that moves on to state.
LEMMA GotoSlot ==
    ASSUME SlotInv, NEW c \in Calls, NEW m \in Mints,
           NEW state \in Running \cup Succeeded \cup {"idle", "failed"},
           pc[c] = "write", Goto(c, m, state), UNCHANGED <<pc, target>>
    PROVE  /\ task' \in [Calls -> [Mints -> Running \cup Succeeded \cup {"idle", "failed"}]]
           /\ SlotsInOrder'
           /\ task'[c][m] = state
           /\ \A d \in Calls, k \in Mints :
                 d # c \/ k # m => task'[d][k] = task[d][k]
  BY DEF SlotInv, KycTypeOK, SlotsInOrder, Goto

LEMMA RunningIsWriting ==
    ASSUME SlotInv, NEW c \in Calls, NEW m \in Mints, task[c][m] # "idle"
    PROVE  pc[c] = "write" /\ target[c] \in Wallets
  BY DEF SlotInv, SlotsInOrder

LEMMA RecordStepSlotInv ==
    ASSUME SlotInv, RecordStep
    PROVE  SlotInv'
  <1>1. UNCHANGED <<requests, ledger, restarts>>
    BY DEF RecordStep, registerFromEntra, submitKyc, rejectWallet, KytScore
  <1>2. ASSUME NEW w \in Wallets, NEW s \in Subjects, registerFromEntra(w, s)
        PROVE  KycTypeOK'
    BY <1>1, <1>2 DEF SlotInv, KycTypeOK, registerFromEntra, requests, ledger
  <1>3. ASSUME NEW w \in Wallets, NEW s \in Officers \cup {NoSub}, submitKyc(w, s)
        PROVE  KycTypeOK'
    BY <1>1, <1>3 DEF SlotInv, KycTypeOK, submitKyc, requests, ledger, Subjects
  <1>4. ASSUME NEW w \in Wallets, rejectWallet(w) \/ KytScore(w)
        PROVE  KycTypeOK'
    BY <1>1, <1>4 DEF SlotInv, KycTypeOK, rejectWallet, KytScore, requests, ledger, store
  <1>5. KycTypeOK'
    BY <1>2, <1>3, <1>4 DEF RecordStep
  <1>6. QED
    BY <1>1, <1>5 DEF SlotInv, SlotsInOrder, requests

LEMMA ApproveSlotInv ==
    ASSUME SlotInv, NEW c \in Calls, NEW w \in Wallets, approveWallet(c, w)
    PROVE  SlotInv'
  BY DEF SlotInv, KycTypeOK, SlotsInOrder, approveWallet, store, ledger

LEMMA ScreenSlotInv ==
    ASSUME SlotInv, NEW c \in Calls, screenWallet(c)
    PROVE  SlotInv'
  <1>1. screened' \subseteq Wallets
    BY DEF screenWallet, SlotInv, KycTypeOK, SlotsInOrder
  <1>2. CASE Finish(c)
    BY <1>1, <1>2, FinishSlot DEF screenWallet, SlotInv, KycTypeOK, store, ledger
  <1>3. CASE pc' = [pc EXCEPT ![c] = "risk"] /\ UNCHANGED <<target, task>>
    BY <1>1, <1>3 DEF screenWallet, SlotInv, KycTypeOK, SlotsInOrder, store, ledger
  <1>4. QED
    BY <1>2, <1>3 DEF screenWallet

LEMMA CheckSlotInv ==
    ASSUME SlotInv, NEW c \in Calls, checkWallet(c)
    PROVE  SlotInv'
  <1>1. CASE Finish(c)
    BY <1>1, FinishSlot DEF checkWallet, SlotInv, KycTypeOK, store, ledger
  <1>2. CASE /\ pc' = [pc EXCEPT ![c] = "write"]
             /\ task' = [task EXCEPT ![c] = [m \in Mints |-> "read"]]
             /\ UNCHANGED target
    <2>1. task' \in [Calls -> [Mints -> Running \cup Succeeded \cup {"idle", "failed"}]]
      BY <1>2 DEF SlotInv, KycTypeOK, Running
    <2>2. QED
      BY <1>2, <2>1 DEF checkWallet, SlotInv, KycTypeOK, SlotsInOrder, store, ledger
  <1>3. QED
    BY <1>1, <1>2 DEF checkWallet

\* The step a task takes, and what it leaves alone.
LEMMA TaskSlotInv ==
    ASSUME SlotInv, NEW c \in Calls, NEW m \in Mints,
           \/ ReadEntry(c, m) \/ SendViaGovernor(c, m) \/ SendDirect(c, m)
           \/ Confirm(c, m) \/ RpcThrows(c, m)
    PROVE  SlotInv'
  <1> DEFINE States == Running \cup Succeeded \cup {"idle", "failed"}
  <1>1. PICK state \in States : Goto(c, m, state)
    BY DEF ReadEntry, SendViaGovernor, SendDirect, Confirm, RpcThrows, Running, Succeeded
  <1>2. pc[c] = "write" /\ target[c] \in Wallets
    BY RunningIsWriting DEF ReadEntry, SendViaGovernor, SendDirect, Confirm, RpcThrows,
       Running, Sent
  <1>3. UNCHANGED <<store, screened, pc, target, activated, restarts>>
    BY DEF ReadEntry, SendViaGovernor, SendDirect, Confirm, RpcThrows, ledger
  <1>4. listed' \in [Wallets -> SUBSET Mints]
    BY <1>2 DEF ReadEntry, SendViaGovernor, SendDirect, Confirm, RpcThrows, ledger, Execute,
       SlotInv, KycTypeOK
  <1>5. TxOf(c, m) \in Txs
    BY <1>2 DEF TxOf, Txs, RouteOf, Routes
  <1>6. adrift' \subseteq Txs
    BY <1>5 DEF ReadEntry, SendViaGovernor, SendDirect, Confirm, RpcThrows, ledger,
       SlotInv, KycTypeOK
  <1>7. task' \in [Calls -> [Mints -> States]] /\ SlotsInOrder'
    BY <1>1, <1>2, <1>3, GotoSlot
  <1>8. QED
    BY <1>3, <1>4, <1>6, <1>7 DEF SlotInv, KycTypeOK, store

LEMMA CompleteSlotInv ==
    ASSUME SlotInv, NEW c \in Calls, CompleteApproval(c)
    PROVE  SlotInv'
  <1>1. target[c] \in Wallets /\ task[c] \in [Mints -> Succeeded]
    BY DEF CompleteApproval, SlotInv, SlotsInOrder, KycTypeOK
  <1>2. /\ status' \in [Wallets -> {"none", "pending", "approved", "rejected"}]
        /\ results' \in [Wallets -> [Mints -> Succeeded \cup {"none"}]]
    BY <1>1 DEF CompleteApproval, SlotInv, KycTypeOK
  <1>3. QED
    BY <1>2, FinishSlot DEF CompleteApproval, SlotInv, KycTypeOK, ledger

LEMMA AbandonSlotInv ==
    ASSUME SlotInv, NEW c \in Calls, AbandonApproval(c)
    PROVE  SlotInv'
  BY FinishSlot DEF AbandonApproval, SlotInv, KycTypeOK, store, ledger

LEMMA CallStepSlotInv ==
    ASSUME SlotInv, NEW c \in Calls, CallStep(c)
    PROVE  SlotInv'
  BY ApproveSlotInv, ScreenSlotInv, CheckSlotInv, TaskSlotInv, CompleteSlotInv,
     AbandonSlotInv DEF CallStep

LEMMA LedgerStepSlotInv ==
    ASSUME SlotInv, LedgerStep
    PROVE  SlotInv'
  <1>1. ASSUME NEW tx \in adrift, Land(tx)
        PROVE  SlotInv'
    <2>1. tx.wallet \in Wallets /\ tx.mint \in Mints
      BY DEF SlotInv, KycTypeOK, Txs
    <2>2. listed' \in [Wallets -> SUBSET Mints]
      BY <1>1, <2>1 DEF Land, Execute, SlotInv, KycTypeOK
    <2>3. QED
      BY <1>1, <2>2 DEF Land, SlotInv, KycTypeOK, SlotsInOrder, store, requests
  <1>2. ASSUME NEW m \in Mints, ActivateWrapping(m)
        PROVE  SlotInv'
    BY <1>2 DEF ActivateWrapping, SlotInv, KycTypeOK, SlotsInOrder, store, requests
  <1>3. QED
    BY <1>1, <1>2 DEF LedgerStep

LEMMA RestartSlotInv ==
    ASSUME SlotInv, Restart
    PROVE  SlotInv'
  BY KycAssumption DEF KycAssumption, Restart, SlotInv, KycTypeOK, SlotsInOrder

LEMMA NextSlotInv == SlotInv /\ [KycNext]_kycVars => SlotInv'
  <1>1. ASSUME SlotInv, UNCHANGED kycVars
        PROVE  SlotInv'
    BY <1>1 DEF kycVars, SlotInv, KycTypeOK, SlotsInOrder
  <1>2. QED
    BY <1>1, RecordStepSlotInv, CallStepSlotInv, LedgerStepSlotInv, RestartSlotInv DEF KycNext

\* Type correctness of the backend's store, requests and transactions.
THEOREM KycTypeCorrect == KycSpec => []KycTypeOK
  <1>1. SlotInv => KycTypeOK
    BY DEF SlotInv
  <1>2. QED
    BY InitSlotInv, NextSlotInv, <1>1, PTL DEF KycSpec

-----------------------------------------------------------------------------
(* Identities *)

\* Only a wallet with a record is linked.
LinkedHasRecord == \A w \in Wallets : status[w] = "none" => sub[w] = NoSub

IdentityInv == SlotInv /\ LinkedHasRecord /\ OneWalletPerIdentity

LEMMA InitIdentityInv == KycInit => IdentityInv
  BY InitSlotInv DEF IdentityInv, KycInit, LinkedHasRecord, OneWalletPerIdentity

\* Linking an unlinked wallet to a subject no other wallet has.
LEMMA LinkKeepsOneWallet ==
    ASSUME IdentityInv, NEW w \in Wallets, NEW s, s # NoSub => ~LinkedElsewhere(w, s),
           sub' = [sub EXCEPT ![w] = s]
    PROVE  OneWalletPerIdentity'
  BY DEF IdentityInv, SlotInv, KycTypeOK, LinkedElsewhere, OneWalletPerIdentity

LEMMA RecordStepIdentity ==
    ASSUME IdentityInv, RecordStep
    PROVE  /\ LinkedHasRecord' /\ OneWalletPerIdentity'
           /\ \A w \in Wallets : sub[w] # NoSub => sub'[w] = sub[w]
  <1>1. ASSUME NEW w \in Wallets, NEW s \in Subjects, registerFromEntra(w, s)
        PROVE  /\ LinkedHasRecord' /\ OneWalletPerIdentity'
               /\ \A v \in Wallets : sub[v] # NoSub => sub'[v] = sub[v]
    <2>1. OneWalletPerIdentity'
      BY <1>1, LinkKeepsOneWallet DEF registerFromEntra
    <2>2. QED
      BY <1>1, <2>1 DEF registerFromEntra, IdentityInv, SlotInv, KycTypeOK, LinkedHasRecord
  <1>2. ASSUME NEW w \in Wallets, NEW s \in Officers \cup {NoSub}, submitKyc(w, s)
        PROVE  /\ LinkedHasRecord' /\ OneWalletPerIdentity'
               /\ \A v \in Wallets : sub[v] # NoSub => sub'[v] = sub[v]
    <2>1. OneWalletPerIdentity'
      BY <1>2, LinkKeepsOneWallet DEF submitKyc
    <2>2. QED
      BY <1>2, <2>1 DEF submitKyc, IdentityInv, SlotInv, KycTypeOK, LinkedHasRecord
  <1>3. ASSUME NEW w \in Wallets, rejectWallet(w) \/ KytScore(w)
        PROVE  /\ LinkedHasRecord' /\ OneWalletPerIdentity'
               /\ \A v \in Wallets : sub[v] # NoSub => sub'[v] = sub[v]
    BY <1>3 DEF rejectWallet, KytScore, store, IdentityInv, SlotInv, KycTypeOK,
                LinkedHasRecord, OneWalletPerIdentity
  <1>4. QED
    BY <1>1, <1>2, <1>3 DEF RecordStep

\* Requests and the ledger leave identities alone and never remove a record.
LEMMA OtherStepIdentity ==
    ASSUME IdentityInv, LedgerStep \/ (\E c \in Calls : CallStep(c)) \/ UNCHANGED kycVars
    PROVE  /\ LinkedHasRecord' /\ OneWalletPerIdentity'
           /\ \A w \in Wallets : sub[w] # NoSub => sub'[w] = sub[w]
  <1>1. sub' = sub
    BY DEF LedgerStep, Land, ActivateWrapping, CallStep, approveWallet, screenWallet,
       checkWallet, ReadEntry, SendViaGovernor, SendDirect, Confirm, RpcThrows,
       CompleteApproval, AbandonApproval, store, kycVars
  <1>2. ASSUME NEW c \in Calls, CompleteApproval(c)
        PROVE  \A w \in Wallets : status'[w] = "none" => status[w] = "none"
    BY <1>2 DEF CompleteApproval, IdentityInv, SlotInv, KycTypeOK
  <1>3. \A w \in Wallets : status'[w] = "none" => status[w] = "none"
    BY <1>2 DEF LedgerStep, Land, ActivateWrapping, CallStep, approveWallet, screenWallet,
       checkWallet, ReadEntry, SendViaGovernor, SendDirect, Confirm, RpcThrows,
       AbandonApproval, store, kycVars
  <1>4. QED
    BY <1>1, <1>3 DEF IdentityInv, LinkedHasRecord, OneWalletPerIdentity

LEMMA NextIdentityInv ==
    IdentityInv /\ [KycNext]_kycVars =>
       /\ IdentityInv'
       /\ restarts' = restarts => \A w \in Wallets : sub[w] # NoSub => sub'[w] = sub[w]
  <1> SUFFICES ASSUME IdentityInv, [KycNext]_kycVars
               PROVE  /\ IdentityInv'
                      /\ restarts' = restarts =>
                            \A w \in Wallets : sub[w] # NoSub => sub'[w] = sub[w]
    OBVIOUS
  <1>1. SlotInv'
    BY NextSlotInv DEF IdentityInv
  <1>2. ASSUME Restart
        PROVE  LinkedHasRecord' /\ OneWalletPerIdentity' /\ restarts' # restarts
    BY <1>2 DEF Restart, LinkedHasRecord, OneWalletPerIdentity, IdentityInv, SlotInv, KycTypeOK
  <1>3. QED
    BY <1>1, <1>2, RecordStepIdentity, OtherStepIdentity DEF KycNext, IdentityInv

\* One Entra identity, one wallet.
THEOREM OneWalletPerIdentityCorrect == KycSpec => []OneWalletPerIdentity
  <1>1. IdentityInv => OneWalletPerIdentity
    BY DEF IdentityInv
  <1>2. QED
    BY InitIdentityInv, NextIdentityInv, <1>1, PTL DEF KycSpec

\* A linked wallet keeps its identity until the service restarts.
THEOREM IdentityIsKeptCorrect == KycSpec => IdentityIsKept
  <1>1. IdentityInv /\ [KycNext]_kycVars =>
        [\A w \in Wallets :
          sub[w] # NoSub /\ restarts' = restarts => sub'[w] = sub[w]]_kycVars
    BY NextIdentityInv
  <1>2. QED
    BY InitIdentityInv, NextIdentityInv, <1>1, PTL DEF KycSpec, IdentityIsKept

-----------------------------------------------------------------------------
(* Vetting *)

\* What may still reach the ledger concerns wallets the risk check passed.
OnlyVetted ==
    /\ \A c \in Calls : pc[c] = "write" => target[c] \notin Sanctioned
    /\ \A tx \in adrift : tx.wallet \notin Sanctioned

VettingInv == SlotInv /\ OnlyVetted /\ SanctionedIsNeverListed

LEMMA ExecuteVetted ==
    ASSUME VettingInv, NEW m, NEW w \in Wallets \ Sanctioned, NEW route,
           Execute(m, w, route)
    PROVE  SanctionedIsNeverListed'
  BY KycAssumption DEF KycAssumption, VettingInv, SlotInv, KycTypeOK, Execute,
     SanctionedIsNeverListed

LEMMA TaskVetted ==
    ASSUME VettingInv, NEW c \in Calls, NEW m \in Mints,
           \/ ReadEntry(c, m) \/ SendViaGovernor(c, m) \/ SendDirect(c, m)
           \/ Confirm(c, m) \/ RpcThrows(c, m)
    PROVE  OnlyVetted' /\ SanctionedIsNeverListed'
  <1>1. pc[c] = "write" /\ target[c] \in Wallets \ Sanctioned
    BY RunningIsWriting DEF VettingInv, OnlyVetted, ReadEntry, SendViaGovernor,
       SendDirect, Confirm, RpcThrows, Running, Sent
  <1>2. UNCHANGED <<pc, target>>
    BY DEF ReadEntry, SendViaGovernor, SendDirect, Confirm, RpcThrows
  <1>3. adrift' = adrift \/ adrift' = adrift \cup {TxOf(c, m)}
    BY DEF ReadEntry, SendViaGovernor, SendDirect, Confirm, RpcThrows, ledger
  <1>4. OnlyVetted'
    BY <1>1, <1>2, <1>3 DEF VettingInv, OnlyVetted, TxOf
  <1>5. CASE listed' = listed
    BY <1>4, <1>5 DEF VettingInv, SanctionedIsNeverListed
  <1>6. CASE Confirm(c, m)
    BY <1>1, <1>4, <1>6, ExecuteVetted DEF Confirm
  <1>7. QED
    BY <1>5, <1>6 DEF ReadEntry, SendViaGovernor, SendDirect, RpcThrows, ledger

LEMMA CallStepVetted ==
    ASSUME VettingInv, NEW c \in Calls, CallStep(c)
    PROVE  OnlyVetted' /\ SanctionedIsNeverListed'
  <1>1. ASSUME NEW w \in Wallets, approveWallet(c, w)
        PROVE  OnlyVetted' /\ SanctionedIsNeverListed'
    BY <1>1 DEF approveWallet, ledger, VettingInv, OnlyVetted, SanctionedIsNeverListed,
                SlotInv, KycTypeOK
  <1>2. ASSUME screenWallet(c) \/ checkWallet(c) \/ CompleteApproval(c) \/ AbandonApproval(c),
               Finish(c)
        PROVE  OnlyVetted' /\ SanctionedIsNeverListed'
    <2>1. UNCHANGED ledger
      BY <1>2 DEF screenWallet, checkWallet, CompleteApproval, AbandonApproval
    <2>2. QED
      BY <1>2, <2>1, FinishSlot
         DEF ledger, VettingInv, OnlyVetted, SanctionedIsNeverListed
  <1>3. ASSUME screenWallet(c) \/ checkWallet(c), ~Finish(c)
        PROVE  OnlyVetted' /\ SanctionedIsNeverListed'
    BY <1>3 DEF screenWallet, checkWallet, RiskPasses, ledger, VettingInv, OnlyVetted,
                SanctionedIsNeverListed, SlotInv, KycTypeOK
  <1>4. QED
    BY <1>1, <1>2, <1>3, TaskVetted DEF CallStep, CompleteApproval, AbandonApproval

LEMMA NextVettingInv == VettingInv /\ [KycNext]_kycVars => VettingInv'
  <1> SUFFICES ASSUME VettingInv, [KycNext]_kycVars
               PROVE  VettingInv'
    OBVIOUS
  <1>1. SlotInv /\ SlotInv'
    BY NextSlotInv DEF VettingInv
  <1>2. ASSUME RecordStep \/ UNCHANGED kycVars \/ \E m \in Mints : ActivateWrapping(m)
        PROVE  OnlyVetted' /\ SanctionedIsNeverListed'
    <2>1. UNCHANGED <<pc, target, adrift, listed>>
      BY <1>2 DEF RecordStep, registerFromEntra, submitKyc, rejectWallet, KytScore,
         kycVars, ActivateWrapping, requests, ledger
    <2>2. QED
      BY <2>1 DEF VettingInv, OnlyVetted, SanctionedIsNeverListed
  <1>3. ASSUME NEW tx \in adrift, Land(tx)
        PROVE  OnlyVetted' /\ SanctionedIsNeverListed'
    <2>1. tx.wallet \in Wallets \ Sanctioned
      BY <1>1 DEF SlotInv, KycTypeOK, Txs, VettingInv, OnlyVetted
    <2>2. SanctionedIsNeverListed'
      BY <1>3, <2>1, ExecuteVetted DEF Land
    <2>3. QED
      BY <1>3, <2>2 DEF Land, requests, VettingInv, OnlyVetted
  <1>4. ASSUME Restart
        PROVE  OnlyVetted' /\ SanctionedIsNeverListed'
    <2>1. \A c \in Calls, m \in Mints : task[c][m] \in Sent => target[c] \notin Sanctioned
      BY <1>1, RunningIsWriting DEF VettingInv, OnlyVetted, Sent
    <2>2. \A tx \in adrift' : tx.wallet \notin Sanctioned
      BY <1>4, <2>1 DEF Restart, VettingInv, OnlyVetted, TxOf
    <2>3. QED
      BY <1>4, <2>2 DEF Restart, VettingInv, OnlyVetted, SanctionedIsNeverListed
  <1>5. QED
    BY <1>1, <1>2, <1>3, <1>4, CallStepVetted DEF KycNext, LedgerStep, VettingInv

\* The sanctions list holds on the ledger: neither a generous screening
\* provider nor a transaction that outlives its request or the process gets a
\* listed wallet past it.
THEOREM SanctionedIsNeverListedCorrect == KycSpec => []SanctionedIsNeverListed
  <1>1. KycInit => VettingInv
    BY InitSlotInv, KycAssumption DEF KycAssumption, KycInit, VettingInv, OnlyVetted,
       SanctionedIsNeverListed
  <1>2. VettingInv => SanctionedIsNeverListed
    BY DEF VettingInv
  <1>3. QED
    BY <1>1, NextVettingInv, <1>2, PTL DEF KycSpec

-----------------------------------------------------------------------------
(* What an approval leaves behind *)

\* w has its entry for m, or the pool of m was activated.
Covered(w, m) == m \in listed[w] \/ m \in activated

\* A transaction was sent by way of the pool only if the pool was activated,
\* and a task that succeeded has covered its mint.
TasksCovered ==
    \A c \in Calls, m \in Mints :
       /\ task[c][m] = "via_sent" => m \in activated
       /\ task[c][m] \in Succeeded => Covered(target[c], m)

\* Past the screening the wallet has a screening record.
TargetsScreened == \A c \in Calls : pc[c] \in {"risk", "write"} => target[c] \in screened

ApprovalInv ==
    SlotInv /\ TasksCovered /\ TargetsScreened
      /\ ApprovedMissesOnlyActivated /\ AuditReportIsComplete

LEMMA InitApprovalInv == KycInit => ApprovalInv
  <1> SUFFICES ASSUME KycInit PROVE ApprovalInv
    OBVIOUS
  <1>1. SlotInv
    BY InitSlotInv
  <1>2. TasksCovered /\ TargetsScreened
    BY DEF KycInit, TasksCovered, TargetsScreened, Succeeded
  <1>3. ApprovedMissesOnlyActivated /\ AuditReportIsComplete
    BY DEF KycInit, ApprovedMissesOnlyActivated, AuditReportIsComplete
  <1>4. QED
    BY <1>1, <1>2, <1>3 DEF ApprovalInv

\* Entries and activations are never taken back.
LEMMA LedgerGrows ==
    ASSUME SlotInv, [KycNext]_kycVars, NEW w \in Wallets
    PROVE  listed[w] \subseteq listed'[w] /\ activated \subseteq activated'
  <1>1. ASSUME NEW m, NEW v, NEW route, Execute(m, v, route)
        PROVE  listed[w] \subseteq listed'[w]
    BY <1>1 DEF Execute, SlotInv, KycTypeOK
  <1>2. listed[w] \subseteq listed'[w]
    BY <1>1 DEF KycNext, RecordStep, registerFromEntra, submitKyc, rejectWallet, KytScore,
       CallStep, approveWallet, screenWallet, checkWallet, ReadEntry, SendViaGovernor,
       SendDirect, Confirm, RpcThrows, CompleteApproval, AbandonApproval,
       LedgerStep, Land, ActivateWrapping, Restart, ledger, kycVars
  <1>3. activated \subseteq activated'
    BY DEF KycNext, RecordStep, registerFromEntra, submitKyc, rejectWallet, KytScore,
       CallStep, approveWallet, screenWallet, checkWallet, ReadEntry, SendViaGovernor,
       SendDirect, Confirm, RpcThrows, CompleteApproval, AbandonApproval,
       LedgerStep, Land, ActivateWrapping, Restart, ledger, kycVars
  <1>4. QED
    BY <1>2, <1>3

\* Once the ledger has executed a whitelisting of w for m, m is covered: if it
\* failed, either the entry was there or the pool had been activated.
LEMMA ExecuteCovers ==
    ASSUME SlotInv, NEW w \in Wallets, NEW m \in Mints, NEW route \in Routes,
           route = "via" => m \in activated,
           Execute(m, w, route), activated' = activated
    PROVE  Covered(w, m)'
  BY DEF SlotInv, KycTypeOK, Execute, Executes, Covered, Routes

LEMMA TaskCovered ==
    ASSUME ApprovalInv, NEW c \in Calls, NEW m \in Mints, [KycNext]_kycVars,
           \/ ReadEntry(c, m) \/ SendViaGovernor(c, m) \/ SendDirect(c, m)
           \/ Confirm(c, m) \/ RpcThrows(c, m)
    PROVE  TasksCovered'
  <1> DEFINE Good(d, k) == /\ task[d][k] = "via_sent" => k \in activated
                           /\ task[d][k] \in Succeeded => Covered(target[d], k)
  <1>1. SlotInv /\ SlotInv' /\ pc[c] = "write" /\ target[c] \in Wallets
    BY NextSlotInv, RunningIsWriting DEF ApprovalInv, ReadEntry, SendViaGovernor,
       SendDirect, Confirm, RpcThrows, Running, Sent
  <1>2. UNCHANGED <<pc, target, activated>>
    BY DEF ReadEntry, SendViaGovernor, SendDirect, Confirm, RpcThrows, ledger
  <1>3. PICK state \in Running \cup Succeeded \cup {"idle", "failed"} : Goto(c, m, state)
    BY DEF ReadEntry, SendViaGovernor, SendDirect, Confirm, RpcThrows, Running, Succeeded
  <1>4. task'[c][m] = state
    BY <1>1, <1>2, <1>3, GotoSlot
  <1>5. Good(c, m)'
    <2>1. CASE ReadEntry(c, m)
      <3>1. task'[c][m] = (IF m \in listed[target[c]] THEN "already_whitelisted" ELSE "via")
        BY <1>1, <2>1 DEF ReadEntry, Goto, SlotInv, KycTypeOK
      <3>2. listed' = listed
        BY <2>1 DEF ReadEntry, ledger
      <3>3. QED
        BY <1>2, <3>1, <3>2 DEF Covered, Succeeded
    <2>2. CASE SendViaGovernor(c, m)
      <3>1. task'[c][m] = (IF Executes(m, target[c], "via") THEN "via_sent" ELSE "direct")
        BY <1>1, <2>2 DEF SendViaGovernor, Goto, SlotInv, KycTypeOK
      <3>2. QED
        BY <1>2, <3>1 DEF Executes, Succeeded
    <2>3. CASE SendDirect(c, m)
      <3>1. task'[c][m] \in {"direct_sent", "failed"}
        BY <1>1, <2>3 DEF SendDirect, Goto, SlotInv, KycTypeOK
      <3>2. QED
        BY <3>1 DEF Succeeded
    <2>4. CASE Confirm(c, m)
      <3>1. task'[c][m] = "signed"
        BY <1>1, <2>4 DEF Confirm, Goto, SlotInv, KycTypeOK
      <3>2. RouteOf(task[c][m]) = "via" => m \in activated
        BY <2>4 DEF Confirm, Sent, RouteOf, ApprovalInv, TasksCovered
      <3>3. Covered(target[c], m)'
        BY <1>1, <1>2, <2>4, <3>2, ExecuteCovers DEF Confirm, RouteOf, Routes, Covered
      <3>4. QED
        BY <3>1, <3>3
    <2>5. CASE RpcThrows(c, m)
      <3>1. task'[c][m] \in {"direct", "failed"}
        BY <1>1, <2>5 DEF RpcThrows, Goto, SlotInv, KycTypeOK
      <3>2. QED
        BY <3>1 DEF Succeeded
    <2>6. QED
      BY <2>1, <2>2, <2>3, <2>4, <2>5
  <1>6. ASSUME NEW d \in Calls, NEW k \in Mints, d # c \/ k # m
        PROVE  Good(d, k)'
    <2>1. task'[d][k] = task[d][k] /\ target'[d] = target[d]
      BY <1>1, <1>2, <1>3, <1>6, GotoSlot
    <2>2. task[d][k] \in Succeeded => target[d] \in Wallets
      BY <1>1, RunningIsWriting DEF Succeeded
    <2>3. QED
      BY <1>1, <1>2, <2>1, <2>2, LedgerGrows DEF ApprovalInv, TasksCovered, Covered
  <1>7. QED
    BY <1>5, <1>6 DEF TasksCovered

\* A step that starts no task and leaves the running ones where they are.
LEMMA OtherCovered ==
    ASSUME ApprovalInv, [KycNext]_kycVars,
           \A d \in Calls, k \in Mints :
              \/ task'[d][k] = task[d][k] /\ target'[d] = target[d]
              \/ task'[d][k] \in {"idle", "read"}
    PROVE  TasksCovered'
  <1>1. SlotInv
    BY DEF ApprovalInv
  <1>2. ASSUME NEW d \in Calls, NEW k \in Mints, task'[d][k] \in Succeeded
        PROVE  Covered(target[d], k)' /\ target'[d] = target[d]
    <2>1. task'[d][k] = task[d][k] /\ target'[d] = target[d]
      BY <1>2 DEF Succeeded
    <2>2. target[d] \in Wallets /\ Covered(target[d], k)
      BY <1>1, <1>2, <2>1, RunningIsWriting DEF Succeeded, ApprovalInv, TasksCovered
    <2>3. QED
      BY <1>1, <2>1, <2>2, LedgerGrows DEF Covered
  <1>3. ASSUME NEW d \in Calls, NEW k \in Mints, task'[d][k] = "via_sent"
        PROVE  k \in activated'
    BY <1>3 DEF ApprovalInv, TasksCovered, KycNext, RecordStep, registerFromEntra,
       submitKyc, rejectWallet, KytScore,
       CallStep, approveWallet, screenWallet, checkWallet, ReadEntry, SendViaGovernor,
       SendDirect, Confirm, RpcThrows, CompleteApproval, AbandonApproval,
       LedgerStep, Land, ActivateWrapping, Restart, ledger, kycVars
  <1>4. QED
    BY <1>2, <1>3 DEF TasksCovered, Covered

LEMMA NextTasksCovered ==
    ASSUME ApprovalInv, [KycNext]_kycVars
    PROVE  TasksCovered'
  <1>1. ASSUME RecordStep \/ LedgerStep \/ UNCHANGED kycVars
        PROVE  TasksCovered'
    <2>1. UNCHANGED <<task, target>>
      BY <1>1 DEF RecordStep, registerFromEntra, submitKyc, rejectWallet, KytScore,
                  LedgerStep, Land, ActivateWrapping, kycVars, requests
    <2>2. QED
      BY <2>1, OtherCovered
  <1>2. ASSUME Restart
        PROVE  TasksCovered'
    <2>1. \A d \in Calls, k \in Mints : task'[d][k] = "idle"
      BY <1>2 DEF Restart
    <2>2. QED
      BY <2>1, OtherCovered
  <1>3. ASSUME NEW c \in Calls, CallStep(c)
        PROVE  TasksCovered'
    <2>1. ASSUME NEW w \in Wallets, approveWallet(c, w)
          PROVE  TasksCovered'
      <3>1. \A d \in Calls, k \in Mints :
               \/ task'[d][k] = task[d][k] /\ target'[d] = target[d]
               \/ task'[d][k] \in {"idle", "read"}
        BY <2>1 DEF approveWallet, ApprovalInv, SlotInv, SlotsInOrder, KycTypeOK
      <3>2. QED
        BY <3>1, OtherCovered
    <2>2. ASSUME Finish(c)
          PROVE  TasksCovered'
      <3>1. \A d \in Calls, k \in Mints :
               \/ task'[d][k] = task[d][k] /\ target'[d] = target[d]
               \/ task'[d][k] \in {"idle", "read"}
        BY <2>2 DEF Finish, ApprovalInv, SlotInv, KycTypeOK
      <3>2. QED
        BY <3>1, OtherCovered
    <2>3. ASSUME screenWallet(c) \/ checkWallet(c), ~Finish(c)
          PROVE  TasksCovered'
      <3>1. \A d \in Calls, k \in Mints :
               \/ task'[d][k] = task[d][k] /\ target'[d] = target[d]
               \/ task'[d][k] \in {"idle", "read"}
        BY <2>3 DEF screenWallet, checkWallet, ApprovalInv, SlotInv, KycTypeOK
      <3>2. QED
        BY <3>1, OtherCovered
    <2>4. QED
      BY <1>3, <2>1, <2>2, <2>3, TaskCovered DEF CallStep, CompleteApproval, AbandonApproval
  <1>4. QED
    BY <1>1, <1>2, <1>3 DEF KycNext

LEMMA NextTargetsScreened ==
    ASSUME ApprovalInv, [KycNext]_kycVars
    PROVE  TargetsScreened'
  <1> USE DEF ApprovalInv, SlotInv, KycTypeOK, TargetsScreened
  <1>1. ASSUME Restart
        PROVE  TargetsScreened'
    BY <1>1 DEF Restart
  <1>3. ASSUME RecordStep \/ LedgerStep \/ UNCHANGED kycVars
        PROVE  TargetsScreened'
    <2>1. UNCHANGED <<pc, target>> /\ screened \subseteq screened'
      BY <1>3 DEF RecordStep, registerFromEntra, submitKyc, rejectWallet, KytScore,
                  LedgerStep, Land, ActivateWrapping, kycVars, requests
    <2>2. QED
      BY <2>1
  <1>4. ASSUME NEW c \in Calls, CallStep(c)
        PROVE  TargetsScreened'
    <2>1. ASSUME NEW w \in Wallets, approveWallet(c, w)
          PROVE  TargetsScreened'
      BY <2>1 DEF approveWallet
    <2>2. ASSUME screenWallet(c)
          PROVE  TargetsScreened'
      BY <2>2 DEF screenWallet, Finish
    <2>3. ASSUME checkWallet(c) \/ CompleteApproval(c) \/ AbandonApproval(c)
          PROVE  TargetsScreened'
      BY <2>3 DEF checkWallet, CompleteApproval, AbandonApproval, Finish
    <2>4. ASSUME NEW m \in Mints,
                 \/ ReadEntry(c, m) \/ SendViaGovernor(c, m) \/ SendDirect(c, m)
                 \/ Confirm(c, m) \/ RpcThrows(c, m)
          PROVE  TargetsScreened'
      BY <2>4 DEF ReadEntry, SendViaGovernor, SendDirect, Confirm, RpcThrows
    <2>5. QED
      BY <1>4, <2>1, <2>2, <2>3, <2>4 DEF CallStep
  <1>5. QED
    BY <1>1, <1>3, <1>4 DEF KycNext

\* The one step that approves, and what it finds.
LEMMA CompleteApproved ==
    ASSUME ApprovalInv, NEW c \in Calls, CompleteApproval(c)
    PROVE  ApprovedMissesOnlyActivated' /\ AuditReportIsComplete'
  <1>1. target[c] \in Wallets /\ target[c] \in screened
    BY DEF ApprovalInv, SlotInv, SlotsInOrder, TargetsScreened, CompleteApproval
  <1>2. UNCHANGED <<listed, activated, screened>>
    BY DEF CompleteApproval, ledger
  <1>3. \A m \in Mints : Covered(target[c], m)
    BY DEF ApprovalInv, TasksCovered, CompleteApproval
  <1>4. ApprovedMissesOnlyActivated'
    BY <1>1, <1>2, <1>3 DEF CompleteApproval, ApprovalInv, SlotInv, KycTypeOK, Covered,
       ApprovedMissesOnlyActivated
  <1>5. \A m \in Mints : results'[target[c]][m] # "none"
    BY <1>1 DEF CompleteApproval, ApprovalInv, SlotInv, KycTypeOK, Succeeded
  <1>6. \A w \in Wallets \ {target[c]} :
           status'[w] = status[w] /\ results'[w] = results[w]
    BY DEF CompleteApproval, ApprovalInv, SlotInv, KycTypeOK
  <1>7. AuditReportIsComplete'
    BY <1>1, <1>2, <1>5, <1>6 DEF ApprovalInv, AuditReportIsComplete
  <1>8. QED
    BY <1>4, <1>7

LEMMA NextApproved ==
    ASSUME ApprovalInv, [KycNext]_kycVars
    PROVE  ApprovedMissesOnlyActivated' /\ AuditReportIsComplete'
  <1>1. SlotInv
    BY DEF ApprovalInv
  <1>2. ASSUME Restart
        PROVE  ApprovedMissesOnlyActivated' /\ AuditReportIsComplete'
    BY <1>2 DEF Restart, ApprovedMissesOnlyActivated, AuditReportIsComplete
  <1>3. ASSUME ~Restart, \A c \in Calls : ~CompleteApproval(c)
        PROVE  ApprovedMissesOnlyActivated' /\ AuditReportIsComplete'
    <2>1. results' = results /\ screened \subseteq screened'
      BY <1>1, <1>3 DEF KycNext, RecordStep, registerFromEntra, submitKyc, rejectWallet, KytScore,
         CallStep, approveWallet, screenWallet, checkWallet, ReadEntry, SendViaGovernor,
         SendDirect, Confirm, RpcThrows, AbandonApproval,
         LedgerStep, Land, ActivateWrapping, kycVars, store
    <2>2. ASSUME RecordStep, NEW w \in Wallets, status'[w] = "approved"
          PROVE  status[w] = "approved"
      BY <1>1, <2>2 DEF RecordStep, registerFromEntra, submitKyc, rejectWallet, KytScore,
         store, SlotInv, KycTypeOK
    <2>3. \A w \in Wallets : status'[w] = "approved" => status[w] = "approved"
      BY <1>3, <2>2 DEF KycNext,
         CallStep, approveWallet, screenWallet, checkWallet, ReadEntry, SendViaGovernor,
         SendDirect, Confirm, RpcThrows, AbandonApproval,
         LedgerStep, Land, ActivateWrapping, kycVars, store
    <2>4. QED
      BY <1>1, <2>1, <2>3, LedgerGrows
         DEF ApprovalInv, ApprovedMissesOnlyActivated, AuditReportIsComplete
  <1>4. QED
    BY <1>2, <1>3, CompleteApproved

LEMMA ApprovalInvCorrect == KycSpec => []ApprovalInv
  <1>1. ApprovalInv /\ [KycNext]_kycVars => ApprovalInv'
    BY NextSlotInv, NextTasksCovered, NextTargetsScreened, NextApproved DEF ApprovalInv
  <1>2. QED
    BY InitApprovalInv, <1>1, PTL DEF KycSpec

\* Whatever goes wrong on the way, an approved wallet misses no entry but that
\* of a mint whose pool was activated.
THEOREM ApprovedMissesOnlyActivatedCorrect == KycSpec => []ApprovedMissesOnlyActivated
  <1>1. ApprovalInv => ApprovedMissesOnlyActivated
    BY DEF ApprovalInv
  <1>2. QED
    BY ApprovalInvCorrect, <1>1, PTL

\* The audit report of an approved wallet is complete.
THEOREM AuditReportIsCompleteCorrect == KycSpec => []AuditReportIsComplete
  <1>1. ApprovalInv => AuditReportIsComplete
    BY DEF ApprovalInv
  <1>2. QED
    BY ApprovalInvCorrect, <1>1, PTL
=============================================================================
