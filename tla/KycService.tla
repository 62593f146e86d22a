----------------------------- MODULE KycService -----------------------------
(***************************************************************************)
(* The compliance backend: the KYC records of its in-memory store, the     *)
(* requests that create, approve and reject them, and the whitelist        *)
(* transactions an approval sends, one per configured mint.  The service   *)
(* is one event loop: code between two awaits is atomic, and requests,     *)
(* the per-mint tasks of Promise.all and the ledger interleave at every    *)
(* await.  A restart loses the records and the requests, never the ledger. *)
(***************************************************************************)
EXTENDS Naturals, FiniteSets

CONSTANTS Wallets,      \* wallet addresses of customers
          Customers,    \* Entra subjects without the VaultAdmin role
          Officers,     \* Entra subjects with it
          NoSub,        \* no entraSubjectId
          NoWallet,     \* what a free request slot approves
          Mints,        \* WRAPPED_MINT_ADDRESSES
          Calls,        \* slots for approve requests in progress
          Sanctioned,   \* config.ofacMockList
          MaxRestarts   \* bound on the restarts of the service

ASSUME KycAssumption ==
    /\ Customers \cap Officers = {}
    /\ NoSub \notin Customers \cup Officers
    /\ NoWallet \notin Wallets
    /\ Sanctioned \subseteq Wallets
    /\ MaxRestarts \in Nat

VARIABLES
    status,     \* wallet -> KycRecord.status, "none" without a record
    sub,        \* wallet -> KycRecord.entraSubjectId
    results,    \* wallet -> mint -> what whitelistResults holds for it
    screened,   \* the wallets with a KytRecord
    pc,         \* call -> where its approveWallet stands
    target,     \* call -> the wallet it approves
    task,       \* call -> mint -> where its _addToWhitelistForMint stands
    adrift,     \* transactions sent that may execute and that nobody awaits
    listed,     \* wallet -> the mints whose whitelist has an entry for it
    activated,  \* the mints whose authority is a governor pool
    restarts

store == <<status, sub, results>>
requests == <<pc, target, task>>
ledger == <<adrift, listed, activated>>
kycVars == <<status, sub, results, screened, pc, target, task, adrift, listed,
             activated, restarts>>

Subjects == Customers \cup Officers
Running == {"read", "via", "via_sent", "direct", "direct_sent"}
Succeeded == {"signed", "already_whitelisted"}
Routes == {"via", "direct"}
Txs == [mint : Mints, wallet : Wallets, route : Routes]

KycTypeOK ==
    /\ status \in [Wallets -> {"none", "pending", "approved", "rejected"}]
    /\ sub \in [Wallets -> Subjects \cup {NoSub}]
    /\ results \in [Wallets -> [Mints -> Succeeded \cup {"none"}]]
    /\ screened \subseteq Wallets
    /\ pc \in [Calls -> {"idle", "screen", "risk", "write"}]
    /\ target \in [Calls -> Wallets \cup {NoWallet}]
    /\ task \in [Calls -> [Mints -> Running \cup Succeeded \cup {"idle", "failed"}]]
    /\ adrift \subseteq Txs
    /\ listed \in [Wallets -> SUBSET Mints]
    /\ activated \subseteq Mints
    /\ restarts \in 0 .. MaxRestarts

-----------------------------------------------------------------------------
(* Records *)

Mutant_LinkedElsewhere_Never(w, s) == FALSE

\* findByEntraSub finds another wallet's record.
LinkedElsewhere(w, s) == \E v \in Wallets \ {w} : sub[v] = s

\* Creates the record, or links a record that has no subject yet; a wallet
\* that is linked already is returned as it is or refused.
registerFromEntra(w, s) ==
    /\ sub[w] = NoSub
    /\ ~LinkedElsewhere(w, s)
    /\ sub' = [sub EXCEPT ![w] = s]
    /\ status' = [status EXCEPT ![w] = IF @ = "none" THEN "pending" ELSE @]
    /\ UNCHANGED <<results, screened, requests, ledger, restarts>>

Mutant_submitKyc_Again(w, s) ==
    /\ s # NoSub => ~LinkedElsewhere(w, s)
    /\ status' = [status EXCEPT ![w] = "pending"]
    /\ sub' = [sub EXCEPT ![w] = s]
    /\ UNCHANGED <<results, screened, requests, ledger, restarts>>

\* The route passes the subject of the officer who calls it; a caller of the
\* service may pass none.
submitKyc(w, s) ==
    /\ status[w] = "none"
    /\ s # NoSub => ~LinkedElsewhere(w, s)
    /\ status' = [status EXCEPT ![w] = "pending"]
    /\ sub' = [sub EXCEPT ![w] = s]
    /\ UNCHANGED <<results, screened, requests, ledger, restarts>>

\* Whatever approval is in progress, and without touching the ledger.
rejectWallet(w) ==
    /\ status[w] \in {"pending", "approved"}
    /\ status' = [status EXCEPT ![w] = "rejected"]
    /\ UNCHANGED <<sub, results, screened, requests, ledger, restarts>>

-----------------------------------------------------------------------------
(* approveWallet, up to the ledger *)

approveWallet(c, w) ==
    /\ pc[c] = "idle"
    /\ status[w] \in {"pending", "rejected"}
    /\ pc' = [pc EXCEPT ![c] = "screen"]
    /\ target' = [target EXCEPT ![c] = w]
    /\ UNCHANGED <<store, screened, task, ledger, restarts>>

Mutant_Finish_KeepsPlace(c) ==
    /\ target' = [target EXCEPT ![c] = NoWallet]
    /\ task' = [task EXCEPT ![c] = [m \in Mints |-> "idle"]]
    /\ UNCHANGED pc

\* The request ends and its slot is free.
Finish(c) ==
    /\ pc' = [pc EXCEPT ![c] = "idle"]
    /\ target' = [target EXCEPT ![c] = NoWallet]
    /\ task' = [task EXCEPT ![c] = [m \in Mints |-> "idle"]]

\* The provider answers and the service keeps the answer; LOW and MEDIUM go
\* on, HIGH ends the request.
screenWallet(c) ==
    /\ pc[c] = "screen"
    /\ screened' = screened \cup {target[c]}
    /\ \/ pc' = [pc EXCEPT ![c] = "risk"] /\ UNCHANGED <<target, task>>
       \/ Finish(c)
    /\ UNCHANGED <<store, ledger, restarts>>

\* Anyone can ask for a fresh screening, which replaces the record.
KytScore(w) ==
    /\ screened' = screened \cup {w}
    /\ UNCHANGED <<store, requests, ledger, restarts>>

Mutant_RiskPasses_Always(w) == TRUE

\* Approvals are checked with an amount of 0 against exposures that are all 0:
\* of the three guards only the sanctions list can fail.
RiskPasses(w) == w \notin Sanctioned

checkWallet(c) ==
    /\ pc[c] = "risk"
    /\ IF RiskPasses(target[c])
       THEN /\ pc' = [pc EXCEPT ![c] = "write"]
            /\ task' = [task EXCEPT ![c] = [m \in Mints |-> "read"]]
            /\ UNCHANGED target
       ELSE Finish(c)
    /\ UNCHANGED <<store, screened, ledger, restarts>>

-----------------------------------------------------------------------------
(* addToWhitelist: one task per mint *)

Goto(c, m, state) == task' = [task EXCEPT ![c][m] = state]

\* Would the ledger execute a whitelisting of w for m by this route now?
Executes(m, w, route) ==
    /\ m \notin listed[w]
    /\ (route = "via") <=> (m \in activated)

ReadEntry(c, m) ==
    /\ task[c][m] = "read"
    /\ Goto(c, m, IF m \in listed[target[c]] THEN "already_whitelisted" ELSE "via")
    /\ UNCHANGED <<store, screened, pc, target, ledger, restarts>>

\* sendTx up to sendRawTransaction: the node simulates the transaction first
\* and refuses what would fail.  A task that has sent awaits its confirmation.
SendViaGovernor(c, m) ==
    /\ task[c][m] = "via"
    /\ Goto(c, m, IF Executes(m, target[c], "via") THEN "via_sent" ELSE "direct")
    /\ UNCHANGED <<store, screened, pc, target, ledger, restarts>>

SendDirect(c, m) ==
    /\ task[c][m] = "direct"
    /\ Goto(c, m, IF Executes(m, target[c], "direct") THEN "direct_sent" ELSE "failed")
    /\ UNCHANGED <<store, screened, pc, target, ledger, restarts>>

\* What the ledger does with a transaction: it may fail by now.
Execute(m, w, route) ==
    listed' = IF Executes(m, w, route)
              THEN [listed EXCEPT ![w] = @ \cup {m}]
              ELSE listed

Sent == {"via_sent", "direct_sent"}
RouteOf(state) == IF state \in {"via", "via_sent"} THEN "via" ELSE "direct"
TxOf(c, m) == [mint |-> m, wallet |-> target[c], route |-> RouteOf(task[c][m])]

Mutant_Confirm_BeforeExecution(c, m) ==
    /\ task[c][m] \in Sent
    /\ Goto(c, m, "signed")
    /\ adrift' = adrift \cup {TxOf(c, m)}
    /\ UNCHANGED <<store, screened, pc, target, listed, activated, restarts>>

\* The transaction is executed and confirmed: confirmTransaction resolves
\* whether it succeeded or failed, and its value.err is not looked at.
Confirm(c, m) ==
    /\ task[c][m] \in Sent
    /\ Execute(m, target[c], RouteOf(task[c][m]))
    /\ Goto(c, m, "signed")
    /\ UNCHANGED <<store, screened, pc, target, adrift, activated, restarts>>

\* A request to the node throws: nothing was sent, the transaction expired, or
\* its confirmation is lost and it may still be executed.  A transaction by
\* way of the pool falls back to the direct call; otherwise the task fails.
RpcThrows(c, m) ==
    /\ task[c][m] \in Running
    /\ Goto(c, m, IF task[c][m] # "read" /\ RouteOf(task[c][m]) = "via"
                  THEN "direct" ELSE "failed")
    /\ \/ UNCHANGED adrift
       \/ task[c][m] \in Sent /\ adrift' = adrift \cup {TxOf(c, m)}
    /\ UNCHANGED <<store, screened, pc, target, listed, activated, restarts>>

\* A transaction nobody awaits is executed; one that never is has expired.
Land(tx) ==
    /\ adrift' = adrift \ {tx}
    /\ Execute(tx.mint, tx.wallet, tx.route)
    /\ UNCHANGED <<store, screened, requests, activated, restarts>>

-----------------------------------------------------------------------------
(* approveWallet, after the ledger *)

Mutant_CompleteApproval_AnySuccess(c) ==
    /\ pc[c] = "write"
    /\ \E m \in Mints : task[c][m] \in Succeeded
    /\ status' = [status EXCEPT ![target[c]] = "approved"]
    /\ results' = [results EXCEPT ![target[c]] =
                      [m \in Mints |-> IF task[c][m] \in Succeeded THEN task[c][m] ELSE "none"]]
    /\ Finish(c)
    /\ UNCHANGED <<sub, screened, ledger, restarts>>

\* Every task succeeded.  The status is written whatever it is by now.
CompleteApproval(c) ==
    /\ pc[c] = "write"
    /\ \A m \in Mints : task[c][m] \in Succeeded
    /\ status' = [status EXCEPT ![target[c]] = "approved"]
    /\ results' = [results EXCEPT ![target[c]] = task[c]]
    /\ Finish(c)
    /\ UNCHANGED <<sub, screened, ledger, restarts>>

\* A task failed: Promise.all has rejected, and the slot is free once the
\* other tasks, which go on all the same, have settled.
AbandonApproval(c) ==
    /\ pc[c] = "write"
    /\ \A m \in Mints : task[c][m] \notin Running
    /\ \E m \in Mints : task[c][m] = "failed"
    /\ Finish(c)
    /\ UNCHANGED <<store, screened, ledger, restarts>>

-----------------------------------------------------------------------------
(* Around the service *)

\* Root runs activate_wrapping on the pool of m.
ActivateWrapping(m) ==
    /\ m \notin activated
    /\ activated' = activated \cup {m}
    /\ UNCHANGED <<store, screened, requests, adrift, listed, restarts>>

\* The maps and the requests live in the process and go with it.
Restart ==
    /\ restarts < MaxRestarts
    /\ restarts' = restarts + 1
    /\ status' = [w \in Wallets |-> "none"] /\ sub' = [w \in Wallets |-> NoSub]
    /\ results' = [w \in Wallets |-> [m \in Mints |-> "none"]]
    /\ screened' = {}
    /\ pc' = [c \in Calls |-> "idle"] /\ target' = [c \in Calls |-> NoWallet]
    /\ task' = [c \in Calls |-> [m \in Mints |-> "idle"]]
    /\ adrift' = adrift \cup
          {tx \in Txs : \E c \in Calls, m \in Mints : task[c][m] \in Sent /\ tx = TxOf(c, m)}
    /\ UNCHANGED <<listed, activated>>

-----------------------------------------------------------------------------
KycInit ==
    /\ status = [w \in Wallets |-> "none"] /\ sub = [w \in Wallets |-> NoSub]
    /\ results = [w \in Wallets |-> [m \in Mints |-> "none"]]
    /\ screened = {}
    /\ pc = [c \in Calls |-> "idle"] /\ target = [c \in Calls |-> NoWallet]
    /\ task = [c \in Calls |-> [m \in Mints |-> "idle"]]
    /\ adrift = {} /\ listed = [w \in Wallets |-> {}] /\ activated \in SUBSET Mints
    /\ restarts = 0

RecordStep ==
    \E w \in Wallets :
       \/ \E s \in Subjects : registerFromEntra(w, s)
       \/ \E s \in Officers \cup {NoSub} : submitKyc(w, s)
       \/ rejectWallet(w)
       \/ KytScore(w)

CallStep(c) ==
    \/ \E w \in Wallets : approveWallet(c, w)
    \/ screenWallet(c) \/ checkWallet(c)
    \/ CompleteApproval(c) \/ AbandonApproval(c)
    \/ \E m \in Mints :
          \/ ReadEntry(c, m) \/ SendViaGovernor(c, m) \/ SendDirect(c, m)
          \/ Confirm(c, m) \/ RpcThrows(c, m)

LedgerStep ==
    \/ \E tx \in adrift : Land(tx)
    \/ \E m \in Mints : ActivateWrapping(m)

KycNext == RecordStep \/ (\E c \in Calls : CallStep(c)) \/ LedgerStep \/ Restart

KycSpec == KycInit /\ [][KycNext]_kycVars

-----------------------------------------------------------------------------
(* Properties *)

\* One Entra identity is linked to at most one wallet, however registrations,
\* submissions and approvals interleave.
OneWalletPerIdentity ==
    \A v, w \in Wallets : v # w /\ sub[v] = sub[w] => sub[v] = NoSub

\* As long as the service runs, a wallet linked to an identity stays linked
\* to it.
IdentityIsKept ==
    [][\A w \in Wallets :
          sub[w] # NoSub /\ restarts' = restarts => sub'[w] = sub[w]]_kycVars

\* No whitelist ever has an entry for a wallet on the sanctions list, whatever
\* the screening provider answers about it.
SanctionedIsNeverListed == \A w \in Sanctioned : listed[w] = {}

\* Two approvals at once, refused or failed transactions, lost confirmations
\* and retries never make an approval hollow: an approved wallet can miss only
\* the entry of a mint that was activated.
ApprovedMissesOnlyActivated ==
    \A w \in Wallets : status[w] = "approved" => Mints \ listed[w] \subseteq activated

\* The audit report of an approved wallet has a screening and a result for
\* every mint.
AuditReportIsComplete ==
    \A w \in Wallets : status[w] = "approved" =>
       w \in screened /\ \A m \in Mints : results[w][m] # "none"

=============================================================================
