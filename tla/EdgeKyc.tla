------------------------------ MODULE EdgeKyc ------------------------------
(***************************************************************************)
(* Onboarding by the edge worker: POST /kyc/submit and /kyc/approve over   *)
(* the wallet's record in KV, the loop that whitelists the wallet for      *)
(* every pool, and GET /whitelist with its cached copy of the ledger.  A   *)
(* request reads, waits and writes without holding anything, so requests   *)
(* interleave at every await; whitelistings are sent without simulation    *)
(* and nobody awaits them.                                                 *)
(*                                                                         *)
(* Records, entries and cached rows of two wallets have nothing in common, *)
(* so this is the onboarding of one wallet.                                *)
(***************************************************************************)
EXTENDS Naturals

CONSTANTS PoolCount,  \* length of POOLS
          Calls,      \* slots for submit and approve requests in progress
          Gets,       \* slots for GET /whitelist requests in progress
          Nothing     \* an empty cache, or nothing fetched

ASSUME EdgeKycAssumption == PoolCount \in Nat \ {0}

VARIABLES
    has_key,       \* ADMIN_KEYPAIR_JSON is configured
    status,        \* KycRecord.status, "none" without a record
    txSignatures,  \* the pools for which KycRecord.txSignatures says "already",
                   \* not a signature or an error
    pc,            \* call -> where its handler stands
    pool,          \* call -> the pool its loop has reached
    sigs,          \* call -> the pools for which its loop came to "already"
    in_flight,     \* pools with a transaction sent, not executed and not expired
    listed,        \* pools whose whitelist has an entry for the wallet
    cache,         \* KV: the pools cached for the wallet
    fetched        \* get -> the pools it has fetched and not yet cached

record == <<status, txSignatures>>
requests == <<pc, pool, sigs>>
ledger == <<in_flight, listed>>
view == <<cache, fetched>>
edgeVars == <<has_key, status, txSignatures, pc, pool, sigs, in_flight, listed,
              cache, fetched>>

Pools == 1 .. PoolCount

EdgeTypeOK ==
    /\ has_key \in BOOLEAN
    /\ status \in {"none", "pending", "approved"}
    /\ txSignatures \subseteq Pools
    /\ pc \in [Calls -> {"idle", "submit", "check", "send", "write"}]
    /\ pool \in [Calls -> Pools]
    /\ sigs \in [Calls -> SUBSET Pools]
    /\ in_flight \subseteq Pools /\ listed \subseteq Pools
    /\ cache \in (SUBSET Pools) \cup {Nothing}
    /\ fetched \in [Gets -> (SUBSET Pools) \cup {Nothing}]

-----------------------------------------------------------------------------
(* Requests *)

\* A record that exists is returned unchanged, so only the others go on.
submit(c) ==
    /\ pc[c] = "idle"
    /\ status = "none"
    /\ pc' = [pc EXCEPT ![c] = "submit"]
    /\ UNCHANGED <<has_key, record, pool, sigs, ledger, view>>

\* The request ends and its slot is free.
End(c) ==
    /\ pc' = [pc EXCEPT ![c] = "idle"]
    /\ pool' = [pool EXCEPT ![c] = 1]
    /\ sigs' = [sigs EXCEPT ![c] = {}]

\* The record is written over whatever is there by now.
PutSubmission(c) ==
    /\ pc[c] = "submit"
    /\ status' = "pending" /\ txSignatures' = {}
    /\ End(c)
    /\ UNCHANGED <<has_key, ledger, view>>

Mutant_approve_OnlyOnce(c) ==
    /\ pc[c] = "idle"
    /\ status # "approved"
    /\ pc' = [pc EXCEPT ![c] = IF has_key THEN "check" ELSE "write"]
    /\ UNCHANGED <<has_key, record, pool, sigs, ledger, view>>

\* Reads the record; a wallet without one is registered, and an approved one
\* is whitelisted once more.  Without a key there is nothing to send.
approve(c) ==
    /\ pc[c] = "idle"
    /\ status = "approved" => has_key
    /\ pc' = [pc EXCEPT ![c] = IF has_key THEN "check" ELSE "write"]
    /\ UNCHANGED <<has_key, record, pool, sigs, ledger, view>>

\* The loop notes whether the pool it has reached lists the wallet already,
\* and goes on to the next pool.
Conclude(c, found) ==
    /\ sigs' = [sigs EXCEPT ![c] = IF found THEN @ \cup {pool[c]} ELSE @]
    /\ IF pool[c] = PoolCount
       THEN pc' = [pc EXCEPT ![c] = "write"] /\ UNCHANGED pool
       ELSE pc' = [pc EXCEPT ![c] = "check"] /\ pool' = [pool EXCEPT ![c] = @ + 1]

Mutant_CheckEntry_TrustsSent(c) ==
    /\ pc[c] = "check"
    /\ IF pool[c] \in listed \cup in_flight
       THEN Conclude(c, TRUE)
       ELSE pc' = [pc EXCEPT ![c] = "send"] /\ UNCHANGED <<pool, sigs>>
    /\ UNCHANGED <<has_key, record, ledger, view>>

\* getAccountInfo of the whitelist entry
CheckEntry(c) ==
    /\ pc[c] = "check"
    /\ IF pool[c] \in listed
       THEN Conclude(c, TRUE)
       ELSE pc' = [pc EXCEPT ![c] = "send"] /\ UNCHANGED <<pool, sigs>>
    /\ UNCHANGED <<has_key, record, ledger, view>>

\* getLatestBlockhash and sendTransaction with skipPreflight
Send(c) ==
    /\ pc[c] = "send"
    /\ in_flight' = in_flight \cup {pool[c]}
    /\ Conclude(c, FALSE)
    /\ UNCHANGED <<has_key, record, listed, view>>

\* An RPC call throws: the loop notes the error and goes on.  What it sent may
\* be on its way all the same.
RpcFails(c) ==
    /\ pc[c] \in {"check", "send"}
    /\ Conclude(c, FALSE)
    /\ \/ UNCHANGED in_flight
       \/ pc[c] = "send" /\ in_flight' = in_flight \cup {pool[c]}
    /\ UNCHANGED <<has_key, record, listed, view>>

\* Approved, whatever the loop came to.
WriteRecord(c) ==
    /\ pc[c] = "write"
    /\ status' = "approved" /\ txSignatures' = sigs[c]
    /\ End(c)
    /\ UNCHANGED <<has_key, ledger, view>>

\* A KV call throws or the worker is evicted.
Abandon(c) ==
    /\ pc[c] # "idle"
    /\ End(c)
    /\ UNCHANGED <<has_key, record, ledger, view>>

\* Thirty days after it was last written.
ExpireRecord ==
    /\ status # "none"
    /\ status' = "none" /\ txSignatures' = {}
    /\ UNCHANGED <<has_key, requests, ledger, view>>

-----------------------------------------------------------------------------
(* GET /whitelist *)

Mutant_GetWhitelist_Renews(g) ==
    /\ fetched[g] = Nothing
    /\ fetched' = [fetched EXCEPT ![g] = IF cache = Nothing THEN listed ELSE cache]
    /\ UNCHANGED <<has_key, record, requests, ledger, cache>>

\* A miss fetches the entries from the ledger; a hit is answered from the cache.
GetWhitelist(g) ==
    /\ fetched[g] = Nothing
    /\ cache = Nothing
    /\ fetched' = [fetched EXCEPT ![g] = listed]
    /\ UNCHANGED <<has_key, record, requests, ledger, cache>>

PutCache(g) ==
    /\ fetched[g] # Nothing
    /\ cache' = fetched[g]
    /\ fetched' = [fetched EXCEPT ![g] = Nothing]
    /\ UNCHANGED <<has_key, record, requests, ledger>>

\* The put throws, or the worker is evicted first.
DropFetched(g) ==
    /\ fetched[g] # Nothing
    /\ fetched' = [fetched EXCEPT ![g] = Nothing]
    /\ UNCHANGED <<has_key, record, requests, ledger, cache>>

\* Sixty seconds after it was written.
ExpireCache ==
    /\ cache # Nothing
    /\ cache' = Nothing
    /\ UNCHANGED <<has_key, record, requests, ledger, fetched>>

-----------------------------------------------------------------------------
(* The ledger *)

\* The pool lists the wallet; for a wallet already listed the transaction fails.
Land(i) ==
    /\ i \in in_flight
    /\ in_flight' = in_flight \ {i}
    /\ listed' = listed \cup {i}
    /\ UNCHANGED <<has_key, record, requests, view>>

\* The transaction expires with its blockhash.
Lapse(i) ==
    /\ i \in in_flight
    /\ in_flight' = in_flight \ {i}
    /\ UNCHANGED <<has_key, record, requests, listed, view>>

-----------------------------------------------------------------------------
EdgeInit ==
    /\ has_key \in BOOLEAN
    /\ status = "none" /\ txSignatures = {}
    /\ pc = [c \in Calls |-> "idle"] /\ pool = [c \in Calls |-> 1]
    /\ sigs = [c \in Calls |-> {}]
    /\ in_flight = {} /\ listed = {}
    /\ cache = Nothing /\ fetched = [g \in Gets |-> Nothing]

\* One await of a request that is in progress.
Advance(c) ==
    \/ PutSubmission(c) \/ CheckEntry(c) \/ Send(c) \/ RpcFails(c)
    \/ WriteRecord(c) \/ Abandon(c)

EdgeNext ==
    \/ \E c \in Calls : submit(c) \/ approve(c) \/ Advance(c)
    \/ \E g \in Gets : GetWhitelist(g) \/ PutCache(g) \/ DropFetched(g)
    \/ \E i \in Pools : Land(i) \/ Lapse(i)
    \/ ExpireRecord \/ ExpireCache

\* Requests end, KV values expire, the client keeps asking for the approval,
\* and an RPC call or a transaction that is tried again and again works once.
EdgeFairness ==
    /\ \A c \in Calls : WF_edgeVars(Advance(c))
    /\ \A g \in Gets : WF_edgeVars(PutCache(g) \/ DropFetched(g))
    /\ WF_edgeVars(ExpireCache)
    /\ SF_edgeVars(\E c \in Calls : approve(c))
    /\ \A i \in Pools :
          /\ SF_edgeVars(\E c \in Calls : pool[c] = i /\ CheckEntry(c))
          /\ SF_edgeVars(\E c \in Calls : pool[c] = i /\ Send(c))
          /\ SF_edgeVars(Land(i))

EdgeSpec == EdgeInit /\ [][EdgeNext]_edgeVars /\ EdgeFairness

-----------------------------------------------------------------------------
(* Properties *)

\* The state is well typed, and what the worker reports as whitelisted is:
\* "already" in a record, and every row of the cached whitelist, stand for an
\* entry of the ledger, however requests overlap and whatever becomes of the
\* transactions.
ReportsAreTrue ==
    /\ EdgeTypeOK
    /\ txSignatures \subseteq listed
    /\ cache # Nothing => cache \subseteq listed

\* Asking again repairs: a wallet approved while the whitelisting failed, was
\* lost or never sent is listed by every pool in the end, because an approved
\* wallet is whitelisted once more.
ApprovalIsRepaired == has_key => <>(listed = Pools)

\* The cached whitelist catches up with the ledger: slow requests can put an
\* old copy back, but none of them keeps it there.
CacheCatchesUp == [](listed = Pools => <>[](cache \in {Nothing, Pools}))

=============================================================================
