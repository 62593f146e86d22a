----------------------------- MODULE EdgeAudit -----------------------------
(***************************************************************************)
(* The audit log of the edge worker: POST /audit/log stores an entry and   *)
(* appends its key to the wallet's index, two KV values with an await      *)
(* between every read and write; GET /audit/logs follows the index.        *)
(* Wallets share nothing, so this is the log of one wallet.  Entries are   *)
(* kept for a year and the model ends before one expires.                  *)
(***************************************************************************)
EXTENDS Naturals, Sequences

CONSTANTS Requests,   \* POST /audit/log requests, each with an entry of its own
          NoRequest,  \* what a KV key without a value holds
          Cap,        \* keys an index keeps
          MaxTime     \* bound on the milliseconds that pass

ASSUME AuditAssumption ==
    /\ NoRequest \notin Requests
    /\ Cap \in Nat \ {0}
    /\ MaxTime \in Nat

VARIABLES
    now,        \* Date.now()
    entries,    \* KV: millisecond of the key -> the request whose entry it holds
    index,      \* KV: the keys of the wallet, oldest first
    stage,      \* request -> where its handler stands
    key,        \* request -> the millisecond in its key
    existing,   \* request -> the index it has read
    written,    \* the requests whose index write took effect, in that order
    overlapped  \* requests that were in progress together with another

auditVars == <<now, entries, index, stage, key, existing, written, overlapped>>

Times == 0 .. MaxTime
InProgress == {r \in Requests : stage[r] \in {"entry", "read", "index"}}

AuditTypeOK ==
    /\ now \in Times
    /\ entries \in [Times -> Requests \cup {NoRequest}]
    /\ index \in Seq(Times) /\ Len(index) <= Cap
    /\ stage \in [Requests -> {"new", "entry", "read", "index", "answered", "failed"}]
    /\ key \in [Requests -> Times]
    /\ existing \in [Requests -> Seq(Times)]
    /\ written \in Seq(Requests)
    /\ overlapped \subseteq Requests

-----------------------------------------------------------------------------
(* POST /audit/log *)

Mutant_Log_EntryNotAwaited(r) ==
    /\ stage[r] = "new"
    /\ stage' = [stage EXCEPT ![r] = "read"]
    /\ key' = [key EXCEPT ![r] = now]
    /\ overlapped' = IF InProgress = {} THEN overlapped
                     ELSE overlapped \cup InProgress \cup {r}
    /\ UNCHANGED <<now, entries, index, existing, written>>

\* The entry is timestamped and its key made before the first await.
Log(r) ==
    /\ stage[r] = "new"
    /\ stage' = [stage EXCEPT ![r] = "entry"]
    /\ key' = [key EXCEPT ![r] = now]
    /\ overlapped' = IF InProgress = {} THEN overlapped
                     ELSE overlapped \cup InProgress \cup {r}
    /\ UNCHANGED <<now, entries, index, existing, written>>

\* AUDIT_KV.put(key, entry)
StoreEntry(r) == entries' = [entries EXCEPT ![key[r]] = r]

PutEntry(r) ==
    /\ stage[r] = "entry"
    /\ StoreEntry(r)
    /\ stage' = [stage EXCEPT ![r] = "read"]
    /\ UNCHANGED <<now, index, key, existing, written, overlapped>>

\* AUDIT_KV.get(indexKey)
GetIndex(r) ==
    /\ stage[r] = "read"
    /\ existing' = [existing EXCEPT ![r] = index]
    /\ stage' = [stage EXCEPT ![r] = "index"]
    /\ UNCHANGED <<now, entries, index, key, written, overlapped>>

Mutant_Appended_DropsNewest(s, k) ==
    LET longer == Append(s, k)
    IN  SubSeq(longer, 1, IF Len(longer) > Cap THEN Cap ELSE Len(longer))

\* existing.push(key), then splice from the front down to the cap.
Appended(s, k) ==
    LET longer == Append(s, k)
    IN  IF Len(longer) > Cap
        THEN SubSeq(longer, Len(longer) - Cap + 1, Len(longer))
        ELSE longer

\* AUDIT_KV.put(indexKey, ...)
StoreIndex(r) ==
    /\ index' = Appended(existing[r], key[r])
    /\ written' = Append(written, r)

PutIndex(r) ==
    /\ stage[r] = "index"
    /\ StoreIndex(r)
    /\ stage' = [stage EXCEPT ![r] = "answered"]
    /\ UNCHANGED <<now, entries, key, existing, overlapped>>

\* A call to the KV store throws and the caller gets a 500; a write may have
\* taken effect all the same.
Fail(r) ==
    /\ r \in InProgress
    /\ stage' = [stage EXCEPT ![r] = "failed"]
    /\ \/ UNCHANGED <<entries, index, written>>
       \/ stage[r] = "entry" /\ StoreEntry(r) /\ UNCHANGED <<index, written>>
       \/ stage[r] = "index" /\ StoreIndex(r) /\ UNCHANGED entries
    /\ UNCHANGED <<now, key, existing, overlapped>>

Tick ==
    /\ now < MaxTime
    /\ now' = now + 1
    /\ UNCHANGED <<entries, index, stage, key, existing, written, overlapped>>

-----------------------------------------------------------------------------
(* GET /audit/logs and /audit/report: what following the index finds *)

Logs == {entries[index[i]] : i \in DOMAIN index} \ {NoRequest}

-----------------------------------------------------------------------------
AuditInit ==
    /\ now = 0
    /\ entries = [t \in Times |-> NoRequest] /\ index = <<>>
    /\ stage = [r \in Requests |-> "new"] /\ key = [r \in Requests |-> 0]
    /\ existing = [r \in Requests |-> <<>>]
    /\ written = <<>> /\ overlapped = {}

AuditNext ==
    \/ \E r \in Requests :
          Log(r) \/ PutEntry(r) \/ GetIndex(r) \/ PutIndex(r) \/ Fail(r)
    \/ Tick

AuditSpec == AuditInit /\ [][AuditNext]_auditVars

-----------------------------------------------------------------------------
(* Properties *)

\* The state is well typed, and no key enters the index before its entry is
\* stored, although requests fail between the two writes and stale copies of
\* the index are written back.
IndexedIsStored ==
    AuditTypeOK /\ \A i \in DOMAIN index : entries[index[i]] # NoRequest

\* r was acknowledged, fewer than Cap keys followed its own, which no other
\* request took: the log should still show it.
ShouldShow(r) ==
    /\ stage[r] = "answered"
    /\ \E i \in DOMAIN written : written[i] = r /\ i > Len(written) - Cap
    /\ \A q \in Requests \ {r} : stage[q] # "new" => key[q] # key[r]

\* An entry logged while nobody else was logging is never lost: neither later
\* races between others nor the cap take it from the log before its time.
LoggedAloneIsShown ==
    \A r \in Requests \ overlapped : ShouldShow(r) => r \in Logs

=============================================================================
