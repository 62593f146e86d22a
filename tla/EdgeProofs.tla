----------------------------- MODULE EdgeProofs -----------------------------
(***************************************************************************)
(* Theorems about the edge worker: its onboarding routes for every number  *)
(* of pools and any requests at a time, and its audit log for any          *)
(* requests, times and cap.                                                *)
(***************************************************************************)
EXTENDS EdgeKyc, EdgeAudit, SequenceTheorems, TLAPS

-----------------------------------------------------------------------------
(* Onboarding *)

\* What a request carries between its reads and its writes was true of the
\* ledger when it was read, and entries stay: this is what makes a late write
\* true as well.
CarriedIsTrue ==
    /\ \A c \in Calls : sigs[c] \subseteq listed
    /\ \A g \in Gets : fetched[g] # Nothing => fetched[g] \subseteq listed

EdgeInv == ReportsAreTrue /\ CarriedIsTrue

LEMMA EdgeInitInv == EdgeInit => EdgeInv
  BY EdgeKycAssumption DEF EdgeKycAssumption, EdgeInit, EdgeInv, ReportsAreTrue,
     EdgeTypeOK, CarriedIsTrue, Pools

\* A request that ends leaves nothing behind.
LEMMA EndInv ==
    ASSUME EdgeInv, NEW c \in Calls, End(c)
    PROVE  /\ pc' \in [Calls -> {"idle", "submit", "check", "send", "write"}]
           /\ pool' \in [Calls -> Pools] /\ sigs' \in [Calls -> SUBSET Pools]
           /\ \A d \in Calls : sigs'[d] \subseteq listed
  BY EdgeKycAssumption DEF EdgeKycAssumption, EdgeInv, ReportsAreTrue, EdgeTypeOK,
     CarriedIsTrue, End, Pools

\* The loop adds the pool it has reached only when that pool lists the wallet.
LEMMA ConcludeInv ==
    ASSUME EdgeInv, NEW c \in Calls, NEW found \in BOOLEAN, Conclude(c, found),
           found => pool[c] \in listed
    PROVE  /\ pc' \in [Calls -> {"idle", "submit", "check", "send", "write"}]
           /\ pool' \in [Calls -> Pools] /\ sigs' \in [Calls -> SUBSET Pools]
           /\ \A d \in Calls : sigs'[d] \subseteq listed
  <1> USE EdgeKycAssumption DEF EdgeKycAssumption, EdgeInv, ReportsAreTrue, EdgeTypeOK,
      CarriedIsTrue, Conclude, Pools
  <1>1. pc' \in [Calls -> {"idle", "submit", "check", "send", "write"}]
    OBVIOUS
  <1>2. pool' \in [Calls -> Pools]
    <2>1. CASE pool[c] = PoolCount
      BY <2>1
    <2>2. CASE pool[c] # PoolCount
      <3>1. pool[c] + 1 \in 1 .. PoolCount
        BY <2>2
      <3>2. QED
        BY <2>2, <3>1
    <2>3. QED
      BY <2>1, <2>2
  <1>3. sigs' \in [Calls -> SUBSET Pools] /\ \A d \in Calls : sigs'[d] \subseteq listed
    OBVIOUS
  <1>4. QED
    BY <1>1, <1>2, <1>3

LEMMA EdgeCallInv ==
    ASSUME EdgeInv, NEW c \in Calls, submit(c) \/ approve(c) \/ Advance(c)
    PROVE  EdgeInv'
  <1>1. ASSUME submit(c) \/ approve(c) PROVE EdgeInv'
    BY <1>1 DEF submit, approve, EdgeInv, ReportsAreTrue, EdgeTypeOK, CarriedIsTrue,
       record, ledger, view
  <1>2. ASSUME PutSubmission(c) PROVE EdgeInv'
    BY <1>2, EndInv DEF PutSubmission, EdgeInv, ReportsAreTrue, EdgeTypeOK, CarriedIsTrue,
       ledger, view
  <1>3. ASSUME CheckEntry(c) PROVE EdgeInv'
    <2>1. CASE pool[c] \in listed
      BY <1>3, <2>1, ConcludeInv DEF CheckEntry, EdgeInv, ReportsAreTrue, EdgeTypeOK,
         CarriedIsTrue, record, ledger, view
    <2>2. CASE pool[c] \notin listed
      BY <1>3, <2>2 DEF CheckEntry, EdgeInv, ReportsAreTrue, EdgeTypeOK,
         CarriedIsTrue, record, ledger, view
    <2>3. QED
      BY <2>1, <2>2
  <1>4. ASSUME Send(c) \/ RpcFails(c) PROVE EdgeInv'
    <2>1. Conclude(c, FALSE) /\ UNCHANGED <<has_key, record, listed, view>>
      BY <1>4 DEF Send, RpcFails
    <2>2. in_flight' \subseteq in_flight \cup {pool[c]}
      BY <1>4 DEF Send, RpcFails
    <2>3. in_flight' \subseteq Pools
      BY <2>2 DEF EdgeInv, ReportsAreTrue, EdgeTypeOK
    <2>4. QED
      BY <2>1, <2>3, ConcludeInv DEF EdgeInv, ReportsAreTrue, EdgeTypeOK,
         CarriedIsTrue, record, view
  <1>5. ASSUME WriteRecord(c) PROVE EdgeInv'
    BY <1>5, EndInv DEF WriteRecord, EdgeInv, ReportsAreTrue, EdgeTypeOK, CarriedIsTrue,
       ledger, view
  <1>6. ASSUME Abandon(c) PROVE EdgeInv'
    BY <1>6, EndInv DEF Abandon, EdgeInv, ReportsAreTrue, EdgeTypeOK, CarriedIsTrue,
       record, ledger, view
  <1>7. QED
    BY <1>1, <1>2, <1>3, <1>4, <1>5, <1>6 DEF Advance

LEMMA EdgeGetInv ==
    ASSUME EdgeInv, NEW g \in Gets, GetWhitelist(g) \/ PutCache(g) \/ DropFetched(g)
    PROVE  EdgeInv'
  BY DEF GetWhitelist, PutCache, DropFetched, EdgeInv, ReportsAreTrue, EdgeTypeOK,
     CarriedIsTrue, record, requests, ledger

\* The ledger and the clock: entries only appear, values only expire.
LEMMA EdgeWorldInv ==
    ASSUME EdgeInv,
           (\E i \in Pools : Land(i) \/ Lapse(i)) \/ ExpireRecord \/ ExpireCache
    PROVE  EdgeInv'
  <1>1. ASSUME NEW i \in Pools, Land(i) \/ Lapse(i) PROVE EdgeInv'
    <2>1. listed \subseteq listed' /\ listed' \subseteq Pools /\ in_flight' \subseteq Pools
      BY <1>1 DEF Land, Lapse, EdgeInv, ReportsAreTrue, EdgeTypeOK
    <2>2. UNCHANGED <<has_key, record, requests, view>>
      BY <1>1 DEF Land, Lapse
    <2>3. QED
      BY <2>1, <2>2 DEF EdgeInv, ReportsAreTrue, EdgeTypeOK, CarriedIsTrue, record,
         requests, view
  <1>2. ASSUME ExpireRecord \/ ExpireCache PROVE EdgeInv'
    BY <1>2 DEF ExpireRecord, ExpireCache, EdgeInv, ReportsAreTrue, EdgeTypeOK,
       CarriedIsTrue, record, requests, ledger, view
  <1>3. QED
    BY <1>1, <1>2

LEMMA EdgeNextInv == EdgeInv /\ [EdgeNext]_edgeVars => EdgeInv'
  <1>1. EdgeInv /\ UNCHANGED edgeVars => EdgeInv'
    BY DEF edgeVars, EdgeInv, ReportsAreTrue, EdgeTypeOK, CarriedIsTrue
  <1>2. QED
    BY <1>1, EdgeCallInv, EdgeGetInv, EdgeWorldInv DEF EdgeNext

\* What the worker reports as whitelisted is whitelisted: the signatures of a
\* record and the rows of the cache, for any number of pools and of requests
\* that overlap, fail or are abandoned.
THEOREM ReportsAreTrueCorrect == EdgeSpec => []ReportsAreTrue
  <1>1. EdgeInv => ReportsAreTrue
    BY DEF EdgeInv
  <1>2. QED
    BY EdgeInitInv, EdgeNextInv, <1>1, PTL DEF EdgeSpec

-----------------------------------------------------------------------------
(* The audit log: what the index is built with *)

\* s holds the key k with at most d keys after it.
Within(s, k, d) == \E j \in DOMAIN s : s[j] = k /\ Len(s) - j <= d

\* What Append makes of s, and what of it is left when it is longer than Cap.
LEMMA AppendedCut ==
    ASSUME NEW s \in Seq(Times), NEW k \in Times, Len(s) >= Cap
    PROVE  /\ Appended(s, k) \in Seq(Times)
           /\ Len(Appended(s, k)) = Cap
           /\ DOMAIN Appended(s, k) = 1 .. Cap
           /\ \A i \in 1 .. Cap : Appended(s, k)[i] = Append(s, k)[i + (Len(s) + 1 - Cap)]
  <1> DEFINE longer == Append(s, k)
             m == Len(longer) - Cap + 1
  <1> USE AuditAssumption DEF AuditAssumption
  <1>1. /\ longer \in Seq(Times) /\ Len(longer) = Len(s) + 1 /\ Len(s) \in Nat
        /\ \A i \in 1 .. Len(longer) : longer[i] \in Times
    OBVIOUS
  <1>2. /\ m \in 1 .. Len(longer) /\ Len(longer) \in Int
        /\ m <= Len(longer) /\ Len(longer) - m + 1 = Cap
    BY <1>1
  <1>3. \A i \in m .. Len(longer) : longer[i] \in Times
    BY <1>1, <1>2
  <1>4. Appended(s, k) = SubSeq(longer, m, Len(longer))
    BY <1>1 DEF Appended
  <1>5. /\ SubSeq(longer, m, Len(longer)) \in Seq(Times)
        /\ Len(SubSeq(longer, m, Len(longer))) = Cap
        /\ \A i \in 1 .. Cap : SubSeq(longer, m, Len(longer))[i] = longer[m + i - 1]
    BY <1>2, <1>3, SubSeqProperties
  <1>6. \A i \in 1 .. Cap : m + i - 1 = i + (Len(s) + 1 - Cap)
    BY <1>1
  <1>7. DOMAIN Appended(s, k) = 1 .. Cap
    BY <1>4, <1>5, LenProperties
  <1>8. QED
    BY <1>4, <1>5, <1>6, <1>7

LEMMA AppendedWhole ==
    ASSUME NEW s \in Seq(Times), NEW k \in Times, Len(s) < Cap
    PROVE  Appended(s, k) = Append(s, k)
  <1>1. Len(Append(s, k)) = Len(s) + 1 /\ Len(s) \in Nat
    OBVIOUS
  <1>2. QED
    BY <1>1, AuditAssumption DEF AuditAssumption, Appended

LEMMA AppendedType ==
    ASSUME NEW s \in Seq(Times), NEW k \in Times
    PROVE  /\ Appended(s, k) \in Seq(Times)
           /\ Len(Appended(s, k)) <= Cap
           /\ \A i \in DOMAIN Appended(s, k) :
                 Appended(s, k)[i] = k \/ \E j \in DOMAIN s : Appended(s, k)[i] = s[j]
  <1> DEFINE longer == Append(s, k)
             result == Appended(s, k)
  <1> USE AuditAssumption DEF AuditAssumption
  <1>1. /\ longer \in Seq(Times) /\ Len(longer) = Len(s) + 1
        /\ Len(s) \in Nat /\ DOMAIN longer = 1 .. Len(s) + 1
        /\ DOMAIN s = 1 .. Len(s)
        /\ \A i \in 1 .. Len(s) + 1 : longer[i] = IF i <= Len(s) THEN s[i] ELSE k
    OBVIOUS
  <1>2. Len(s) < Cap => result = longer
    BY AppendedWhole
  <1>3. Len(s) >= Cap => /\ result \in Seq(Times) /\ Len(result) = Cap
                         /\ DOMAIN result = 1 .. Cap
                         /\ \A i \in 1 .. Cap : result[i] = longer[i + (Len(s) + 1 - Cap)]
    BY AppendedCut
  <1> HIDE DEF longer, result
  <1>4. \A i \in 1 .. Len(s) + 1 : longer[i] = k \/ \E j \in DOMAIN s : longer[i] = s[j]
    BY <1>1
  <1>5. CASE Len(s) < Cap
    BY <1>1, <1>2, <1>4, <1>5 DEF result
  <1>6. CASE Len(s) >= Cap
    <2>1. \A i \in 1 .. Cap : i + (Len(s) + 1 - Cap) \in 1 .. Len(s) + 1
      BY <1>1, <1>6
    <2>2. \A i \in DOMAIN result : result[i] = k \/ \E j \in DOMAIN s : result[i] = s[j]
      BY <1>3, <1>4, <1>6, <2>1
    <2>3. QED
      BY <1>3, <1>6, <2>2 DEF result
  <1>7. QED
    BY <1>1, <1>5, <1>6

\* Appending moves a key by one, and cuts it off only when Cap others follow.
LEMMA AppendedKeeps ==
    ASSUME NEW s \in Seq(Times), NEW k \in Times
    PROVE  /\ Within(Appended(s, k), k, 0)
           /\ \A x, d : d \in Nat /\ d + 1 < Cap /\ Within(s, x, d) =>
                           Within(Appended(s, k), x, d + 1)
  <1> DEFINE longer == Append(s, k)
             result == Appended(s, k)
  <1> USE AuditAssumption DEF AuditAssumption
  <1>1. /\ Len(longer) = Len(s) + 1 /\ Len(s) \in Nat
        /\ DOMAIN longer = 1 .. Len(s) + 1 /\ DOMAIN s = 1 .. Len(s)
        /\ \A i \in 1 .. Len(s) + 1 : longer[i] = IF i <= Len(s) THEN s[i] ELSE k
    OBVIOUS
  <1>2. Len(s) < Cap => result = longer
    BY AppendedWhole
  <1>3. Len(s) >= Cap => /\ result \in Seq(Times) /\ Len(result) = Cap
                         /\ DOMAIN result = 1 .. Cap
                         /\ \A i \in 1 .. Cap : result[i] = longer[i + (Len(s) + 1 - Cap)]
    BY AppendedCut
  <1>4. Len(result) \in Nat
    BY AppendedType, LenProperties
  <1> HIDE DEF longer, result
  <1>5. ASSUME NEW j \in 1 .. Len(s) + 1, Len(s) + 1 - j < Cap
        PROVE  Within(result, longer[j], Len(s) + 1 - j)
    <2>1. CASE Len(s) < Cap
      BY <1>1, <1>2, <2>1 DEF Within
    <2>2. CASE Len(s) >= Cap
      <3> DEFINE i == j - (Len(s) + 1 - Cap)
      <3>1. /\ i \in 1 .. Cap /\ i + (Len(s) + 1 - Cap) = j
            /\ Cap - i <= Len(s) + 1 - j
        BY <1>1, <1>5
      <3>2. i \in DOMAIN result /\ result[i] = longer[j] /\ Len(result) = Cap
        BY <1>3, <2>2, <3>1
      <3>3. QED
        BY <3>1, <3>2 DEF Within
    <2>3. QED
      BY <1>1, <2>1, <2>2
  <1>6. Within(result, k, 0)
    <2>1. /\ Len(s) + 1 \in 1 .. Len(s) + 1 /\ longer[Len(s) + 1] = k
          /\ Len(s) + 1 - (Len(s) + 1) = 0
      BY <1>1
    <2>2. QED
      BY <2>1, <1>5
  <1>7. ASSUME NEW x, NEW d \in Nat, d + 1 < Cap, Within(s, x, d)
        PROVE  Within(result, x, d + 1)
    <2>1. PICK j \in 1 .. Len(s) : s[j] = x /\ Len(s) - j <= d
      BY <1>1, <1>7 DEF Within
    <2>2. /\ j \in 1 .. Len(s) + 1 /\ longer[j] = x
          /\ Len(s) + 1 - j <= d + 1 /\ Len(s) + 1 - j < Cap
      BY <1>1, <1>7, <2>1
    <2>3. Within(result, x, Len(s) + 1 - j)
      BY <1>5, <2>2
    <2>4. DOMAIN result = 1 .. Len(result)
      BY AppendedType, LenProperties DEF result
    <2>5. QED
      BY <1>1, <1>4, <2>2, <2>3, <2>4 DEF Within
  <1>8. QED
    BY <1>6, <1>7 DEF result

-----------------------------------------------------------------------------
(* The audit log: its inductive invariant *)

\* Whoever has got past storing its entry has stored it, and so has everyone
\* whose key is in a copy of the index.
StoredFirst ==
    /\ \A r \in Requests :
          stage[r] \in {"read", "index", "answered"} => entries[key[r]] # NoRequest
    /\ \A r \in Requests : \A i \in DOMAIN existing[r] : entries[existing[r][i]] # NoRequest

\* An entry is found under the key of its own request.
OwnEntries ==
    \A t \in Times : entries[t] # NoRequest =>
        stage[entries[t]] # "new" /\ key[entries[t]] = t

RacesAreNoted == \A q, r \in InProgress : q # r => r \in overlapped

\* A request that was alone is in the index, and in every copy that may still
\* be written back, with no more keys after its own than were written since.
KeysAreKept ==
    \A i \in DOMAIN written :
        /\ stage[written[i]] # "new"
        /\ written[i] \notin overlapped /\ Len(written) - i < Cap =>
              /\ Within(index, key[written[i]], Len(written) - i)
              /\ \A q \in Requests : stage[q] = "index" =>
                    Within(existing[q], key[written[i]], Len(written) - i)

AuditInv == IndexedIsStored /\ StoredFirst /\ OwnEntries /\ RacesAreNoted /\ KeysAreKept

LEMMA AuditInitInv == AuditInit => AuditInv
  <1> SUFFICES ASSUME AuditInit PROVE AuditInv
    OBVIOUS
  <1> USE AuditAssumption DEF AuditAssumption, AuditInit
  <1>1. 0 \in Times
    BY DEF Times
  <1>2. <<>> \in Seq(Times) /\ <<>> \in Seq(Requests) /\ Len(<<>>) = 0 /\ DOMAIN <<>> = {}
    OBVIOUS
  <1>3. AuditTypeOK
    BY <1>1, <1>2 DEF AuditTypeOK
  <1>4. IndexedIsStored /\ StoredFirst /\ OwnEntries /\ KeysAreKept
    BY <1>2, <1>3 DEF IndexedIsStored, StoredFirst, OwnEntries, KeysAreKept
  <1>5. RacesAreNoted
    BY DEF RacesAreNoted, InProgress
  <1>6. QED
    BY <1>4, <1>5 DEF AuditInv

LEMMA LogInv ==
    ASSUME AuditInv, NEW r \in Requests, Log(r)
    PROVE  AuditInv'
  <1> USE DEF AuditInv, IndexedIsStored, Log
  <1>1. AuditTypeOK'
    BY DEF AuditTypeOK, InProgress
  <1>2. \A q \in Requests : q # r => stage'[q] = stage[q] /\ key'[q] = key[q]
    BY DEF AuditTypeOK
  <1>3. stage[r] = "new" /\ stage'[r] = "entry" /\ overlapped \subseteq overlapped'
    BY DEF AuditTypeOK
  <1>4. StoredFirst' /\ (\A i \in DOMAIN index' : entries'[index'[i]] # NoRequest)
    BY <1>2, <1>3 DEF StoredFirst
  <1>5. OwnEntries'
    BY <1>2, <1>3 DEF OwnEntries, AuditTypeOK
  <1>6. RacesAreNoted'
    <2>1. InProgress' = InProgress \cup {r}
      BY <1>2, <1>3 DEF InProgress
    <2>2. InProgress # {} => r \in overlapped' /\ InProgress \subseteq overlapped'
      OBVIOUS
    <2>3. QED
      BY <1>3, <2>1, <2>2 DEF RacesAreNoted
  <1>7. KeysAreKept'
    <2> SUFFICES ASSUME NEW i \in DOMAIN written
                 PROVE  /\ stage'[written[i]] # "new"
                        /\ written[i] \notin overlapped' /\ Len(written) - i < Cap =>
                              /\ Within(index, key'[written[i]], Len(written) - i)
                              /\ \A q \in Requests : stage'[q] = "index" =>
                                    Within(existing[q], key'[written[i]], Len(written) - i)
      BY DEF KeysAreKept
    <2>1. written[i] \in Requests /\ written[i] # r
      BY <1>3, ElementOfSeq DEF KeysAreKept, AuditTypeOK
    <2>2. QED
      BY <1>2, <1>3, <2>1 DEF KeysAreKept
  <1>8. QED
    BY <1>1, <1>4, <1>5, <1>6, <1>7

\* Time passes and an index is read: nothing stored changes.
LEMMA ReadInv ==
    ASSUME AuditInv, NEW r \in Requests, GetIndex(r)
    PROVE  AuditInv'
  <1> USE DEF AuditInv, IndexedIsStored, GetIndex
  <1>1. AuditTypeOK'
    BY DEF AuditTypeOK
  <1>2. /\ \A q \in Requests : q # r => stage'[q] = stage[q] /\ existing'[q] = existing[q]
        /\ stage[r] = "read" /\ stage'[r] = "index" /\ existing'[r] = index
    BY DEF AuditTypeOK
  <1>3. StoredFirst' /\ (\A i \in DOMAIN index' : entries'[index'[i]] # NoRequest)
    BY <1>2 DEF StoredFirst
  <1>4. OwnEntries'
    BY <1>2 DEF OwnEntries, AuditTypeOK
  <1>5. RacesAreNoted'
    BY <1>2 DEF RacesAreNoted, InProgress
  <1>6. KeysAreKept'
    <2> SUFFICES ASSUME NEW i \in DOMAIN written
                 PROVE  /\ stage'[written[i]] # "new"
                        /\ written[i] \notin overlapped /\ Len(written) - i < Cap =>
                              /\ Within(index, key[written[i]], Len(written) - i)
                              /\ \A q \in Requests : stage'[q] = "index" =>
                                    Within(existing'[q], key[written[i]], Len(written) - i)
      BY DEF KeysAreKept
    <2>1. written[i] \in Requests
      BY ElementOfSeq DEF AuditTypeOK
    <2>2. QED
      BY <1>2, <2>1 DEF KeysAreKept
  <1>7. QED
    BY <1>1, <1>3, <1>4, <1>5, <1>6

\* A request ends or goes on, having stored its entry or nothing.
LEMMA EntryInv ==
    ASSUME AuditInv, NEW r \in InProgress, NEW st \in {"read", "failed"},
           stage' = [stage EXCEPT ![r] = st], st = "read" => StoreEntry(r),
           StoreEntry(r) \/ UNCHANGED entries,
           UNCHANGED <<now, index, key, existing, written, overlapped>>
    PROVE  AuditInv'
  <1> USE AuditAssumption DEF AuditAssumption, AuditInv, IndexedIsStored, StoreEntry
  <1>1. r \in Requests /\ stage[r] # "new" /\ key[r] \in Times
    BY DEF InProgress, AuditTypeOK
  <1>2. AuditTypeOK'
    <2>1. entries' \in [Times -> Requests \cup {NoRequest}]
      BY <1>1 DEF AuditTypeOK
    <2>2. stage' \in [Requests -> {"new", "entry", "read", "index", "answered", "failed"}]
      BY <1>1 DEF AuditTypeOK
    <2>3. QED
      BY <2>1, <2>2 DEF AuditTypeOK
  <1>3. \A t \in Times : \/ entries'[t] = entries[t]
                         \/ t = key[r] /\ entries'[t] = r /\ r # NoRequest
    BY <1>1 DEF AuditTypeOK
  <1>4. \A t \in Times : entries[t] # NoRequest => entries'[t] # NoRequest
    BY <1>3
  <1>5. st = "read" => entries'[key[r]] # NoRequest
    BY <1>1 DEF AuditTypeOK
  <1>6. /\ \A q \in Requests : q # r => stage'[q] = stage[q]
        /\ stage'[r] = st
    BY <1>1 DEF AuditTypeOK
  <1>7. \A i \in DOMAIN index' : entries'[index'[i]] # NoRequest
    BY <1>4, ElementOfSeq, LenProperties DEF AuditTypeOK
  <1>8. StoredFirst'
    <2>1. \A q \in Requests : stage'[q] \in {"read", "index", "answered"} =>
             entries'[key[q]] # NoRequest
      BY <1>4, <1>5, <1>6 DEF StoredFirst, AuditTypeOK
    <2>2. \A q \in Requests : \A i \in DOMAIN existing[q] : existing[q][i] \in Times
      BY ElementOfSeq, LenProperties DEF AuditTypeOK
    <2>3. \A q \in Requests : \A i \in DOMAIN existing[q] :
             entries'[existing[q][i]] # NoRequest
      BY <1>4, <2>2 DEF StoredFirst
    <2>4. QED
      BY <2>1, <2>3 DEF StoredFirst
  <1>9. OwnEntries'
    BY <1>1, <1>3, <1>6 DEF OwnEntries, AuditTypeOK
  <1>10. RacesAreNoted'
    <2>1. InProgress' \subseteq InProgress
      BY <1>1, <1>6 DEF InProgress
    <2>2. QED
      BY <2>1 DEF RacesAreNoted
  <1>11. KeysAreKept'
    <2> SUFFICES ASSUME NEW i \in DOMAIN written
                 PROVE  /\ stage'[written[i]] # "new"
                        /\ written[i] \notin overlapped /\ Len(written) - i < Cap =>
                              /\ Within(index, key[written[i]], Len(written) - i)
                              /\ \A q \in Requests : stage'[q] = "index" =>
                                    Within(existing[q], key[written[i]], Len(written) - i)
      BY DEF KeysAreKept
    <2>1. written[i] \in Requests
      BY ElementOfSeq DEF AuditTypeOK
    <2>2. QED
      BY <1>6, <2>1 DEF KeysAreKept
  <1>12. QED
    BY <1>2, <1>7, <1>8, <1>9, <1>10, <1>11

\* A copy of the index is written back with one more key.
LEMMA IndexInv ==
    ASSUME AuditInv, NEW r \in Requests, NEW st \in {"answered", "failed"},
           stage[r] = "index", stage' = [stage EXCEPT ![r] = st], StoreIndex(r),
           UNCHANGED <<now, entries, key, existing, overlapped>>
    PROVE  AuditInv'
  <1> USE DEF AuditInv, IndexedIsStored, StoreIndex
  <1>1. existing[r] \in Seq(Times) /\ key[r] \in Times
    BY DEF AuditTypeOK
  <1>2. /\ \A q \in Requests : q # r => stage'[q] = stage[q]
        /\ stage'[r] = st
    BY DEF AuditTypeOK
  <1>3. /\ written' \in Seq(Requests) /\ Len(written') = Len(written) + 1
        /\ Len(written) \in Nat /\ DOMAIN written = 1 .. Len(written)
        /\ DOMAIN written' = 1 .. Len(written) + 1
        /\ \A i \in 1 .. Len(written) + 1 :
              written'[i] = IF i <= Len(written) THEN written[i] ELSE r
    BY DEF AuditTypeOK
  <1>4. AuditTypeOK'
    <2>1. index' \in Seq(Times) /\ Len(index') <= Cap
      BY <1>1, AppendedType
    <2>2. stage' \in [Requests -> {"new", "entry", "read", "index", "answered", "failed"}]
      BY DEF AuditTypeOK
    <2>3. QED
      BY <1>3, <2>1, <2>2 DEF AuditTypeOK
  <1>5. \A i \in DOMAIN index' : entries'[index'[i]] # NoRequest
    <2>1. \A i \in DOMAIN index' :
             index'[i] = key[r] \/ \E j \in DOMAIN existing[r] : index'[i] = existing[r][j]
      BY <1>1, AppendedType
    <2>2. entries[key[r]] # NoRequest
      BY DEF StoredFirst
    <2>3. \A j \in DOMAIN existing[r] : entries[existing[r][j]] # NoRequest
      BY DEF StoredFirst
    <2>4. QED
      BY <2>1, <2>2, <2>3
  <1>6. StoredFirst'
    BY <1>2 DEF StoredFirst
  <1>7. OwnEntries'
    BY <1>2 DEF OwnEntries, AuditTypeOK
  <1>8. RacesAreNoted'
    <2>1. InProgress' \subseteq InProgress
      BY <1>2 DEF InProgress
    <2>2. QED
      BY <2>1 DEF RacesAreNoted
  <1>9. KeysAreKept'
    <2> SUFFICES ASSUME NEW i \in DOMAIN written'
                 PROVE  /\ stage'[written'[i]] # "new"
                        /\ written'[i] \notin overlapped /\ Len(written') - i < Cap =>
                              /\ Within(index', key[written'[i]], Len(written') - i)
                              /\ \A q \in Requests : stage'[q] = "index" =>
                                    Within(existing[q], key[written'[i]], Len(written') - i)
      BY DEF KeysAreKept
    <2>1. CASE i <= Len(written)
      <3> DEFINE d == Len(written) - i
                 k == key[written[i]]
      <3>1. /\ i \in DOMAIN written /\ written'[i] = written[i] /\ written[i] \in Requests
            /\ d \in Nat /\ Len(written') - i = d + 1
        BY <1>3, <2>1, ElementOfSeq DEF AuditTypeOK
      <3>2. stage'[written[i]] # "new"
        BY <1>2, <3>1 DEF KeysAreKept
      <3>3. ASSUME written[i] \notin overlapped, d + 1 < Cap
            PROVE  /\ Within(index', k, d + 1)
                   /\ \A q \in Requests : stage'[q] = "index" => Within(existing[q], k, d + 1)
        <4>1. d < Cap
          BY <3>1, <3>3, AuditAssumption DEF AuditAssumption
        <4>2. \A q \in Requests : stage[q] = "index" => Within(existing[q], k, d)
          BY <3>1, <3>3, <4>1 DEF KeysAreKept
        <4>3. Within(index', k, d + 1)
          BY <1>1, <3>1, <3>3, <4>2, AppendedKeeps
        <4>4. ASSUME NEW q \in Requests, stage'[q] = "index"
              PROVE  Within(existing[q], k, d + 1)
          <5>1. Within(existing[q], k, d) /\ existing[q] \in Seq(Times)
            BY <1>2, <4>2, <4>4 DEF AuditTypeOK
          <5>2. Len(existing[q]) \in Nat /\ DOMAIN existing[q] = 1 .. Len(existing[q])
            BY <5>1, LenProperties
          <5>3. QED
            BY <3>1, <5>1, <5>2 DEF Within
        <4>5. QED
          BY <4>3, <4>4
      <3>4. QED
        BY <3>1, <3>2, <3>3
    <2>2. CASE i = Len(written) + 1
      <3>1. written'[i] = r /\ Len(written') - i = 0
        BY <1>3, <2>2
      <3>2. Within(index', key[r], 0)
        BY <1>1, AppendedKeeps
      <3>3. ASSUME r \notin overlapped, NEW q \in Requests, stage'[q] = "index"
            PROVE  FALSE
        <4>1. q # r /\ q \in InProgress /\ r \in InProgress
          BY <1>2, <3>3 DEF InProgress
        <4>2. QED
          BY <3>3, <4>1 DEF RacesAreNoted
      <3>4. QED
        BY <1>2, <3>1, <3>2, <3>3
    <2>3. QED
      BY <1>3, <2>1, <2>2
  <1>10. QED
    BY <1>4, <1>5, <1>6, <1>7, <1>8, <1>9

LEMMA AuditNextInv == AuditInv /\ [AuditNext]_auditVars => AuditInv'
  <1> SUFFICES ASSUME AuditInv, [AuditNext]_auditVars PROVE AuditInv'
    OBVIOUS
  <1>1. ASSUME NEW r \in Requests, Log(r) \/ GetIndex(r) PROVE AuditInv'
    BY <1>1, LogInv, ReadInv
  <1>2. ASSUME NEW r \in Requests, PutEntry(r) PROVE AuditInv'
    <2>1. r \in InProgress
      BY <1>2 DEF PutEntry, InProgress
    <2>2. QED
      BY <1>2, <2>1, EntryInv DEF PutEntry
  <1>3. ASSUME NEW r \in Requests, PutIndex(r) PROVE AuditInv'
    BY <1>3, IndexInv DEF PutIndex
  <1>4. ASSUME NEW r \in Requests, Fail(r) PROVE AuditInv'
    <2>1. CASE UNCHANGED <<index, written>> /\ (StoreEntry(r) \/ UNCHANGED entries)
      BY <1>4, <2>1, EntryInv DEF Fail
    <2>2. CASE stage[r] = "index" /\ StoreIndex(r) /\ UNCHANGED entries
      BY <1>4, <2>2, IndexInv DEF Fail
    <2>3. QED
      BY <1>4, <2>1, <2>2 DEF Fail
  <1>5. ASSUME Tick \/ UNCHANGED auditVars PROVE AuditInv'
    <2>1. UNCHANGED <<entries, index, stage, key, existing, written, overlapped>>
      BY <1>5 DEF Tick, auditVars
    <2>2. now' \in Times
      BY <1>5, AuditAssumption DEF Tick, auditVars, AuditAssumption, AuditInv,
         IndexedIsStored, AuditTypeOK, Times
    <2>3. QED
      BY <2>1, <2>2 DEF AuditInv, IndexedIsStored, AuditTypeOK, StoredFirst, OwnEntries,
         RacesAreNoted, InProgress, KeysAreKept
  <1>6. QED
    BY <1>1, <1>2, <1>3, <1>4, <1>5 DEF AuditNext

LEMMA AuditInvCorrect == AuditSpec => []AuditInv
  BY AuditInitInv, AuditNextInv, PTL DEF AuditSpec

\* The index never names an entry that is not there, whatever requests race,
\* fail half-way or write stale copies back.
THEOREM IndexedIsStoredCorrect == AuditSpec => []IndexedIsStored
  <1>1. AuditInv => IndexedIsStored
    BY DEF AuditInv
  <1>2. QED
    BY AuditInvCorrect, <1>1, PTL

\* An entry logged while nobody else was logging is shown until Cap more keys
\* have been written, however those race.
THEOREM LoggedAloneIsShownCorrect == AuditSpec => []LoggedAloneIsShown
  <1>1. AuditInv => LoggedAloneIsShown
    <2> SUFFICES ASSUME AuditInv, NEW r \in Requests, r \notin overlapped, ShouldShow(r)
                 PROVE  r \in Logs
      BY DEF LoggedAloneIsShown
    <2>1. PICK i \in DOMAIN written : written[i] = r /\ i > Len(written) - Cap
      BY DEF ShouldShow
    <2>2. i \in Nat /\ Len(written) \in Nat /\ Cap \in Nat
      BY LenProperties, AuditAssumption DEF AuditInv, IndexedIsStored, AuditTypeOK,
         AuditAssumption
    <2>3. Within(index, key[r], Len(written) - i)
      BY <2>1, <2>2 DEF AuditInv, KeysAreKept
    <2>4. PICK j \in DOMAIN index : index[j] = key[r]
      BY <2>3 DEF Within
    <2>5. entries[key[r]] # NoRequest /\ key[r] \in Times
      BY DEF AuditInv, StoredFirst, ShouldShow, IndexedIsStored, AuditTypeOK
    <2>6. entries[key[r]] = r
      BY <2>5 DEF AuditInv, OwnEntries, ShouldShow, IndexedIsStored, AuditTypeOK
    <2>7. QED
      BY <2>4, <2>5, <2>6 DEF Logs
  <1>2. QED
    BY AuditInvCorrect, <1>1, PTL

=============================================================================
