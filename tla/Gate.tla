-------------------------------- MODULE Gate --------------------------------
(***************************************************************************)
(* What stands before the pages in one browser tab: GeoGate, and the KYC   *)
(* gate of the institutional frontend (KycGate) or of the retail one       *)
(* (SavingsApp and its KycGate).                                           *)
(*                                                                         *)
(* A check belongs to the wallet that was connected when it began, asks    *)
(* the ledger and then the backend, and is not cancelled when the user     *)
(* connects another wallet: its answer goes into the state all wallets     *)
(* share, and, when it is an approval, into the session storage under the  *)
(* name of its own wallet, which survives a reload.                        *)
(***************************************************************************)
EXTENDS Naturals, FiniteSets

CONSTANTS Wallets, Nobody,
          Authority,        \* ROOT_AUTHORITY
          ByteIsOne,        \* byte 64 of a pool's entries, inside its mint_config, is 1
          Blocked, Allowed, \* countries: BLOCKED_COUNTRIES, and another
          MaxChanges, MaxFaults   \* bounds

ASSUME GateAssumption ==
    /\ Nobody \notin Wallets /\ Authority \in Wallets /\ IsFiniteSet(Wallets)
    /\ ByteIsOne \in BOOLEAN
    /\ Blocked # Allowed /\ {Blocked, Allowed} \cap {"none", "UNKNOWN"} = {}
    /\ MaxChanges \in Nat /\ MaxFaults \in Nat

VARIABLES
    app,        \* which frontend the tab shows
    connected,  \* the wallet
    status,     \* what the gate shows: checking, approved, closed (pending or
                \* not_approved), error, unknown, busy (self_whitelisting)
    session,    \* wallets whose approval the session storage holds
    work,       \* checks and verifications under way, each of its wallet
    listed,     \* wallets with a whitelist entry
    admins,     \* wallets with an admin entry
    record,     \* status of the wallets' records at the backend
    granted,    \* wallets the ledger or the backend has let in at some time
    country,    \* where the user is, and the session storage's "geo-country"
    cached_country,
    geo,        \* GeoGate: checking, blocked, allowed
    changes, faults

outside == <<listed, admins, record, granted>>
gate == <<connected, status, session, work>>
world == <<country, cached_country, geo>>
gateVars == <<app, gate, outside, world, changes, faults>>

Stages == {"ledger", "backend", "submit", "approve", "register"}

GateTypeOK ==
    /\ app \in {"institutional", "retail"}
    /\ connected \in Wallets \cup {Nobody}
    /\ status \in {"none", "checking", "approved", "closed", "error", "unknown", "busy"}
    /\ work \subseteq [wallet : Wallets, at : Stages]
    /\ record \in [Wallets -> {"none", "pending", "approved"}]
    /\ cached_country \in {"none", "UNKNOWN", Blocked, Allowed}
    /\ geo # "allowed" => connected = Nobody /\ work = {}

-----------------------------------------------------------------------------
(* GeoGate *)

GeoOf(c) == IF c = Blocked THEN "blocked" ELSE "allowed"

Mutant_GeoGate_lookup_Uncached ==
    /\ geo = "checking" /\ cached_country = "none"
    /\ geo' = GeoOf(country)
    /\ UNCHANGED <<app, gate, outside, country, cached_country, changes, faults>>

GeoGate_lookup ==
    /\ geo = "checking" /\ cached_country = "none"
    /\ cached_country' = country /\ geo' = GeoOf(country)
    /\ UNCHANGED <<app, gate, outside, country, changes, faults>>

\* No answer within five seconds, or an error: open, and remembered as such.
\* An answer without a country opens the gate, too, and is not remembered.
GeoGate_fails ==
    /\ geo = "checking" /\ cached_country = "none"
    /\ faults < MaxFaults /\ faults' = faults + 1
    /\ cached_country' \in {"UNKNOWN", "none"} /\ geo' = "allowed"
    /\ UNCHANGED <<app, gate, outside, country, changes>>

GeoGate_cached ==
    /\ geo = "checking" /\ cached_country # "none"
    /\ geo' = GeoOf(cached_country)
    /\ UNCHANGED <<app, gate, outside, country, cached_country, changes, faults>>

-----------------------------------------------------------------------------
(* A check *)

\* The effect that runs when another wallet is connected, and at the start.
checkWhitelist(w, running) ==
    IF w \in session
    THEN status' = "approved" /\ work' = running
    ELSE /\ status' = "checking"
         /\ work' = running \cup {[wallet |-> w, at |-> "ledger"]}

ReadsAsApproved(w) == w \in listed /\ ByteIsOne
IsAdmin(w) == app = "institutional" /\ (w \in admins \/ w = Authority)

Mutant_Approved_ForConnected(w) ==
    status' = "approved" /\ session' = session \cup ({connected} \ {Nobody})

\* w's answer opens the gate, whoever is connected; the session remembers w.
Approved(w) == status' = "approved" /\ session' = session \cup {w}

\* An approval the retail page finds on the ledger is not remembered.
ApprovedByLedger(w) ==
    IF app = "retail" THEN status' = "approved" /\ UNCHANGED session
    ELSE Approved(w)

CheckLedger(t) ==
    /\ t \in work /\ t.at = "ledger"
    /\ IF ReadsAsApproved(t.wallet) \/ IsAdmin(t.wallet)
       THEN /\ work' = work \ {t} /\ ApprovedByLedger(t.wallet)
            /\ granted' = granted \cup {t.wallet}
       ELSE /\ work' = (work \ {t}) \cup {[t EXCEPT !.at = "backend"]}
            /\ UNCHANGED <<status, session, granted>>
    /\ UNCHANGED <<app, connected, listed, admins, record, world, changes, faults>>

\* The retail page has no way out of unknown but to connect again.
LedgerFails(t) ==
    /\ t \in work /\ t.at = "ledger"
    /\ faults < MaxFaults /\ faults' = faults + 1
    /\ work' = work \ {t}
    /\ status' = IF app = "retail" THEN "unknown" ELSE "error"
    /\ UNCHANGED <<app, connected, session, outside, world, changes>>

Mutant_CheckBackend_Stuck(t) ==
    /\ t \in work /\ t.at = "backend" /\ record[t.wallet] # "approved"
    /\ work' = work \ {t} /\ status' = "closed"
    /\ UNCHANGED <<app, connected, session, outside, world, changes, faults>>

\* A backend that does not answer counts as one that has not approved.
CheckBackend(t) ==
    /\ t \in work /\ t.at = "backend"
    /\ work' = work \ {t}
    /\ \/ record[t.wallet] = "approved" /\ Approved(t.wallet) /\ UNCHANGED faults
       \/ /\ record[t.wallet] # "approved" /\ UNCHANGED faults
          /\ status' = "closed" /\ UNCHANGED session
       \/ /\ faults < MaxFaults /\ faults' = faults + 1
          /\ status' = "closed" /\ UNCHANGED session
    /\ UNCHANGED <<app, connected, outside, world, changes>>

-----------------------------------------------------------------------------
(* What the user may do before a closed gate *)

handleBackendVerification ==
    /\ geo = "allowed" /\ status = "closed" /\ connected # Nobody
    /\ ~\E t \in work : t.at \in {"submit", "approve"}
    /\ work' = work \cup {[wallet |-> connected, at |-> "submit"]}
    /\ UNCHANGED <<app, connected, status, session, outside, world, changes, faults>>

Submit(t) ==
    /\ t \in work /\ t.at = "submit"
    /\ record' = [record EXCEPT ![t.wallet] = IF @ = "none" THEN "pending" ELSE @]
    /\ work' = (work \ {t}) \cup {[t EXCEPT !.at = "approve"]}
    /\ UNCHANGED <<app, connected, status, session, listed, admins, granted, world,
                   changes, faults>>

\* The retail page reloads when it has stored the approval, passes GeoGate with
\* the country stored, and checks the wallet that is connected by then.
Approve(t) ==
    /\ t \in work /\ t.at = "approve"
    /\ record' = [record EXCEPT ![t.wallet] = "approved"]
    /\ granted' = granted \cup {t.wallet}
    /\ IF app = "institutional"
       THEN Approved(t.wallet) /\ work' = work \ {t}
       ELSE /\ session' = session \cup {t.wallet}
            /\ IF connected = t.wallet
               THEN status' = "approved" /\ work' = {}
               ELSE IF connected = Nobody
               THEN status' = "none" /\ work' = {}
               ELSE checkWhitelist(connected, {})
    /\ UNCHANGED <<app, connected, listed, admins, world, changes, faults>>

VerificationFails(t) ==
    /\ t \in work /\ t.at \in {"submit", "approve"}
    /\ faults < MaxFaults /\ faults' = faults + 1
    /\ work' = work \ {t}
    /\ UNCHANGED <<app, connected, status, session, outside, world, changes>>

\* handleSelfWhitelist, of the authority; handleSelfRegister, with a Civic pass.
Register ==
    /\ geo = "allowed" /\ status = "closed" /\ connected # Nobody
    /\ app = "institutional" => connected = Authority
    /\ work' = work \cup {[wallet |-> connected, at |-> "register"]}
    /\ status' = IF app = "institutional" THEN "busy" ELSE status
    /\ UNCHANGED <<app, connected, session, outside, world, changes, faults>>

Registered(t) ==
    /\ t \in work /\ t.at = "register"
    /\ \/ /\ listed' = listed \cup {t.wallet} /\ granted' = granted \cup {t.wallet}
          /\ IF app = "institutional"
             THEN checkWhitelist(t.wallet, work \ {t})
             ELSE status' = "approved" /\ work' = work \ {t}
       \/ /\ status' = IF app = "institutional" THEN "closed" ELSE status
          /\ work' = work \ {t} /\ UNCHANGED <<listed, granted>>
    /\ UNCHANGED <<app, connected, session, admins, record, world, changes, faults>>

Retry ==
    /\ app = "institutional" /\ status = "error" /\ connected # Nobody
    /\ checkWhitelist(connected, work)
    /\ UNCHANGED <<app, connected, session, outside, world, changes, faults>>

-----------------------------------------------------------------------------
(* Connecting, reloading, and what happens elsewhere *)

Change == changes < MaxChanges /\ changes' = changes + 1

Connect(w) ==
    /\ geo = "allowed" /\ connected # w /\ Change /\ connected' = w
    /\ IF w = Nobody THEN status' = "none" /\ UNCHANGED work
       ELSE checkWhitelist(w, work)
    /\ UNCHANGED <<app, session, outside, world, faults>>

Reload ==
    /\ Change /\ geo' = "checking"
    /\ work' = {} /\ status' = "none" /\ connected' = Nobody
    /\ UNCHANGED <<app, session, outside, country, cached_country, faults>>

Travel ==
    /\ Change /\ country' = IF country = Blocked THEN Allowed ELSE Blocked
    /\ UNCHANGED <<app, gate, outside, cached_country, geo, faults>>

\* The pool's authority lists a wallet or removes it; an officer approves one.
Elsewhere(w) ==
    /\ Change
    /\ \/ /\ listed' = listed \cup {w} /\ granted' = granted \cup {w} /\ UNCHANGED record
       \/ /\ listed' = listed \ {w} /\ UNCHANGED <<record, granted>>
       \/ /\ record' = [record EXCEPT ![w] = "approved"]
          /\ granted' = granted \cup {w} /\ UNCHANGED listed
    /\ UNCHANGED <<app, gate, admins, world, faults>>

GateInit ==
    /\ app \in {"institutional", "retail"}
    /\ connected = Nobody /\ status = "none"
    /\ session = {} /\ work = {}
    /\ listed = {} /\ admins \in {{}, {CHOOSE w \in Wallets : w # Authority}}
    /\ record = [w \in Wallets |-> "none"] /\ granted = {}
    /\ country \in {Blocked, Allowed} /\ cached_country = "none" /\ geo = "checking"
    /\ changes = 0 /\ faults = 0

Checking(t) == CheckLedger(t) \/ CheckBackend(t)

GateNext ==
    \/ GeoGate_lookup \/ GeoGate_fails \/ GeoGate_cached
    \/ \E t \in work : Checking(t) \/ LedgerFails(t) \/ Submit(t) \/ Approve(t)
                       \/ VerificationFails(t) \/ Registered(t)
    \/ handleBackendVerification \/ Register \/ Retry
    \/ \E w \in Wallets \cup {Nobody} : Connect(w)
    \/ Reload \/ Travel \/ \E w \in Wallets : Elsewhere(w)

GateSpec == GateInit /\ [][GateNext]_gateVars

\* Requests are answered or fail.
GateFairSpec ==
    GateSpec /\ \A w \in Wallets, s \in {"ledger", "backend"} :
                   WF_gateVars(LET t == [wallet |-> w, at |-> s] IN Checking(t) \/ LedgerFails(t))

-----------------------------------------------------------------------------
(* Properties *)

\* The state is well typed, and nobody is connected or checked before GeoGate
\* is open.  The session lets in, without asking again, only wallets that the ledger or
\* the backend once let in, whatever wallet an answer found connected.
SessionIsEarned == GateTypeOK /\ session \subseteq granted

\* A tab that once was blocked stays blocked, reloaded, moved or without network.
BlockedStaysBlocked == [](geo = "blocked" => [](geo # "allowed"))

\* A check of an approved wallet ends in an open gate, unless the wallet is
\* changed or the page reloaded, or a request failed.
ApprovedGetsIn ==
    \A w \in Wallets :
        (status = "checking" /\ connected = w /\ record[w] = "approved") ~>
            (status = "approved" \/ connected # w \/ faults > 0)

=============================================================================
