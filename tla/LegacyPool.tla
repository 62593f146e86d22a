----------------------------- MODULE LegacyPool -----------------------------
(***************************************************************************)
(* A pool deployed and activated by earlier versions of the programs: its  *)
(* MintConfig has no co_authority yet (83 bytes, or 115 with the field     *)
(* left zero), and its PoolConfig may end before gatekeeper_network.  The  *)
(* current programs run on it, and the operators follow the runbook of     *)
(* docs/COLLATERAL_DEPOSIT.md: migrate, fix the co-authority, whitelist.   *)
(***************************************************************************)
EXTENDS Governor

\* The MintConfig an earlier transfer_authority left behind: the pool is the
\* authority and nobody the co-authority.
HandedOverMint ==
    \/ LegacyMint(Pool)
    \/ /\ layout = "v2" /\ rent_covered = TRUE
       /\ authority = Pool /\ co_authority = NoKey
       /\ entry \in [Wallets -> Roles \cup {"None"}]
       /\ total_whitelisted = Cardinality(Listed)
       /\ supply = 0 /\ balance = [w \in Wallets |-> 0]

LegacyInit ==
    /\ HandedOverMint
    /\ pool_layout \in {"v1", "v2"} /\ pool_authority \in Wallets
    /\ status = "Active" /\ lending_market \in Markets
    /\ gatekeeper = NoNetwork
    /\ admins = {} /\ passes = {}
    /\ vault = 0 /\ underlying = [w \in Wallets |-> Endowment]

\* Root repeats the migration of the pool account and the repair of the mint
\* until each has succeeded; root or an admin resubmits every applicant.
OperatorFairness ==
    /\ WF_vars(\E s \in Wallets, net \in Networks : set_gatekeeper_network(s, net))
    /\ WF_vars(\E s \in Wallets : fix_co_authority(s))
    /\ \A w \in Wallets :
          WF_vars(\E s \in Wallets : add_participant_via_pool(s, w, "Holder"))

\* Somebody also sends the mint config the lamports its new size needs.
FunderFairness == WF_vars(FundConfig /\ UNCHANGED <<poolVars, cash>>)

RunbookSpec == LegacyInit /\ [][Next]_vars /\ OperatorFairness
FundedSpec == RunbookSpec /\ FunderFairness

\* Repairing a legacy pool brings whitelisting back: every applicant the
\* operators keep submitting is listed in the end.
EveryApplicantIsListed == \A w \in Wallets : <>(entry[w] # "None")

=============================================================================
