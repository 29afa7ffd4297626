-------------------------- MODULE GovernanceProofs --------------------------
(***************************************************************************)
(* Proofs about the two programs through which an airspace is governed:    *)
(* Airspace, for every set of keys, and MarginConfig, for every set of     *)
(* accounts, tokens, adapters and updates.  The two specifications share   *)
(* no variable; their proofs are independent of each other.                *)
(***************************************************************************)
EXTENDS Airspace, MarginConfig, TLAPS

-----------------------------------------------------------------------------
(* The airspace program.                                                   *)

\* Whoever may issue permits in a restricted airspace now is on record: the
\* strengthening that makes RestrictedPermitsWereGranted inductive.
IssuersOnRecord ==
    /\ issuerIds \subseteq entitled
    /\ airspace.exists => airspace.authority \in entitled

AirspaceInv ==
    /\ AirspaceTypeOK
    /\ ProposalIsCurrent
    /\ IssuersOnRecord
    /\ RestrictedPermitsWereGranted

\* The empty ledger of the program satisfies the invariant.
LEMMA AirspaceInitInv == AirspaceInit => AirspaceInv
  BY AirspaceAssumption
  DEF AirspaceInit, AirspaceInv, AirspaceTypeOK, ProposalIsCurrent, IssuersOnRecord,
      RestrictedPermitsWereGranted, NoTransfer, Transfer

\* The steps of the governor keep the invariant: they leave the airspace, its
\* issuers and its permits alone.
LEMMA GovernorInv ==
  ASSUME AirspaceInv, NEW signer \in Key, NEW k \in Key \cup {NoOne},
         \/ CreateGovernorId
         \/ GovernorPropose(signer, k)
         \/ GovernorFinalizePropose(signer)
  PROVE  AirspaceInv'
  <1>1. CASE CreateGovernorId
        BY <1>1, AirspaceAssumption
        DEF CreateGovernorId, AirspaceInv, AirspaceTypeOK, ProposalIsCurrent, IssuersOnRecord,
            RestrictedPermitsWereGranted
  <1>2. CASE GovernorPropose(signer, k)
        BY <1>2, AirspaceAssumption
        DEF GovernorPropose, Proposal, Transfer, AirspaceInv, AirspaceTypeOK, ProposalIsCurrent,
            IssuersOnRecord, RestrictedPermitsWereGranted
  <1>3. CASE GovernorFinalizePropose(signer)
        BY <1>3, AirspaceAssumption
        DEF GovernorFinalizePropose, NoTransfer, Transfer, AirspaceInv, AirspaceTypeOK,
            ProposalIsCurrent, IssuersOnRecord, RestrictedPermitsWereGranted
  <1>4. QED
        BY <1>1, <1>2, <1>3

\* The steps that create the airspace and change its authority keep it: a new
\* authority goes on record, and a transfer ends with the handover.
LEMMA AuthorityInv ==
  ASSUME AirspaceInv, NEW signer \in Key, NEW k \in Key \cup {NoOne}, NEW restricted \in BOOLEAN,
         \/ AirspaceCreate(signer, restricted, k)
         \/ AirspaceTransferAuthority(signer, k)
         \/ AirspaceAuthorityCancelProposal(signer)
         \/ AirspaceAuthorityFinalize(signer)
  PROVE  AirspaceInv'
  <1>1. CASE AirspaceCreate(signer, restricted, k)
    <2>1. ~transfer.exists /\ issuerIds = {} /\ permits = [owner \in Key |-> NoOne]
          BY <1>1 DEF AirspaceCreate, AirspaceInv, AirspaceTypeOK, ProposalIsCurrent
    <2>2. QED
          BY <1>1, <2>1, AirspaceAssumption
          DEF AirspaceCreate, AirspaceInv, AirspaceTypeOK, ProposalIsCurrent, IssuersOnRecord,
              RestrictedPermitsWereGranted
  <1>2. CASE AirspaceTransferAuthority(signer, k)
        BY <1>2, AirspaceAssumption
        DEF AirspaceTransferAuthority, Proposal, Transfer, AirspaceInv, AirspaceTypeOK, ProposalIsCurrent,
            IssuersOnRecord, RestrictedPermitsWereGranted
  <1>3. CASE AirspaceAuthorityCancelProposal(signer)
        BY <1>3, AirspaceAssumption
        DEF AirspaceAuthorityCancelProposal, NoTransfer, Transfer, AirspaceInv, AirspaceTypeOK,
            ProposalIsCurrent, IssuersOnRecord, RestrictedPermitsWereGranted
  <1>4. CASE AirspaceAuthorityFinalize(signer)
        BY <1>4, AirspaceAssumption
        DEF AirspaceAuthorityFinalize, NoTransfer, Transfer, AirspaceInv, AirspaceTypeOK,
            ProposalIsCurrent, IssuersOnRecord, RestrictedPermitsWereGranted
  <1>5. QED
        BY <1>1, <1>2, <1>3, <1>4

\* Licences and permits keep it: only somebody on record issues a permit in a
\* restricted airspace, and nobody leaves the record with the licence.
LEMMA PermitInv ==
  ASSUME AirspaceInv, NEW signer \in Key, NEW k \in Key,
         \/ AirspacePermitIssuerCreate(signer, k)
         \/ AirspacePermitIssuerRevoke(signer, k)
         \/ AirspacePermitCreate(signer, k)
         \/ AirspacePermitRevoke(signer, k)
  PROVE  AirspaceInv'
  <1>1. CASE AirspacePermitIssuerCreate(signer, k)
        BY <1>1, AirspaceAssumption
        DEF AirspacePermitIssuerCreate, AirspaceInv, AirspaceTypeOK, ProposalIsCurrent, IssuersOnRecord,
            RestrictedPermitsWereGranted
  <1>2. CASE AirspacePermitIssuerRevoke(signer, k)
        BY <1>2, AirspaceAssumption
        DEF AirspacePermitIssuerRevoke, AirspaceInv, AirspaceTypeOK, ProposalIsCurrent, IssuersOnRecord,
            RestrictedPermitsWereGranted
  <1>3. CASE AirspacePermitCreate(signer, k)
    <2>1. airspace.isRestricted => signer \in entitled
          BY <1>3 DEF AirspacePermitCreate, AirspaceInv, IssuersOnRecord
    <2>2. QED
          BY <1>3, <2>1, AirspaceAssumption
          DEF AirspacePermitCreate, AirspaceInv, AirspaceTypeOK, ProposalIsCurrent, IssuersOnRecord,
              RestrictedPermitsWereGranted
  <1>4. CASE AirspacePermitRevoke(signer, k)
        BY <1>4, AirspaceAssumption
        DEF AirspacePermitRevoke, AirspaceInv, AirspaceTypeOK, ProposalIsCurrent, IssuersOnRecord,
            RestrictedPermitsWereGranted
  <1>5. QED
        BY <1>1, <1>2, <1>3, <1>4

\* Every step keeps the invariant.
LEMMA AirspaceNextInv == AirspaceInv /\ [AirspaceNext]_airspaceVars => AirspaceInv'
  <1>1. SUFFICES ASSUME AirspaceInv, [AirspaceNext]_airspaceVars
                 PROVE  AirspaceInv'
        OBVIOUS
  <1>2. CASE UNCHANGED airspaceVars
        BY <1>1, <1>2
        DEF airspaceVars, AirspaceInv, AirspaceTypeOK, ProposalIsCurrent, IssuersOnRecord,
            RestrictedPermitsWereGranted
  <1>3. CASE AirspaceNext
    <2>1. CASE CreateGovernorId
          BY <1>1, <2>1, AirspaceAssumption, GovernorInv
    <2>2. ASSUME NEW signer \in Key, NEW k \in Key \cup {NoOne}, NEW restricted \in BOOLEAN,
                 \/ GovernorPropose(signer, k)
                 \/ GovernorFinalizePropose(signer)
                 \/ AirspaceCreate(signer, restricted, k)
                 \/ AirspaceTransferAuthority(signer, k)
                 \/ AirspaceAuthorityCancelProposal(signer)
                 \/ AirspaceAuthorityFinalize(signer)
          PROVE  AirspaceInv'
          BY <1>1, <2>2, GovernorInv, AuthorityInv
    <2>3. ASSUME NEW signer \in Key, NEW k \in Key,
                 \/ AirspacePermitIssuerCreate(signer, k)
                 \/ AirspacePermitIssuerRevoke(signer, k)
                 \/ AirspacePermitCreate(signer, k)
                 \/ AirspacePermitRevoke(signer, k)
          PROVE  AirspaceInv'
          BY <1>1, <2>3, PermitInv
    <2>4. QED
          BY <1>3, <2>1, <2>2, <2>3, AirspaceAssumption DEF AirspaceNext
  <1>4. QED
        BY <1>1, <1>2, <1>3

\* In every reachable state the invariant holds.
THEOREM AirspaceInvariance == AirspaceSpec => []AirspaceInv
  BY AirspaceInitInv, AirspaceNextInv, PTL DEF AirspaceSpec

\* A pending handover can always be finished or, for the airspace, cancelled:
\* it names whoever holds the office (airspace_set_authority.rs,
\* set_governor.rs).
THEOREM ProposalsStayCurrent == AirspaceSpec => []ProposalIsCurrent
  <1>1. AirspaceInv => ProposalIsCurrent
        BY DEF AirspaceInv
  <1>2. QED
        BY <1>1, AirspaceInvariance, PTL

\* In a restricted airspace, whatever handovers and revocations there have
\* been, every permit was issued by somebody with the right to do so
\* (airspace_permit_create.rs).
THEOREM PermitsAreGranted == AirspaceSpec => []RestrictedPermitsWereGranted
  <1>1. AirspaceInv => RestrictedPermitsWereGranted
        BY DEF AirspaceInv
  <1>2. QED
        BY <1>1, AirspaceInvariance, PTL

\* No step but its acceptance touches a governor's proposal (set_governor.rs).
THEOREM GovernorProposalsStand == AirspaceSpec => GovernorProposalStands
  <1>1. AirspaceInv /\ [AirspaceNext]_airspaceVars =>
          [governorTransfer.exists =>
             \/ UNCHANGED <<governor, governorTransfer>>
             \/ governor' = governorTransfer.new /\ ~governorTransfer'.exists]_airspaceVars
    <2>1. SUFFICES ASSUME AirspaceInv, AirspaceNext, governorTransfer.exists
                   PROVE  \/ UNCHANGED <<governor, governorTransfer>>
                          \/ governor' = governorTransfer.new /\ ~governorTransfer'.exists
          OBVIOUS
    <2>2. governor # NoOne
          BY <2>1 DEF AirspaceInv, AirspaceTypeOK
    <2>3. QED
          BY <2>1, <2>2
          DEF AirspaceNext, CreateGovernorId, GovernorPropose, GovernorFinalizePropose,
              AirspaceCreate, AirspaceTransferAuthority, AirspaceAuthorityCancelProposal,
              AirspaceAuthorityFinalize, AirspacePermitIssuerCreate,
              AirspacePermitIssuerRevoke, AirspacePermitCreate, AirspacePermitRevoke,
              NoTransfer
  <1>2. QED
        BY <1>1, AirspaceInvariance, PTL DEF AirspaceSpec, GovernorProposalStands

-----------------------------------------------------------------------------
(* The margin program's configuration.                                     *)

ConfigField == {"exists", "old", "underlying", "program", "admin", "kind", "modifier",
                "staleness", "features"}
PositionField == {"exists", "kind", "adapter", "modifier", "staleness", "balance",
                  "features"}
AccountField == {"exists", "features", "constraints", "position"}

\* A config within the limits that a position will copy.
ConfigOK(c) ==
    /\ DOMAIN c = ConfigField
    /\ c.exists = TRUE
    /\ c.old \in BOOLEAN
    /\ c.kind \in Kind
    /\ c.features \subseteq TokenFeature
    /\ c.modifier \in Nat
    /\ c.staleness \in Nat
    /\ CheckModifierLimits(c)
    /\ CheckMaxStaleness(c)
    /\ AdapterProgram(c) \in Adapter \cup {NoAdapter}

\* A position that follows config c.  That c is in the new layout is what
\* keeps migrate_token_config from resetting the features under the position.
PositionOK(p, c) ==
    /\ DOMAIN p = PositionField
    /\ p.exists = TRUE
    /\ c.exists = TRUE
    /\ c.old = FALSE
    /\ p.kind = c.kind
    /\ p.adapter = AdapterProgram(c)
    /\ CheckModifierLimits(p)
    /\ CheckMaxStaleness(p)
    /\ p.features \subseteq TokenFeature
    /\ p.balance \in 0 .. MaxBalance

\* An account without flags has no restricted position, and VIOLATION marks
\* only accounts without flags.
Marked(acc) ==
    /\ "VIOLATION" \in acc.features => acc.features = {"VIOLATION"}
    /\ acc.features = {} =>
         \A t \in Token : acc.position[t].exists =>
            "RESTRICTED" \notin acc.position[t].features

AccountOK(acc) ==
    /\ DOMAIN acc = AccountField
    /\ acc.exists = TRUE
    /\ acc.features \subseteq AccountFlag
    /\ acc.constraints \subseteq AccountConstraint
    /\ DOMAIN acc.position = Token
    /\ \A t \in Token : \/ acc.position[t] = Nothing
                        \/ PositionOK(acc.position[t], config[t])
    /\ Marked(acc)

ConfigsOK ==
    /\ DOMAIN config = Token
    /\ \A t \in Token : config[t] = Nothing \/ ConfigOK(config[t])

AccountsOK ==
    /\ DOMAIN account = Account
    /\ \A a \in Account : account[a] = Nothing \/ AccountOK(account[a])

OthersOK ==
    /\ adapters \subseteq Adapter
    /\ permit \in [Refresher -> SUBSET Permission]
    /\ ticket \in [Account -> Adapter \cup {NoAdapter}]

IndInv == ConfigsOK /\ AccountsOK /\ OthersOK /\ ConstraintsHaveATicket

-----------------------------------------------------------------------------
(* What the parts of the invariant say of one config and one account.      *)

\* What an update leaves is within the limits configure_token checks.
LEMMA UpdateOK ==
  ASSUME NEW t \in Token, NEW u \in Update[t], NEW c,
         CheckModifierLimits(u), CheckMaxStaleness(u)
  PROVE  /\ ConfigOK(AppliedUpdate(c, u))
         /\ AppliedUpdate(c, u).old = FALSE
         /\ AppliedUpdate(c, u).features = u.features
  <1>1. TokenConfigUpdate(u)
        BY ConfigAssumption
  <1>2. QED
        BY <1>1
        DEF TokenConfigUpdate, AppliedUpdate, ConfigOK, ConfigField, AdapterProgram,
            CheckModifierLimits, CheckMaxStaleness

\* A config in the old layout is within the same limits.
LEMMA OldConfigOK ==
  ASSUME NEW t \in Token, OldLayout[t]
  PROVE  ConfigOK(OldConfig(t))
  <1> DEFINE u == CHOOSE x \in Update[t] : BeforeFeatures(x)
  <1>1. \E x \in Update[t] : BeforeFeatures(x)
        BY ConfigAssumption
  <1>2. u \in Update[t] /\ BeforeFeatures(u)
        BY <1>1
  <1> HIDE DEF u
  <1>3. ConfigOK(AppliedUpdate(Nothing, u))
        BY <1>2, UpdateOK DEF BeforeFeatures
  <1>4. ConfigOK([AppliedUpdate(Nothing, u) EXCEPT !.old = TRUE])
        BY <1>3
        DEF ConfigOK, ConfigField, AdapterProgram, CheckModifierLimits, CheckMaxStaleness
  <1>5. QED
        BY <1>4 DEF OldConfig, u

\* The empty ledger, but for configs in the old layout, satisfies the invariant.
LEMMA InitInv == Init => IndInv
  <1>1. SUFFICES ASSUME Init PROVE IndInv
        OBVIOUS
  <1>2. ConfigsOK
        BY <1>1, OldConfigOK DEF Init, ConfigsOK
  <1>3. AccountsOK
        BY <1>1 DEF Init, AccountsOK
  <1>4. OthersOK
        BY <1>1 DEF Init, OthersOK
  <1>5. ConstraintsHaveATicket
        BY <1>1 DEF Init, ConstraintsHaveATicket, Nothing
  <1>6. QED
        BY <1>2, <1>3, <1>4, <1>5 DEF IndInv

\* An account that exists is well formed.
LEMMA ExistingAccount ==
  ASSUME IndInv, NEW a \in Account, account[a].exists
  PROVE  AccountOK(account[a])
  BY DEF IndInv, AccountsOK, Nothing

\* A config that is there is well formed.
LEMMA ExistingConfig ==
  ASSUME IndInv, NEW t \in Token, config[t].exists
  PROVE  ConfigOK(config[t])
  BY DEF IndInv, ConfigsOK, Nothing

\* A step that leaves the configs alone and makes of one account a well
\* formed one with the same constraints keeps the invariant.
LEMMA AccountStep ==
  ASSUME IndInv, NEW a \in Account, NEW acc, AccountOK(acc),
         account[a].exists,
         acc.constraints = account[a].constraints,
         account' = [account EXCEPT ![a] = acc],
         UNCHANGED <<config, adapters, permit, ticket>>
  PROVE  IndInv'
  <1>1. ConfigsOK' /\ OthersOK'
        BY DEF IndInv, ConfigsOK, OthersOK, ConfigOK
  <1>2. \A b \in Account : account'[b] = IF b = a THEN acc ELSE account[b]
        BY DEF IndInv, AccountsOK
  <1>3. \A x : AccountOK(x) => AccountOK(x)'
        BY DEF AccountOK, PositionOK, Marked
  <1>4. AccountsOK'
        BY <1>2, <1>3 DEF IndInv, AccountsOK
  <1>5. ConstraintsHaveATicket'
        BY <1>2 DEF IndInv, ConstraintsHaveATicket, AccountOK
  <1>6. QED
        BY <1>1, <1>4, <1>5 DEF IndInv

-----------------------------------------------------------------------------
(* Configuring tokens, adapters and permits.                               *)

\* A step that only changes the configs keeps the invariant if the configs
\* stay well formed and every position follows the new config as well.
LEMMA ConfigStep ==
  ASSUME IndInv, ConfigsOK',
         \A t \in Token : \A p : PositionOK(p, config[t]) => PositionOK(p, config'[t]),
         UNCHANGED <<adapters, permit, account, ticket>>
  PROVE  IndInv'
  <1>1. \A x : AccountOK(x) => AccountOK(x)'
        BY DEF AccountOK, Marked, PositionOK
  <1>2. AccountsOK'
        BY <1>1 DEF IndInv, AccountsOK
  <1>3. OthersOK' /\ ConstraintsHaveATicket'
        BY DEF IndInv, OthersOK, ConstraintsHaveATicket
  <1>4. QED
        BY <1>2, <1>3 DEF IndInv

\* configure_token keeps the invariant: the kind and the adapter of a config
\* that exists do not change, whatever else does.
LEMMA ConfigureTokenInv ==
  ASSUME IndInv, NEW t \in Token, NEW u \in Update[t], ConfigureToken(t, u)
  PROVE  IndInv'
  <1> DEFINE new == AppliedUpdate(config[t], u)
  <1>1. ConfigOK(new)
        BY UpdateOK DEF ConfigureToken
  <1>2. new.old = FALSE /\ new.kind = u.kind /\ new.admin = u.admin
        BY DEF AppliedUpdate
  <1>3. config[t].exists => u.kind = config[t].kind
                            /\ AdapterProgram(new) = AdapterProgram(config[t])
        BY <1>2
        DEF ConfigureToken, ValidateImmutabilityConstraints, CompareTokenKindImmutability,
            AllowAdminTransition, AdapterProgram
  <1> HIDE DEF new
  <1>4. config' = [config EXCEPT ![t] = new]
        BY DEF ConfigureToken, new
  <1>5. ConfigsOK'
        BY <1>1, <1>4 DEF IndInv, ConfigsOK
  <1>6. ASSUME NEW s \in Token, NEW p, PositionOK(p, config[s])
        PROVE  PositionOK(p, config'[s])
    <2>1. CASE s = t
      <3>1. config'[s] = new
            BY <1>4, <2>1 DEF IndInv, ConfigsOK
      <3>2. new.exists = TRUE /\ p.kind = new.kind /\ p.adapter = AdapterProgram(new)
            BY <1>1, <1>2, <1>3, <1>6, <2>1 DEF PositionOK, ConfigOK
      <3>3. QED
            BY <1>2, <1>6, <3>1, <3>2 DEF PositionOK
    <2>2. CASE s # t
      <3>1. config'[s] = config[s]
            BY <1>4, <2>2 DEF IndInv, ConfigsOK
      <3>2. QED
            BY <1>6, <3>1
    <2>3. QED
          BY <2>1, <2>2
  <1>7. UNCHANGED <<adapters, permit, account, ticket>>
        BY DEF ConfigureToken
  <1>8. QED
        BY <1>5, <1>6, <1>7, ConfigStep

\* migrate_token_config keeps it: nothing that a position copies changes.
LEMMA MigrateTokenConfigInv ==
  ASSUME IndInv, NEW t \in Token, MigrateTokenConfig(t)
  PROVE  IndInv'
  <1> DEFINE new == [config[t] EXCEPT !.old = FALSE, !.features = {}]
  <1>1. ConfigOK(config[t])
        BY ExistingConfig DEF MigrateTokenConfig
  <1>2. /\ DOMAIN new = ConfigField
        /\ new.old = FALSE /\ new.features = {}
        /\ new.exists = config[t].exists /\ new.kind = config[t].kind
        /\ new.admin = config[t].admin /\ new.modifier = config[t].modifier
        /\ new.staleness = config[t].staleness
        BY <1>1 DEF ConfigOK, ConfigField
  <1>3. config' = [config EXCEPT ![t] = new]
        BY <1>1 DEF MigrateTokenConfig, IndInv, ConfigsOK, ConfigOK, ConfigField
  <1> HIDE DEF new
  <1>4. ConfigOK(new)
        BY <1>1, <1>2 DEF ConfigOK, CheckModifierLimits, CheckMaxStaleness, AdapterProgram
  <1>5. ConfigsOK'
        BY <1>3, <1>4 DEF IndInv, ConfigsOK
  <1>6. \A s \in Token : config'[s] = IF s = t THEN new ELSE config[s]
        BY <1>3 DEF IndInv, ConfigsOK
  <1>7. \A p : PositionOK(p, config[t]) => PositionOK(p, new)
        BY <1>2 DEF PositionOK, AdapterProgram
  <1>8. UNCHANGED <<adapters, permit, account, ticket>>
        BY DEF MigrateTokenConfig
  <1>9. QED
        BY <1>5, <1>6, <1>7, <1>8, ConfigStep

\* Adapters and permits keep it.
LEMMA RegistryInv ==
  ASSUME IndInv, NEW b \in BOOLEAN,
         \/ \E ad \in Adapter : ConfigureAdapter(ad, b)
         \/ \E r \in Refresher : ConfigurePermit(r, b, "REFRESH_POSITION_CONFIG")
  PROVE  IndInv'
  <1>1. OthersOK'
        BY DEF IndInv, OthersOK, ConfigureAdapter, ConfigurePermit, Permission
  <1>2. UNCHANGED <<config, account, ticket>>
        BY DEF ConfigureAdapter, ConfigurePermit
  <1>3. ConfigsOK' /\ ConstraintsHaveATicket'
        BY <1>2 DEF IndInv, ConfigsOK, ConfigOK, ConstraintsHaveATicket
  <1>4. AccountsOK'
        BY <1>2 DEF IndInv, AccountsOK, AccountOK, Marked, PositionOK
  <1>5. QED
        BY <1>1, <1>3, <1>4 DEF IndInv

-----------------------------------------------------------------------------
(* Positions and balances.                                                 *)

\* new is acc but for its features and its position in t.
Differs(new, acc, t) ==
    /\ DOMAIN new = AccountField
    /\ new.exists = TRUE
    /\ new.constraints = acc.constraints
    /\ DOMAIN new.position = Token
    /\ \A s \in Token : s # t => new.position[s] = acc.position[s]

\* Replacing one position by one that follows its config leaves a well formed
\* account if the features still say what the position is.
LEMMA ReplacedPosition ==
  ASSUME NEW acc, NEW new, NEW t \in Token, AccountOK(acc), Differs(new, acc, t),
         new.position[t] = Nothing \/ PositionOK(new.position[t], config[t]),
         new.features \subseteq AccountFlag,
         "VIOLATION" \in new.features => new.features = {"VIOLATION"},
         new.features = {} =>
            /\ acc.features = {}
            /\ new.position[t].exists => "RESTRICTED" \notin new.position[t].features
  PROVE  AccountOK(new)
  BY DEF AccountOK, Differs, Marked

\* A new position follows the config it copies.
LEMMA NewPositionOK ==
  ASSUME IndInv, NEW t \in Token, Readable(t)
  PROVE  PositionOK(NewPosition(config[t]), config[t])
  <1>1. ConfigOK(config[t]) /\ config[t].old = FALSE
        BY ExistingConfig DEF Readable, ConfigOK
  <1>2. QED
        BY <1>1, ConfigAssumption
        DEF PositionOK, PositionField, NewPosition, ConfigOK, CheckModifierLimits,
            CheckMaxStaleness

\* Registering a position keeps the invariant, the features the account was
\* created with and the mark of a violation included.
LEMMA RegisterInv ==
  ASSUME IndInv, NEW a \in Account, NEW t \in Token,
         account[a].exists, Readable(t), RegisterWith(a, t)
  PROVE  IndInv'
  <1> DEFINE acc == account[a]
             p == IF acc.position[t].exists THEN acc.position[t] ELSE NewPosition(config[t])
             new == [acc EXCEPT !.position = [acc.position EXCEPT ![t] = p]]
  <1>1. AccountOK(acc)
        BY ExistingAccount
  <1>2. account' = [account EXCEPT ![a] = new]
        BY DEF RegisterWith
  <1>3. Differs(new, acc, t) /\ new.position[t] = p /\ new.features = acc.features
        BY <1>1 DEF AccountOK, AccountField, Differs
  <1>4. PositionOK(p, config[t])
        BY <1>1, NewPositionOK DEF AccountOK, Nothing
  <1>5. acc.features = {} => "RESTRICTED" \notin p.features
    <2>1. SUFFICES ASSUME acc.features = {} PROVE "RESTRICTED" \notin p.features
          OBVIOUS
    <2>2. CASE acc.position[t].exists
          BY <1>1, <2>1, <2>2 DEF AccountOK, Marked
    <2>3. CASE ~acc.position[t].exists
          BY <2>1, <2>3 DEF RegisterWith, MayHold, NewPosition
    <2>4. QED
          BY <2>2, <2>3
  <1> HIDE DEF p, new
  <1>6. AccountOK(new)
        BY <1>1, <1>3, <1>4, <1>5, ReplacedPosition DEF AccountOK, Marked
  <1>7. QED
        BY <1>2, <1>3, <1>6, AccountStep DEF RegisterWith, Differs

\* Closing a position keeps it.
LEMMA UnregisterInv ==
  ASSUME IndInv, NEW a \in Account, NEW t \in Token, Unregister(a, t)
  PROVE  IndInv'
  <1> DEFINE acc == account[a]
             new == [acc EXCEPT !.position = [acc.position EXCEPT ![t] = Nothing]]
  <1>1. AccountOK(acc)
        BY ExistingAccount DEF Unregister
  <1>2. account' = [account EXCEPT ![a] = new]
        BY DEF Unregister
  <1>3. Differs(new, acc, t) /\ new.position[t] = Nothing /\ new.features = acc.features
        BY <1>1 DEF AccountOK, AccountField, Differs
  <1> HIDE DEF new
  <1>4. AccountOK(new)
    <2>1. ~new.position[t].exists
          BY <1>3 DEF Nothing
    <2>2. /\ acc.features \subseteq AccountFlag
          /\ "VIOLATION" \in acc.features => acc.features = {"VIOLATION"}
          BY <1>1 DEF AccountOK, Marked
    <2>3. QED
          BY <1>1, <1>3, <2>1, <2>2, ReplacedPosition
  <1>5. QED
        BY <1>2, <1>3, <1>4, AccountStep DEF Unregister, Differs

\* refresh_position_config keeps it: a position that becomes restricted in an
\* account without features leaves that account marked.
LEMMA RefreshInv ==
  ASSUME IndInv, NEW r \in Refresher, NEW a \in Account, NEW t \in Token,
         RefreshPositionConfig(r, a, t)
  PROVE  IndInv'
  <1> DEFINE acc == account[a]
             old == acc.position[t]
             c == config[t]
             new == Refreshed(acc, t)
  <1>1. AccountOK(acc) /\ account[a].exists /\ Readable(t)
        BY ExistingAccount DEF RefreshPositionConfig
  <1>2. ConfigOK(c)
        BY <1>1, ExistingConfig DEF Readable
  <1>3. PositionOK(old, c)
        BY <1>1 DEF RefreshPositionConfig, AccountOK, Nothing
  <1>4. Differs(new, acc, t)
        BY <1>1 DEF AccountOK, AccountField, Differs, Refreshed
  <1>5. /\ DOMAIN new.position[t] = PositionField
        /\ new.position[t].exists = TRUE
        /\ new.position[t].adapter = old.adapter
        /\ new.position[t].balance = old.balance
        /\ new.position[t].kind = c.kind
        /\ new.position[t].modifier = c.modifier
        /\ new.position[t].staleness = c.staleness
        /\ new.position[t].features = c.features
    <2>1. new.position[t] = [old EXCEPT !.kind = c.kind, !.modifier = c.modifier,
                                        !.staleness = c.staleness, !.features = c.features]
          BY <1>1, <1>3 DEF AccountOK, AccountField, PositionOK, PositionField, Refreshed
    <2>2. DOMAIN old = PositionField /\ old.exists = TRUE
          BY <1>3 DEF PositionOK
    <2> HIDE DEF new, old, c
    <2>3. QED
          BY <2>1, <2>2 DEF PositionField
  <1>6. new.features = IF acc.features = {} /\ "RESTRICTED" \in c.features
                       THEN {"VIOLATION"} ELSE acc.features
        BY <1>1 DEF AccountOK, AccountField, Refreshed
  <1>7. account' = [account EXCEPT ![a] = new]
        BY DEF RefreshPositionConfig
  <1> HIDE DEF new
  <1>8. PositionOK(new.position[t], c)
        BY <1>2, <1>3, <1>5 DEF PositionOK, ConfigOK, CheckModifierLimits, CheckMaxStaleness
  <1>9. AccountOK(new)
    <2>1. /\ new.features \subseteq AccountFlag
          /\ "VIOLATION" \in new.features => new.features = {"VIOLATION"}
          /\ new.features = {} => acc.features = {} /\ "RESTRICTED" \notin c.features
          BY <1>1, <1>6 DEF AccountOK, Marked, AccountFlag
    <2>2. QED
          BY <1>1, <1>4, <1>5, <1>8, <2>1, ReplacedPosition
  <1>10. QED
        BY <1>1, <1>4, <1>7, <1>9, AccountStep DEF RefreshPositionConfig, Differs

\* Changing a balance within its bound leaves a position that follows its
\* config, with the features it had.
LEMMA BalanceOK ==
  ASSUME NEW acc, AccountOK(acc), NEW t \in Token, acc.position[t].exists,
         NEW n \in 0 .. MaxBalance
  PROVE  /\ AccountOK(WithBalance(acc, t, n))
         /\ WithBalance(acc, t, n).constraints = acc.constraints
         /\ WithBalance(acc, t, n).features = acc.features
  <1> DEFINE new == WithBalance(acc, t, n)
  <1>1. PositionOK(acc.position[t], config[t])
        BY DEF AccountOK, Nothing
  <1>2. Differs(new, acc, t) /\ new.features = acc.features
        BY DEF AccountOK, AccountField, Differs, WithBalance
  <1>3. new.position[t] = [acc.position[t] EXCEPT !.balance = n]
        BY DEF AccountOK, AccountField, WithBalance
  <1> HIDE DEF new
  <1>4. /\ PositionOK(new.position[t], config[t])
        /\ new.position[t].features = acc.position[t].features
        BY <1>1, <1>3
        DEF PositionOK, PositionField, CheckModifierLimits, CheckMaxStaleness
  <1>5. AccountOK(new)
    <2>1. /\ acc.features \subseteq AccountFlag
          /\ "VIOLATION" \in acc.features => acc.features = {"VIOLATION"}
          /\ acc.features = {} => "RESTRICTED" \notin acc.position[t].features
          BY DEF AccountOK, Marked
    <2>2. QED
          BY <1>2, <1>4, <2>1, ReplacedPosition
  <1>6. QED
        BY <1>2, <1>5 DEF new, Differs

\* What assert_position_feature_violation lets pass is well formed.  It never
\* clears the mark of an account without flags: held features that allow it
\* would have to be neither restricted nor of any kind.
LEMMA FeatureCheckOK ==
  ASSUME NEW acc, AccountOK(acc), FeaturesAllowed(acc)
  PROVE  /\ AccountOK(AfterFeatureCheck(acc))
         /\ AfterFeatureCheck(acc).constraints = acc.constraints
         /\ AfterFeatureCheck(acc).features = acc.features
  <1> DEFINE held == HeldFeatures(acc)
             new == AfterFeatureCheck(acc)
             f == IF held = {} THEN acc.features ELSE acc.features \ {"VIOLATION"}
  <1>1. f = acc.features
    <2>1. CASE held = {}
          BY <2>1
    <2>2. CASE held # {} /\ "VIOLATION" \in acc.features
      <3>1. acc.features \ {"VIOLATION"} = {}
            BY <2>2 DEF AccountOK, Marked
      <3>2. "RESTRICTED" \notin held /\ Stripped(held) = {}
            BY <2>2, <3>1 DEF FeaturesAllowed, AreTokenFeaturesCompatible
      <3>3. QED
            BY <2>2, <3>2 DEF Stripped
    <2>3. CASE held # {} /\ "VIOLATION" \notin acc.features
          BY <2>3
    <2>4. QED
          BY <2>1, <2>2, <2>3
  <1>2. new = [acc EXCEPT !.features = f]
        BY DEF AfterFeatureCheck
  <1> HIDE DEF f, new, held
  <1>3. /\ DOMAIN new = AccountField /\ new.exists = acc.exists
        /\ new.features = acc.features /\ new.constraints = acc.constraints
        /\ new.position = acc.position
        BY <1>1, <1>2 DEF AccountOK, AccountField
  <1>4. AccountOK(new)
        BY <1>3 DEF AccountOK, Marked
  <1>5. QED
        BY <1>3, <1>4 DEF new

\* An invocation that passes the feature check and a transfer keep the
\* invariant.
LEMMA BalanceInv ==
  ASSUME IndInv, NEW a \in Account, NEW t \in Token, NEW n \in 0 .. MaxBalance,
         AdapterInvoke(a, t, n) \/ TransferDeposit(a, t, n)
  PROVE  IndInv'
  <1> DEFINE new == WithBalance(account[a], t, n)
  <1>1. account[a].exists /\ account[a].position[t].exists
        BY DEF AdapterInvoke, TransferDeposit
  <1>2. AccountOK(account[a])
        BY <1>1, ExistingAccount
  <1>3. AccountOK(new) /\ new.constraints = account[a].constraints
        BY <1>1, <1>2, BalanceOK
  <1> HIDE DEF new
  <1>4. CASE AdapterInvoke(a, t, n)
    <2>1. FeaturesAllowed(new) /\ account' = [account EXCEPT ![a] = AfterFeatureCheck(new)]
          BY <1>4 DEF AdapterInvoke, new
    <2>2. AccountOK(AfterFeatureCheck(new))
          /\ AfterFeatureCheck(new).constraints = account[a].constraints
          BY <1>3, <2>1, FeatureCheckOK
    <2>3. QED
          BY <1>1, <1>4, <2>1, <2>2, AccountStep DEF AdapterInvoke
  <1>5. CASE TransferDeposit(a, t, n)
        BY <1>1, <1>3, <1>5, AccountStep DEF TransferDeposit, new
  <1>6. QED
        BY <1>4, <1>5

\* The governor's transfer keeps it: neither balance leaves its bound.
LEMMA AdminTransferInv ==
  ASSUME IndInv, NEW a \in Account, NEW b \in Account, NEW t \in Token,
         NEW n \in 1 .. MaxBalance, AdminTransferPosition(a, b, t, n)
  PROVE  IndInv'
  <1> DEFINE from == WithBalance(account[a], t, account[a].position[t].balance - n)
             to == WithBalance(account[b], t, account[b].position[t].balance + n)
  <1>1. /\ a # b
        /\ account[a].exists /\ account[a].position[t].exists
        /\ account[b].exists /\ account[b].position[t].exists
        BY DEF AdminTransferPosition
  <1>2. AccountOK(account[a]) /\ AccountOK(account[b])
        BY <1>1, ExistingAccount
  <1>3. /\ account[a].position[t].balance \in 0 .. MaxBalance
        /\ account[b].position[t].balance \in 0 .. MaxBalance
        BY <1>1, <1>2 DEF AccountOK, PositionOK, Nothing
  <1>4. /\ account[a].position[t].balance - n \in 0 .. MaxBalance
        /\ account[b].position[t].balance + n \in 0 .. MaxBalance
        BY <1>3, ConfigAssumption DEF AdminTransferPosition
  <1>5. /\ AccountOK(from) /\ from.constraints = account[a].constraints
        /\ AccountOK(to) /\ to.constraints = account[b].constraints
        BY <1>1, <1>2, <1>4, BalanceOK
  <1>6. account' = [account EXCEPT ![a] = from, ![b] = to]
        BY <1>1 DEF AdminTransferPosition, IndInv, AccountsOK
  <1> HIDE DEF from, to
  <1>7. \A x \in Account : account'[x] = IF x = a THEN from
                                         ELSE IF x = b THEN to ELSE account[x]
        BY <1>1, <1>6 DEF IndInv, AccountsOK
  <1>8. DOMAIN account' = Account
        BY <1>6 DEF IndInv, AccountsOK
  <1>9. UNCHANGED <<config, adapters, permit, ticket>>
        BY DEF AdminTransferPosition
  <1>10. \A x : AccountOK(x) => AccountOK(x)'
        BY <1>9 DEF AccountOK, PositionOK, Marked
  <1>11. AccountsOK'
        BY <1>5, <1>7, <1>8, <1>10 DEF IndInv, AccountsOK
  <1>12. ConfigsOK' /\ OthersOK'
        BY <1>9 DEF IndInv, ConfigsOK, OthersOK, ConfigOK
  <1>13. ConstraintsHaveATicket'
        BY <1>1, <1>5, <1>7, <1>9 DEF IndInv, ConstraintsHaveATicket, AccountOK
  <1>14. QED
        BY <1>11, <1>12, <1>13 DEF IndInv

-----------------------------------------------------------------------------
(* Creating, closing and constraining an account.                          *)

\* Creating and closing an account keep the invariant: at the address of an
\* account that does not exist or has no constraints there is no ticket.
LEMMA LifecycleInv ==
  ASSUME IndInv, NEW a \in Account, NEW f,
         \/ f \in AccountFeature /\ CreateAccount(a, f)
         \/ CloseAccount(a)
  PROVE  IndInv'
  <1> DEFINE new == IF account[a].exists THEN Nothing ELSE NewAccount(f)
  <1>1. account' = [account EXCEPT ![a] = new]
        BY DEF CreateAccount, CloseAccount
  <1>2. new = Nothing \/ AccountOK(new)
    <2>1. CASE account[a].exists
          BY <2>1
    <2>2. CASE ~account[a].exists
      <3>1. "VIOLATION" \notin f /\ f \subseteq AccountFlag
            BY <2>2, ConfigAssumption DEF CreateAccount, CloseAccount
      <3>2. AccountOK(NewAccount(f))
            BY <3>1 DEF AccountOK, AccountField, NewAccount, Marked, Nothing
      <3>3. QED
            BY <2>2, <3>2
    <2>3. QED
          BY <2>1, <2>2
  <1>3. new.exists => new.constraints = {}
        BY DEF Nothing, NewAccount
  <1>4. ticket[a] = NoAdapter
        BY DEF IndInv, ConstraintsHaveATicket, CreateAccount, CloseAccount
  <1> HIDE DEF new
  <1>5. UNCHANGED <<config, adapters, permit, ticket>>
        BY DEF CreateAccount, CloseAccount
  <1>6. \A x \in Account : account'[x] = IF x = a THEN new ELSE account[x]
        BY <1>1 DEF IndInv, AccountsOK
  <1>7. \A x : AccountOK(x) => AccountOK(x)'
        BY <1>5 DEF AccountOK, PositionOK, Marked
  <1>8. AccountsOK'
        BY <1>1, <1>2, <1>6, <1>7 DEF IndInv, AccountsOK
  <1>9. ConfigsOK' /\ OthersOK'
        BY <1>5 DEF IndInv, ConfigsOK, OthersOK, ConfigOK
  <1>10. ConstraintsHaveATicket'
        BY <1>3, <1>4, <1>5, <1>6 DEF IndInv, ConstraintsHaveATicket
  <1>11. QED
        BY <1>8, <1>9, <1>10 DEF IndInv

\* Setting and lifting constraints keep it: the ticket comes and goes with them.
LEMMA ConstraintsInv ==
  ASSUME IndInv, NEW ad \in Adapter, NEW a \in Account, NEW c \in ConstraintSet,
         ConfigureAccountConstraints(ad, a, c)
  PROVE  IndInv'
  <1> DEFINE new == [account[a] EXCEPT !.constraints = c]
  <1>1. AccountOK(account[a])
        BY ExistingAccount DEF ConfigureAccountConstraints
  <1>2. /\ DOMAIN new = AccountField /\ new.exists = TRUE
        /\ new.constraints = c /\ new.features = account[a].features
        /\ new.position = account[a].position
        BY <1>1 DEF AccountOK, AccountField
  <1>3. account' = [account EXCEPT ![a] = new]
        BY DEF ConfigureAccountConstraints
  <1> HIDE DEF new
  <1>4. AccountOK(new)
        BY <1>1, <1>2, ConfigAssumption DEF AccountOK, Marked
  <1>5. UNCHANGED <<config, adapters, permit>>
        BY DEF ConfigureAccountConstraints
  <1>6. \A x \in Account : account'[x] = IF x = a THEN new ELSE account[x]
        BY <1>3 DEF IndInv, AccountsOK
  <1>7. \A x : AccountOK(x) => AccountOK(x)'
        BY <1>5 DEF AccountOK, PositionOK, Marked
  <1>8. AccountsOK'
        BY <1>3, <1>4, <1>6, <1>7 DEF IndInv, AccountsOK
  <1>9. ConfigsOK'
        BY <1>5 DEF IndInv, ConfigsOK, ConfigOK
  <1>10. OthersOK'
        BY <1>5 DEF IndInv, OthersOK, ConfigureAccountConstraints
  <1>11. \A x \in Account : ticket'[x] = IF x # a THEN ticket[x]
                                         ELSE IF c = {} THEN NoAdapter ELSE ad
        BY DEF IndInv, OthersOK, ConfigureAccountConstraints
  <1>12. ConstraintsHaveATicket'
        BY <1>2, <1>6, <1>11, ConfigAssumption DEF IndInv, ConstraintsHaveATicket
  <1>13. QED
        BY <1>8, <1>9, <1>10, <1>12 DEF IndInv

-----------------------------------------------------------------------------

\* Every step keeps the invariant.
LEMMA NextInv == IndInv /\ [Next]_vars => IndInv'
  <1>1. SUFFICES ASSUME IndInv, [Next]_vars PROVE IndInv'
        OBVIOUS
  <1>2. CASE UNCHANGED vars
    <2>1. ConfigsOK' /\ OthersOK' /\ ConstraintsHaveATicket'
          BY <1>1, <1>2
          DEF vars, IndInv, ConfigsOK, ConfigOK, OthersOK, ConstraintsHaveATicket
    <2>2. AccountsOK'
          BY <1>1, <1>2 DEF vars, IndInv, AccountsOK, AccountOK, PositionOK, Marked
    <2>3. QED
          BY <2>1, <2>2 DEF IndInv
  <1>3. CASE Configure
    <2>1. ASSUME NEW t \in Token, NEW u \in Update[t], ConfigureToken(t, u)
          PROVE  IndInv'
          BY <1>1, <2>1, ConfigureTokenInv
    <2>2. ASSUME NEW t \in Token, MigrateTokenConfig(t)
          PROVE  IndInv'
          BY <1>1, <2>2, MigrateTokenConfigInv
    <2>3. ASSUME NEW ad \in Adapter, NEW b \in BOOLEAN, ConfigureAdapter(ad, b)
          PROVE  IndInv'
          BY <1>1, <2>3, RegistryInv
    <2>4. ASSUME NEW r \in Refresher, NEW b \in BOOLEAN,
                 ConfigurePermit(r, b, "REFRESH_POSITION_CONFIG")
          PROVE  IndInv'
          BY <1>1, <2>4, RegistryInv
    <2>5. QED
          BY <1>3, <2>1, <2>2, <2>3, <2>4 DEF Configure
  <1>4. CASE Operate
    <2>1. ASSUME NEW a \in Account,
                 \/ \E f \in AccountFeature : CreateAccount(a, f)
                 \/ CloseAccount(a)
          PROVE  IndInv'
          BY <1>1, <2>1, LifecycleInv
    <2>2. ASSUME NEW a \in Account, NEW ad \in Adapter, NEW c \in ConstraintSet,
                 ConfigureAccountConstraints(ad, a, c)
          PROVE  IndInv'
          BY <1>1, <2>2, ConstraintsInv
    <2>3. ASSUME NEW a \in Account, NEW t \in Token,
                 \/ CreateDepositPosition(a, t)
                 \/ RegisterPosition(a, t)
                 \/ AdapterRegisterPosition(a, t)
          PROVE  IndInv'
          BY <1>1, <2>3, RegisterInv
          DEF CreateDepositPosition, RegisterPosition, AdapterRegisterPosition
    <2>4. ASSUME NEW a \in Account, NEW t \in Token,
                 ClosePosition(a, t) \/ AdapterClosePosition(a, t)
          PROVE  IndInv'
          BY <1>1, <2>4, UnregisterInv DEF ClosePosition, AdapterClosePosition
    <2>5. ASSUME NEW a \in Account, NEW t \in Token, NEW r \in Refresher,
                 RefreshPositionConfig(r, a, t)
          PROVE  IndInv'
          BY <1>1, <2>5, RefreshInv
    <2>6. ASSUME NEW a \in Account, NEW t \in Token, NEW n \in 0 .. MaxBalance,
                 AdapterInvoke(a, t, n) \/ TransferDeposit(a, t, n)
          PROVE  IndInv'
          BY <1>1, <2>6, BalanceInv
    <2>7. ASSUME NEW a \in Account, NEW t \in Token, NEW b \in Account,
                 NEW n \in 1 .. MaxBalance, AdminTransferPosition(a, b, t, n)
          PROVE  IndInv'
          BY <1>1, <2>7, AdminTransferInv
    <2>8. QED
          BY <1>4, <2>1, <2>2, <2>3, <2>4, <2>5, <2>6, <2>7 DEF Operate
  <1>5. QED
        BY <1>1, <1>2, <1>3, <1>4 DEF Next

\* In every reachable state the invariant holds.
THEOREM Invariance == Spec => []IndInv
  BY InitInv, NextInv, PTL DEF Spec

\* The positions of every account follow the configs of their tokens, however
\* often the tokens were configured, migrated and refreshed since: the program
\* that values a position is the one its config names.
THEOREM ConfiguredPositions == Spec => []PositionsAreConfigured
  <1>1. ASSUME IndInv PROVE PositionsAreConfigured
    <2>1. \A a \in Account : account[a].exists => AccountOK(account[a])
          BY <1>1, ExistingAccount
    <2>2. \A t \in Token : config[t].exists => ConfigOK(config[t])
          BY <1>1, ExistingConfig
    <2>3. ASSUME NEW a \in Account, account[a].exists, NEW t \in Positions(a)
          PROVE  t \in Token /\ PositionOK(account[a].position[t], config[t])
          BY <2>1, <2>3 DEF Positions, AccountOK, Nothing
    <2>4. ASSUME NEW a \in Account, account[a].exists, NEW t \in Positions(a)
          PROVE  ConfigOK(config[t])
          BY <2>2, <2>3, <2>4 DEF PositionOK
    <2>5. PositionsFollowConfig
          BY <2>3 DEF PositionsFollowConfig, PositionOK
    <2>6. TypeOK
      <3>1. \A t \in Token : config[t].exists =>
               /\ config[t].old \in BOOLEAN
               /\ config[t].kind \in Kind
               /\ config[t].features \subseteq TokenFeature
               /\ {config[t].modifier, config[t].staleness} \subseteq Nat
            BY <2>2 DEF ConfigOK
      <3>2. ASSUME NEW a \in Account, account[a].exists
            PROVE  /\ account[a].features \subseteq AccountFlag
                   /\ account[a].constraints \subseteq AccountConstraint
            BY <2>1, <3>2 DEF AccountOK
      <3>3. ASSUME NEW a \in Account, account[a].exists, NEW t \in Positions(a)
            PROVE  /\ account[a].position[t].kind \in Kind
                   /\ account[a].position[t].adapter \in Adapter \cup {NoAdapter}
                   /\ account[a].position[t].features \subseteq TokenFeature
                   /\ account[a].position[t].balance \in 0 .. MaxBalance
            BY <2>3, <2>4, <3>3 DEF PositionOK, ConfigOK
      <3>4. QED
            BY <1>1, <3>1, <3>2, <3>3 DEF TypeOK, IndInv, OthersOK
    <2>7. QED
          BY <2>5, <2>6 DEF PositionsAreConfigured
  <1>2. QED
        BY <1>1, Invariance, PTL

\* An account is constrained exactly while its ticket exists.
THEOREM TicketsMatch == Spec => []ConstraintsHaveATicket
  <1>1. IndInv => ConstraintsHaveATicket
        BY DEF IndInv
  <1>2. QED
        BY <1>1, Invariance, PTL

\* No adapter takes over or lifts the constraints of another.
THEOREM ConstraintsKept == Spec => ConstraintsStayWithTheirAdapter
  <1> DEFINE A == \A a \in Account : ticket[a] # NoAdapter /\ ticket'[a] # ticket[a] =>
                        ticket'[a] = NoAdapter /\ ticket[a] \in adapters
  <1>1. ASSUME IndInv, [Next]_vars PROVE [A]_vars
    <2>1. CASE ticket' = ticket
          BY <2>1
    <2>2. ASSUME NEW ad \in Adapter, NEW x \in Account, NEW c \in ConstraintSet,
                 ConfigureAccountConstraints(ad, x, c)
          PROVE  A
      <3>1. \A a \in Account : ticket'[a] = IF a # x THEN ticket[a]
                                            ELSE IF c = {} THEN NoAdapter ELSE ad
            BY <1>1, <2>2 DEF IndInv, OthersOK, ConfigureAccountConstraints
      <3>2. c # {} => ticket[x] = NoAdapter
            BY <1>1, <2>2 DEF IndInv, ConstraintsHaveATicket, ConfigureAccountConstraints
      <3>3. c = {} => ticket[x] \in adapters
            BY <2>2 DEF ConfigureAccountConstraints
      <3>4. QED
            BY <3>1, <3>2, <3>3
    <2>3. CASE Configure
          BY <2>1, <2>3
          DEF Configure, ConfigureToken, MigrateTokenConfig, ConfigureAdapter,
              ConfigurePermit
    <2>4. CASE Operate
      <3>1. ASSUME NEW a \in Account
            PROVE  /\ \A f \in AccountFeature : CreateAccount(a, f) => ticket' = ticket
                   /\ CloseAccount(a) => ticket' = ticket
            BY DEF CreateAccount, CloseAccount
      <3>2. ASSUME NEW a \in Account, NEW t \in Token
            PROVE  /\ CreateDepositPosition(a, t) => ticket' = ticket
                   /\ RegisterPosition(a, t) => ticket' = ticket
                   /\ AdapterRegisterPosition(a, t) => ticket' = ticket
                   /\ ClosePosition(a, t) => ticket' = ticket
                   /\ AdapterClosePosition(a, t) => ticket' = ticket
            BY DEF CreateDepositPosition, RegisterPosition, AdapterRegisterPosition,
                   RegisterWith, ClosePosition, AdapterClosePosition, Unregister
      <3>3. ASSUME NEW a \in Account, NEW t \in Token
            PROVE  /\ \A r \in Refresher : RefreshPositionConfig(r, a, t) => ticket' = ticket
                   /\ \A n \in 0 .. MaxBalance : AdapterInvoke(a, t, n) => ticket' = ticket
                   /\ \A n \in 0 .. MaxBalance : TransferDeposit(a, t, n) => ticket' = ticket
                   /\ \A b \in Account, n \in 1 .. MaxBalance :
                        AdminTransferPosition(a, b, t, n) => ticket' = ticket
            BY DEF RefreshPositionConfig, AdapterInvoke, TransferDeposit,
                   AdminTransferPosition
      <3>4. QED
            BY <2>1, <2>2, <2>4, <3>1, <3>2, <3>3 DEF Operate
    <2>5. CASE UNCHANGED vars
          BY <2>1, <2>5 DEF vars
    <2>6. QED
          BY <1>1, <2>3, <2>4, <2>5 DEF Next
  <1>2. QED
        BY <1>1, Invariance, PTL DEF Spec, ConstraintsStayWithTheirAdapter

-----------------------------------------------------------------------------
(* Accounts for one kind of token.                                         *)

Flags(acc) == acc.features \ {"VIOLATION"}

\* The account has the flags it had and no position that it had not.
NothingNew(acc, new) ==
    new.exists =>
        /\ acc.exists
        /\ Flags(new) = Flags(acc)
        /\ \A t \in Token : new.position[t].exists => acc.position[t].exists

\* With the configs unchanged, an account that gets nothing new holds its kind.
LEMMA NothingNewKeepsKind ==
  ASSUME IndInv, AccountsHoldTheirKind, config' = config, NEW a \in Account, NEW new,
         account' = [account EXCEPT ![a] = new], NothingNew(account[a], new)
  PROVE  AccountsHoldTheirKind'
  <1>1. \A x \in Account : account'[x] = IF x = a THEN new ELSE account[x]
        BY DEF IndInv, AccountsOK
  <1>2. QED
        BY <1>1 DEF AccountsHoldTheirKind, NothingNew, Flags, Positions

\* Configuring a token keeps what the accounts hold of their kind: once a
\* config has a feature other than RESTRICTED, compare_feature_immutability
\* keeps it, and a config somebody holds a position in is never migrated.
LEMMA ConfigureKeepsKind ==
  ASSUME IndInv, AccountsHoldTheirKind, ~MigrateAgain, NEW t \in Token,
         \/ \E u \in Update[t] : ConfigureToken(t, u)
         \/ MigrateTokenConfig(t)
  PROVE  AccountsHoldTheirKind'
  <1>1. account' = account
        BY DEF ConfigureToken, MigrateTokenConfig
  <1>2. SUFFICES ASSUME NEW a \in Account, account[a].exists, Flags(account[a]) # {},
                        NEW s \in Token, account[a].position[s].exists
                 PROVE  Stripped(config'[s].features) = Flags(account[a])
        BY <1>1 DEF AccountsHoldTheirKind, Flags, Positions
  <1>3. Stripped(config[s].features) = Flags(account[a])
        BY <1>2 DEF AccountsHoldTheirKind, Flags, Positions
  <1>4. config[s].exists /\ ~config[s].old
    <2>1. AccountOK(account[a])
          BY <1>2, ExistingAccount
    <2>2. PositionOK(account[a].position[s], config[s])
          BY <1>2, <2>1 DEF AccountOK, Nothing
    <2>3. QED
          BY <2>2 DEF PositionOK
  <1>5. CASE s # t
    <2>1. config'[s] = config[s]
          BY <1>5 DEF IndInv, ConfigsOK, ConfigureToken, MigrateTokenConfig
    <2>2. QED
          BY <1>3, <2>1
  <1>6. CASE s = t
    <2>1. PICK u \in Update[t] : ConfigureToken(t, u)
          BY <1>4, <1>6 DEF MigrateTokenConfig
    <2>2. config'[t].features = u.features
          BY <2>1, UpdateOK DEF IndInv, ConfigsOK, ConfigureToken
    <2>3. CompareFeatureImmutability(config[t], u)
          BY <1>4, <1>6, <2>1 DEF ConfigureToken, ValidateImmutabilityConstraints
    <2>4. QED
          BY <1>2, <1>3, <1>6, <2>2, <2>3 DEF CompareFeatureImmutability
  <1>7. QED
        BY <1>5, <1>6

\* An account of one kind registers positions of that kind only.
LEMMA RegisterKeepsKind ==
  ASSUME IndInv, AccountsHoldTheirKind, NEW a \in Account, NEW t \in Token,
         account[a].exists, RegisterWith(a, t)
  PROVE  AccountsHoldTheirKind'
  <1> DEFINE acc == account[a]
             p == IF acc.position[t].exists THEN acc.position[t] ELSE NewPosition(config[t])
             new == [acc EXCEPT !.position = [acc.position EXCEPT ![t] = p]]
  <1>1. AccountOK(acc)
        BY ExistingAccount
  <1>2. account' = [account EXCEPT ![a] = new] /\ config' = config
        BY DEF RegisterWith
  <1>3. Differs(new, acc, t) /\ new.features = acc.features
        BY <1>1 DEF AccountOK, AccountField, Differs
  <1> HIDE DEF new
  <1>4. \A x \in Account : account'[x] = IF x = a THEN new ELSE account[x]
        BY <1>2 DEF IndInv, AccountsOK
  <1>5. Flags(acc) # {} => Stripped(config[t].features) = Flags(acc)
    <2>1. SUFFICES ASSUME Flags(acc) # {} PROVE Stripped(config[t].features) = Flags(acc)
          OBVIOUS
    <2>2. Flags(acc) = acc.features
          BY <1>1, <2>1 DEF AccountOK, Marked, Flags
    <2>3. QED
          BY <2>1, <2>2 DEF RegisterWith, MayHold, AreTokenFeaturesCompatible
  <1>6. SUFFICES ASSUME NEW x \in Account, account'[x].exists, Flags(account'[x]) # {},
                        NEW s \in Token, account'[x].position[s].exists
                 PROVE  Stripped(config[s].features) = Flags(account'[x])
        BY <1>2 DEF AccountsHoldTheirKind, Flags, Positions
  <1>7. CASE x = a
        BY <1>3, <1>4, <1>5, <1>6, <1>7
        DEF AccountsHoldTheirKind, Flags, Positions, Differs
  <1>8. CASE x # a
        BY <1>4, <1>6, <1>8 DEF AccountsHoldTheirKind, Flags, Positions
  <1>9. QED
        BY <1>7, <1>8

\* A balance that changes gives its account nothing new.
LEMMA BalanceGivesNothingNew ==
  ASSUME NEW acc, AccountOK(acc), NEW t \in Token, acc.position[t].exists, NEW n
  PROVE  NothingNew(acc, WithBalance(acc, t, n))
  BY DEF AccountOK, AccountField, WithBalance, NothingNew, Flags

\* The other steps of an account give it nothing new.
LEMMA OperateKeepsKind ==
  ASSUME IndInv, AccountsHoldTheirKind, NEW a \in Account, NEW t \in Token,
         \/ CloseAccount(a)
         \/ \E ad \in Adapter, c \in ConstraintSet : ConfigureAccountConstraints(ad, a, c)
         \/ Unregister(a, t)
         \/ \E r \in Refresher : RefreshPositionConfig(r, a, t)
         \/ \E n \in 0 .. MaxBalance : AdapterInvoke(a, t, n) \/ TransferDeposit(a, t, n)
  PROVE  AccountsHoldTheirKind'
  <1> DEFINE acc == account[a]
  <1>1. account[a].exists /\ config' = config
        BY DEF CloseAccount, ConfigureAccountConstraints, Unregister,
               RefreshPositionConfig, AdapterInvoke, TransferDeposit
  <1>2. AccountOK(acc)
        BY <1>1, ExistingAccount
  <1>3. CASE CloseAccount(a)
    <2>1. NothingNew(acc, Nothing)
          BY DEF NothingNew, Nothing
    <2>2. QED
          BY <1>1, <1>3, <2>1, NothingNewKeepsKind DEF CloseAccount
  <1>4. ASSUME NEW ad \in Adapter, NEW c \in ConstraintSet,
               ConfigureAccountConstraints(ad, a, c)
        PROVE  AccountsHoldTheirKind'
    <2> DEFINE new == [acc EXCEPT !.constraints = c]
    <2>1. NothingNew(acc, new)
          BY <1>1, <1>2 DEF AccountOK, AccountField, NothingNew, Flags
    <2>2. account' = [account EXCEPT ![a] = new]
          BY <1>4 DEF ConfigureAccountConstraints
    <2> HIDE DEF new
    <2>3. QED
          BY <1>1, <2>1, <2>2, NothingNewKeepsKind
  <1>5. CASE Unregister(a, t)
    <2> DEFINE new == [acc EXCEPT !.position = [acc.position EXCEPT ![t] = Nothing]]
    <2>1. NothingNew(acc, new)
          BY <1>1, <1>2 DEF AccountOK, AccountField, NothingNew, Flags, Nothing
    <2>2. account' = [account EXCEPT ![a] = new]
          BY <1>5 DEF Unregister
    <2> HIDE DEF new
    <2>3. QED
          BY <1>1, <2>1, <2>2, NothingNewKeepsKind
  <1>6. ASSUME NEW r \in Refresher, RefreshPositionConfig(r, a, t)
        PROVE  AccountsHoldTheirKind'
    <2>1. acc.position[t].exists
          BY <1>6 DEF RefreshPositionConfig
    <2>2. NothingNew(acc, Refreshed(acc, t))
          BY <1>1, <1>2, <2>1 DEF AccountOK, AccountField, NothingNew, Flags, Refreshed
    <2>3. QED
          BY <1>1, <1>6, <2>2, NothingNewKeepsKind DEF RefreshPositionConfig
  <1>7. ASSUME NEW n \in 0 .. MaxBalance, AdapterInvoke(a, t, n)
        PROVE  AccountsHoldTheirKind'
    <2> DEFINE invoked == WithBalance(acc, t, n)
    <2>1. acc.position[t].exists /\ FeaturesAllowed(invoked)
          /\ account' = [account EXCEPT ![a] = AfterFeatureCheck(invoked)]
          BY <1>7 DEF AdapterInvoke
    <2>2. NothingNew(acc, invoked) /\ AccountOK(invoked)
          BY <1>2, <2>1, BalanceGivesNothingNew, BalanceOK
    <2> HIDE DEF invoked
    <2>3. NothingNew(acc, AfterFeatureCheck(invoked))
          BY <2>2 DEF AccountOK, AccountField, NothingNew, Flags, AfterFeatureCheck
    <2>4. QED
          BY <1>1, <2>1, <2>3, NothingNewKeepsKind
  <1>8. ASSUME NEW n \in 0 .. MaxBalance, TransferDeposit(a, t, n)
        PROVE  AccountsHoldTheirKind'
    <2>1. NothingNew(acc, WithBalance(acc, t, n))
          BY <1>2, <1>8, BalanceGivesNothingNew DEF TransferDeposit
    <2>2. QED
          BY <1>1, <1>8, <2>1, NothingNewKeepsKind DEF TransferDeposit
  <1>9. QED
        BY <1>3, <1>4, <1>5, <1>6, <1>7, <1>8

\* So does moving tokens between two accounts.
LEMMA AdminTransferKeepsKind ==
  ASSUME IndInv, AccountsHoldTheirKind, NEW a \in Account, NEW b \in Account,
         NEW t \in Token, NEW n, AdminTransferPosition(a, b, t, n)
  PROVE  AccountsHoldTheirKind'
  <1> DEFINE from == WithBalance(account[a], t, account[a].position[t].balance - n)
             to == WithBalance(account[b], t, account[b].position[t].balance + n)
  <1>1. /\ a # b /\ config' = config
        /\ account[a].exists /\ account[a].position[t].exists
        /\ account[b].exists /\ account[b].position[t].exists
        BY DEF AdminTransferPosition
  <1>2. AccountOK(account[a]) /\ AccountOK(account[b])
        BY <1>1, ExistingAccount
  <1>3. NothingNew(account[a], from) /\ NothingNew(account[b], to)
        BY <1>1, <1>2, BalanceGivesNothingNew
  <1>4. account' = [account EXCEPT ![a] = from, ![b] = to]
        BY <1>1 DEF AdminTransferPosition, IndInv, AccountsOK
  <1> HIDE DEF from, to
  <1>5. \A x \in Account : account'[x] = IF x = a THEN from
                                         ELSE IF x = b THEN to ELSE account[x]
        BY <1>1, <1>4 DEF IndInv, AccountsOK
  <1>6. QED
        BY <1>1, <1>3, <1>5 DEF AccountsHoldTheirKind, NothingNew, Flags, Positions

\* A new account has no position at all.
LEMMA CreateKeepsKind ==
  ASSUME IndInv, AccountsHoldTheirKind, NEW a \in Account, NEW f, CreateAccount(a, f)
  PROVE  AccountsHoldTheirKind'
  <1>1. \A x \in Account : account'[x] = IF x = a THEN NewAccount(f) ELSE account[x]
        BY DEF CreateAccount, IndInv, AccountsOK
  <1>2. config' = config
        BY DEF CreateAccount
  <1>3. \A t \in Token : ~NewAccount(f).position[t].exists
        BY DEF NewAccount, Nothing
  <1>4. QED
        BY <1>1, <1>2, <1>3 DEF AccountsHoldTheirKind, Positions

\* Every step keeps the kind of what the accounts hold, unless a config that
\* was migrated is migrated again.
LEMMA NextKeepsKind ==
  ASSUME ~MigrateAgain, IndInv, AccountsHoldTheirKind, [Next]_vars
  PROVE  AccountsHoldTheirKind'
  <1>1. CASE UNCHANGED vars
        BY <1>1 DEF vars, AccountsHoldTheirKind, Positions
  <1>2. CASE Configure
    <2>1. CASE UNCHANGED <<config, account>>
          BY <2>1 DEF AccountsHoldTheirKind, Positions
    <2>2. QED
          BY <1>2, <2>1, ConfigureKeepsKind DEF Configure, ConfigureAdapter, ConfigurePermit
  <1>3. CASE Operate
    <2>1. ASSUME NEW a \in Account, NEW f \in AccountFeature, CreateAccount(a, f)
          PROVE  AccountsHoldTheirKind'
          BY <2>1, CreateKeepsKind
    <2>2. ASSUME NEW a \in Account, NEW t \in Token,
                 \/ CreateDepositPosition(a, t)
                 \/ RegisterPosition(a, t)
                 \/ AdapterRegisterPosition(a, t)
          PROVE  AccountsHoldTheirKind'
          BY <2>2, RegisterKeepsKind
          DEF CreateDepositPosition, RegisterPosition, AdapterRegisterPosition
    <2>3. ASSUME NEW a \in Account,
                 \/ CloseAccount(a)
                 \/ \E ad \in Adapter, c \in ConstraintSet :
                      ConfigureAccountConstraints(ad, a, c)
          PROVE  AccountsHoldTheirKind'
      <3>1. CASE \E t : t \in Token
            BY <2>3, <3>1, OperateKeepsKind
      <3>2. CASE ~\E t : t \in Token
            BY <3>2 DEF AccountsHoldTheirKind, Positions
      <3>3. QED
            BY <3>1, <3>2
    <2>4. ASSUME NEW a \in Account, NEW t \in Token,
                 \/ ClosePosition(a, t)
                 \/ AdapterClosePosition(a, t)
                 \/ \E r \in Refresher : RefreshPositionConfig(r, a, t)
                 \/ \E n \in 0 .. MaxBalance :
                      AdapterInvoke(a, t, n) \/ TransferDeposit(a, t, n)
          PROVE  AccountsHoldTheirKind'
          BY <2>4, OperateKeepsKind DEF ClosePosition, AdapterClosePosition
    <2>5. ASSUME NEW a \in Account, NEW t \in Token, NEW b \in Account,
                 NEW n \in 1 .. MaxBalance, AdminTransferPosition(a, b, t, n)
          PROVE  AccountsHoldTheirKind'
          BY <2>5, AdminTransferKeepsKind
    <2>6. QED
          BY <1>3, <2>1, <2>2, <2>3, <2>4, <2>5 DEF Operate
  <1>4. QED
        BY <1>1, <1>2, <1>3 DEF Next

\* In an account without any feature flag no position is marked RESTRICTED,
\* also when migrated configs are migrated again.
THEOREM UnmarkedUnrestricted == Spec => []UnmarkedAccountsUnrestricted
  <1>1. ASSUME IndInv PROVE UnmarkedAccountsUnrestricted
    <2>1. \A a \in Account : account[a].exists => Marked(account[a])
          BY <1>1, ExistingAccount DEF AccountOK
    <2>2. QED
          BY <2>1 DEF UnmarkedAccountsUnrestricted, Marked, Positions
  <1>2. QED
        BY <1>1, Invariance, PTL

\* The features of tokens, positions and accounts agree, provided that no
\* config is migrated a second time (migrate_token_config would then clear
\* features which accounts rely on).
THEOREM AgreedFeatures ==
  ASSUME ~MigrateAgain
  PROVE  Spec => []FeaturesAgree
  <1>1. Init => AccountsHoldTheirKind
        BY DEF Init, AccountsHoldTheirKind, Nothing
  <1>2. IndInv /\ AccountsHoldTheirKind /\ [Next]_vars => AccountsHoldTheirKind'
        BY NextKeepsKind
  <1>3. AccountsHoldTheirKind /\ UnmarkedAccountsUnrestricted => FeaturesAgree
        BY DEF FeaturesAgree
  <1>4. QED
        BY <1>1, <1>2, <1>3, Invariance, UnmarkedUnrestricted, PTL DEF Spec
=============================================================================
