------------------------------ MODULE Airspace ------------------------------
(***************************************************************************)
(* The airspace program (programs/airspace): the protocol's governor, one  *)
(* airspace with its authority, the licences of permit issuers and the     *)
(* permits that let their owners use the airspace.  Each instruction is    *)
(* one action; its parameter `signer' is the key whose signature the       *)
(* accounts of the instruction demand.                                     *)
(*                                                                         *)
(* Accounts live at addresses derived from what they are about, so there   *)
(* is at most one pending transfer of each kind, one licence per issuer    *)
(* and one permit per owner, and `init' fails where one exists.            *)
(***************************************************************************)
CONSTANTS
    Key,              \* the keys that can sign
    NoOne,            \* Pubkey::default(), which cannot sign
    ProtocolGovernor  \* PROTOCOL_GOVERNOR_ID

ASSUME AirspaceAssumption ==
    /\ NoOne \notin Key
    /\ ProtocolGovernor \in Key

VARIABLES
    governor,          \* GovernorId::governor, NoOne before it is created
    governorTransfer,  \* the pending AuthorityTransfer of the governor
    airspace,          \* the Airspace account
    transfer,          \* the pending AuthorityTransfer of the airspace
    issuerIds,         \* the issuers with an AirspacePermitIssuerId
    permits,           \* the issuer of each owner's permit, or NoOne
    entitled           \* history: who has had the right to issue permits

airspaceVars == <<governor, governorTransfer, airspace, transfer, issuerIds, permits, entitled>>

NoTransfer == [exists |-> FALSE, current |-> NoOne, new |-> NoOne]

Proposal(current, new) == [exists |-> TRUE, current |-> current, new |-> new]

-----------------------------------------------------------------------------
(* The governor.                                                           *)

\* Anyone may create the account; it names the hard-coded governor.
CreateGovernorId ==
    /\ governor = NoOne
    /\ governor' = ProtocolGovernor
    /\ UNCHANGED <<governorTransfer, airspace, transfer, issuerIds, permits, entitled>>

\* The zero key is not refused here.
GovernorPropose(signer, proposed) ==
    /\ governor = signer
    /\ ~governorTransfer.exists
    /\ governorTransfer' = Proposal(signer, proposed)
    /\ UNCHANGED <<governor, airspace, transfer, issuerIds, permits, entitled>>

GovernorFinalizePropose(signer) ==
    /\ governorTransfer.exists
    /\ governorTransfer.current = governor
    /\ governorTransfer.new = signer
    /\ governor' = governorTransfer.new
    /\ governorTransfer' = NoTransfer
    /\ UNCHANGED <<airspace, transfer, issuerIds, permits, entitled>>

-----------------------------------------------------------------------------
(* The airspace and its authority.                                         *)

AirspaceCreate(signer, restricted, authority) ==
    /\ governor = signer
    /\ ~airspace.exists
    /\ airspace' = [exists |-> TRUE, authority |-> authority, isRestricted |-> restricted]
    /\ entitled' = entitled \cup {authority}
    /\ UNCHANGED <<governor, governorTransfer, transfer, issuerIds, permits>>

AirspaceTransferAuthority(signer, proposed) ==
    /\ airspace.exists
    /\ airspace.authority = signer
    /\ ~transfer.exists
    /\ proposed # NoOne
    /\ transfer' = Proposal(signer, proposed)
    /\ UNCHANGED <<governor, governorTransfer, airspace, issuerIds, permits, entitled>>

AirspaceAuthorityCancelProposal(signer) ==
    /\ airspace.exists
    /\ airspace.authority = signer
    /\ transfer.exists
    /\ transfer.current = signer
    /\ transfer' = NoTransfer
    /\ UNCHANGED <<governor, governorTransfer, airspace, issuerIds, permits, entitled>>

\* Mutant: the account of the transfer is not closed.
AirspaceAuthorityFinalizeKeeping(signer) ==
    /\ airspace.exists
    /\ transfer.exists
    /\ transfer.current = airspace.authority
    /\ transfer.new = signer
    /\ airspace' = [airspace EXCEPT !.authority = transfer.new]
    /\ entitled' = entitled \cup {transfer.new}
    /\ UNCHANGED <<governor, governorTransfer, transfer, issuerIds, permits>>

AirspaceAuthorityFinalize(signer) ==
    /\ airspace.exists
    /\ transfer.exists
    /\ transfer.current = airspace.authority
    /\ transfer.new = signer
    /\ airspace' = [airspace EXCEPT !.authority = transfer.new]
    /\ transfer' = NoTransfer
    /\ entitled' = entitled \cup {transfer.new}
    /\ UNCHANGED <<governor, governorTransfer, issuerIds, permits>>

-----------------------------------------------------------------------------
(* Issuers and permits.                                                    *)

\* Mutant: the authority is not compared with the airspace's.
AirspacePermitIssuerCreateByAnyone(signer, issuer) ==
    /\ airspace.exists
    /\ issuer \notin issuerIds
    /\ issuerIds' = issuerIds \cup {issuer}
    /\ entitled' = IF airspace.authority = signer THEN entitled \cup {issuer} ELSE entitled
    /\ UNCHANGED <<governor, governorTransfer, airspace, transfer, permits>>

AirspacePermitIssuerCreate(signer, issuer) ==
    /\ airspace.exists
    /\ airspace.authority = signer
    /\ issuer \notin issuerIds
    /\ issuerIds' = issuerIds \cup {issuer}
    /\ entitled' = entitled \cup {issuer}
    /\ UNCHANGED <<governor, governorTransfer, airspace, transfer, permits>>

AirspacePermitIssuerRevoke(signer, issuer) ==
    /\ airspace.exists
    /\ airspace.authority = signer
    /\ issuer \in issuerIds
    /\ issuerIds' = issuerIds \ {issuer}
    /\ UNCHANGED <<governor, governorTransfer, airspace, transfer, permits, entitled>>

\* Anyone in an airspace that is not restricted.
AirspacePermitCreate(signer, owner) ==
    /\ airspace.exists
    /\ airspace.isRestricted => airspace.authority = signer \/ signer \in issuerIds
    /\ permits[owner] = NoOne
    /\ permits' = [permits EXCEPT ![owner] = signer]
    /\ UNCHANGED <<governor, governorTransfer, airspace, transfer, issuerIds, entitled>>

\* The authority, the issuer, or anyone once the issuer has no licence.
AirspaceRevocationAllowed(signer, issuer) ==
    \/ signer = airspace.authority
    \/ signer = issuer
    \/ airspace.isRestricted /\ issuer \notin issuerIds

AirspacePermitRevoke(signer, owner) ==
    /\ airspace.exists
    /\ permits[owner] # NoOne
    /\ AirspaceRevocationAllowed(signer, permits[owner])
    /\ permits' = [permits EXCEPT ![owner] = NoOne]
    /\ UNCHANGED <<governor, governorTransfer, airspace, transfer, issuerIds, entitled>>

-----------------------------------------------------------------------------
AirspaceInit ==
    /\ governor = NoOne
    /\ governorTransfer = NoTransfer
    /\ airspace = [exists |-> FALSE, authority |-> NoOne, isRestricted |-> FALSE]
    /\ transfer = NoTransfer
    /\ issuerIds = {}
    /\ permits = [owner \in Key |-> NoOne]
    /\ entitled = {}

AirspaceNext ==
    \/ CreateGovernorId
    \/ \E signer \in Key :
        \/ \E k \in Key \cup {NoOne} :
              \/ GovernorPropose(signer, k)
              \/ \E restricted \in BOOLEAN : AirspaceCreate(signer, restricted, k)
              \/ AirspaceTransferAuthority(signer, k)
        \/ GovernorFinalizePropose(signer)
        \/ AirspaceAuthorityCancelProposal(signer)
        \/ AirspaceAuthorityFinalize(signer)
        \/ \E issuer \in Key :
              \/ AirspacePermitIssuerCreate(signer, issuer)
              \/ AirspacePermitIssuerRevoke(signer, issuer)
        \/ \E owner \in Key :
              \/ AirspacePermitCreate(signer, owner)
              \/ AirspacePermitRevoke(signer, owner)

AirspaceSpec == AirspaceInit /\ [][AirspaceNext]_airspaceVars

-----------------------------------------------------------------------------
Transfer == [exists : BOOLEAN, current : Key \cup {NoOne}, new : Key \cup {NoOne}]

\* The types of the accounts, and that nothing exists before what it hangs
\* from: no airspace or proposal before the governor, no licence or permit
\* before the airspace.
AirspaceTypeOK ==
    /\ governor \in Key \cup {NoOne}
    /\ governorTransfer \in Transfer
    /\ airspace \in [exists : BOOLEAN, authority : Key \cup {NoOne}, isRestricted : BOOLEAN]
    /\ transfer \in Transfer
    /\ issuerIds \subseteq Key
    /\ permits \in [Key -> Key \cup {NoOne}]
    /\ entitled \subseteq Key \cup {NoOne}
    /\ governor = NoOne => ~airspace.exists /\ ~governorTransfer.exists
    /\ ~airspace.exists => issuerIds = {} /\ permits = [owner \in Key |-> NoOne]

\* A pending transfer was proposed by whoever holds the office now.  One that
\* outlived its proposer could be neither finalised nor cancelled, and since
\* there is only one address for it the office could never change hands again
\* (airspace_set_authority.rs, set_governor.rs).
ProposalIsCurrent ==
    /\ transfer.exists => airspace.exists /\ transfer.current = airspace.authority
    /\ governorTransfer.exists => governorTransfer.current = governor

\* In a restricted airspace every permit comes from a key that had been given
\* the right to issue it by the authority of its time, or was the authority,
\* through any number of handovers and revocations (airspace_permit_create).
RestrictedPermitsWereGranted ==
    airspace.isRestricted =>
        \A owner \in Key : permits[owner] # NoOne => permits[owner] \in entitled

\* What the governor has proposed stands until the proposed key accepts it:
\* it can be neither withdrawn nor replaced, so acceptance cannot be raced,
\* and a key that never signs blocks the office (set_governor.rs).
GovernorProposalStands ==
    [][governorTransfer.exists =>
          \/ UNCHANGED <<governor, governorTransfer>>
          \/ governor' = governorTransfer.new /\ ~governorTransfer'.exists]_airspaceVars
=============================================================================
