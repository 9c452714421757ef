---------------------------- MODULE EscrowParties ----------------------------
(***************************************************************************)
(* The addresses an escrow names: the SME, who settles and receives the    *)
(* money, the payer, who has to sign every deposit, and the registry hint. *)
(* Calls signed by the admin and, for the first two, by the party itself   *)
(* move them.  This module puts those calls beside the money calls of the  *)
(* escrow, which leave the addresses alone.                                *)
(***************************************************************************)
EXTENDS EscrowProperties

CONSTANTS
    Smes, Payers, Registries,
    NoRegistry            \* DataKey::RegistryRef is not set

ASSUME PartiesAssumption == NoRegistry \notin Registries

VARIABLES
    sme,                  \* InvoiceEscrow::sme_address
    payer,                \* InvoiceEscrow::payer
    registry,             \* DataKey::RegistryRef
    relied,               \* history: investor |-> the parties when they came in
    beneficiaries         \* history: the addresses release and withdraw paid

partyVars == <<sme, payer, registry>>
relianceVars == <<relied, beneficiaries>>
partiesVars == <<vars, partyVars, relianceVars>>

PartiesInit ==
    /\ Init
    /\ sme \in Smes /\ payer \in Payers /\ registry \in Registries \cup {NoRegistry}
    /\ relied = [i \in Investors |-> <<>>]
    /\ beneficiaries = {}

(* Rotation is over with the round: no terminal escrow allows it. *)
RotationOpen == ~legalHold /\ status \in {0, 1}

\* Mutant: whether anything is funded is not looked at.
RotateBeneficiaryFunded(new) ==
    /\ RotationOpen
    /\ new # sme
    /\ sme' = new
    /\ UNCHANGED <<payer, registry>>

(* rotate_beneficiary, signed by the SME and the admin. *)
RotateBeneficiary(new) ==
    /\ RotationOpen
    /\ fundedAmount = 0
    /\ new # sme
    /\ sme' = new
    /\ UNCHANGED <<payer, registry>>

(* rotate_payer, signed by the payer and the admin. *)
RotatePayer(new) ==
    /\ RotationOpen
    /\ new # payer
    /\ payer' = new
    /\ UNCHANGED <<sme, registry>>

(* rebind_registry_ref; with NoRegistry it is clear_registry_ref.  Neither *)
(* the status nor a hold matters.                                          *)
RebindRegistryRef(new) ==
    /\ fundedAmount = 0
    /\ registry' = new
    /\ UNCHANGED <<sme, payer>>

Rotation ==
    \/ \E new \in Smes : RotateBeneficiary(new)
    \/ \E new \in Payers : RotatePayer(new)
    \/ \E new \in Registries \cup {NoRegistry} : RebindRegistryRef(new)

(* What a money call adds to the histories: an investor who comes in       *)
(* relies on the addresses in force, and a payment out of a funded escrow, *)
(* which only release and withdraw make, goes to the SME in force.         *)
RecordReliance ==
    /\ relied' = [i \in Investors |->
          IF contribution[i] = 0 /\ contribution'[i] > 0 THEN <<sme, registry>>
          ELSE relied[i]]
    /\ beneficiaries' = IF status = 1 /\ balance' < balance
                        THEN beneficiaries \cup {sme} ELSE beneficiaries

PartiesNext ==
    \/ Next /\ RecordReliance /\ UNCHANGED partyVars
    \/ Rotation /\ UNCHANGED <<vars, relianceVars>>

PartiesSpec == PartiesInit /\ [][PartiesNext]_partiesVars

-----------------------------------------------------------------------------
(* Whoever is in the round is in it with the SME and under the registry    *)
(* hint they put their money in for, and the proceeds go to that SME and   *)
(* nobody else: across deposits taken back, an early close and             *)
(* instalments, no rotation slips in between a first deposit and the last  *)
(* payment.                                                                *)
OneCounterparty ==
    \A i \in Funders :
        /\ relied[i] = <<sme, registry>>
        /\ beneficiaries \subseteq {sme}

=============================================================================
