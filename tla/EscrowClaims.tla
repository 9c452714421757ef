---------------------------- MODULE EscrowClaims ----------------------------
(***************************************************************************)
(* Statements of the documentation and of comments that the code does not  *)
(* keep.  Each is refuted by a run of its own.                             *)
(***************************************************************************)
EXTENDS EscrowProperties

(* docs/adr/ADR-001-state-model.md: transitions are strictly forward, no   *)
(* entrypoint moves status backward.                                       *)
StatusNeverRegresses == [][status' >= status]_vars

(* docs/funding-invariants.md, 3: while the escrow is open or funded,      *)
(* funded_amount equals the sum of the stored contributions.               *)
FundedIsSumOfContributions ==
    status \in {0, 1} => fundedAmount = SumFunction(contribution)

(* Comment on open_dispute: any value-moving entrypoint checks the dispute *)
(* before transferring tokens.                                             *)
DisputeFreezesAllTokens == [][disputeActive => balance' >= balance]_vars

(* Comment on set_investors_allowlisted: the end state is that of single   *)
(* calls, which keep one index entry for each listed investor.             *)
IndexCountsAllowlisted == AllowlistedCount = Cardinality(allowlisted)

=============================================================================
