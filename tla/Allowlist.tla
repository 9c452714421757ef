----------------------------- MODULE Allowlist ------------------------------
(***************************************************************************)
(* The investor allowlist: the gate flag, the per-investor flags, and the  *)
(* index the paginated views read.  Every entrypoint here takes the        *)
(* admin's authorization.                                                  *)
(***************************************************************************)
EXTENDS Sequences, SequencesExt, FiniteSets

CONSTANTS
    Investors,            \* the addresses that may fund
    AllowlistInitially,   \* init's allowlist_active argument
    MaxListed             \* bound on the stored index, for model checking only

ASSUME AllowlistAssumption ==
    AllowlistInitially \in BOOLEAN /\ MaxListed \in Nat /\ IsFiniteSet(Investors)

VARIABLES
    allowlistActive,      \* DataKey::AllowlistActive
    allowlisted,          \* investors whose InvestorAllowlisted flag is true
    allowlistIndex        \* DataKey::AllowlistIndex

allowVars == <<allowlistActive, allowlisted, allowlistIndex>>

AllowInit ==
    /\ allowlistActive = AllowlistInitially
    /\ allowlisted = {}
    /\ allowlistIndex = <<>>

\* Mutant: the gate looks at the index.
MayFundIndexed(i) == allowlistActive => \E k \in DOMAIN allowlistIndex : allowlistIndex[k] = i

(* The allowlist gate of fund_impl. *)
MayFund(i) == allowlistActive => i \in allowlisted

SetAllowlistActive(active) ==
    /\ allowlistActive' = active
    /\ UNCHANGED <<allowlisted, allowlistIndex>>

SetFlags(S, allowed) ==
    allowlisted' = IF allowed THEN allowlisted \cup S ELSE allowlisted \ S

(* The index after the flag of i is set: appended when it was off, its     *)
(* first occurrence removed when it was on.                                *)
Reindexed(i, allowed) ==
    IF allowed = (i \in allowlisted) THEN allowlistIndex
    ELSE IF allowed THEN Append(allowlistIndex, i)
    ELSE RemoveFirst(allowlistIndex, i)

SetInvestorAllowlisted(i, allowed) ==
    /\ SetFlags({i}, allowed)
    /\ allowlistIndex' = Reindexed(i, allowed)
    /\ Len(allowlistIndex') <= MaxListed
    /\ UNCHANGED allowlistActive

(* set_investors_allowlisted edits a local copy of the index that it never *)
(* stores, so the stored index keeps its old value.                        *)
SetInvestorsAllowlisted(S, allowed) ==
    /\ S # {}
    /\ SetFlags(S, allowed)
    /\ UNCHANGED <<allowlistActive, allowlistIndex>>

AllowNext ==
    \/ \E active \in BOOLEAN : SetAllowlistActive(active)
    \/ \E i \in Investors, allowed \in BOOLEAN : SetInvestorAllowlisted(i, allowed)
    \/ \E S \in SUBSET Investors, allowed \in BOOLEAN : SetInvestorsAllowlisted(S, allowed)

(* get_allowlisted_investors_count: index entries whose flag is on. *)
AllowlistedCount ==
    Len(SelectSeq(allowlistIndex, LAMBDA i : i \in allowlisted))

=============================================================================
