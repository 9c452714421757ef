------------------------------ MODULE MCEscrow ------------------------------
(***************************************************************************)
(* Small instances of an escrow for TLC.                                   *)
(***************************************************************************)
EXTENDS EscrowClaims, EscrowRefinement

Term(target, yield, mat, deadline, floor, maxPer, maxUnique, fee) ==
    [target |-> target, yieldBps |-> yield, maturity |-> mat, deadline |-> deadline,
     floor |-> floor, maxPer |-> maxPer, maxUnique |-> maxUnique,
     feeBps |-> fee, horizon |-> 2]

\* No caps, no deadline, a base yield and a fee of one half.
PlainTerms == {Term(4, 5000, 1, Absent, 0, Absent, Absent, 5000)}

\* With and without a maturity, so that settlement waits or does not.
MaturityTerms == {Term(4, 5000, mat, Absent, 0, Absent, Absent, 0) : mat \in 0..1}

\* A target that one deposit meets, for runs about what comes after.
QuickTerms == {Term(2, 5000, 1, Absent, 0, Absent, Absent, 5000)}

\* Every limit set: floor, both caps and a deadline before the maturity.
CappedTerms == {Term(6, 0, 2, 1, 2, 2, 1, 0)}

\* No maturity, so that locks run on after the settlement; the deadline lets
\* no commitment of one second be made later than at time 1.
TieredTerms == {Term(4, 0, 0, 1, 0, Absent, Absent, 0)}

\* No caps, and a deadline before the maturity.
WindowTerms == {Term(4, 0, 2, 1, 0, Absent, Absent, 0)}

NoTiers == <<>>

\* The best yield there is, for the shortest lock.
OneTier == <<[minLock |-> 1, yieldBps |-> 10000]>>

TwoTiers == <<[minLock |-> 1, yieldBps |-> 5000], [minLock |-> 2, yieldBps |-> 10000]>>

=============================================================================
