-------------------------- MODULE EscrowRefinement --------------------------
(***************************************************************************)
(* What the escrow implements: the funding round its investors are         *)
(* promised, and the two reduced escrows that stand for it elsewhere, in   *)
(* the settlement batch and beside the callbacks.                          *)
(***************************************************************************)
EXTENDS Escrow

(* A cancelled round stays cancelled even when a dust sweep has since      *)
(* rewritten the status code.                                              *)
roundPhase ==
    IF fundingCloseSnapshot # NoSnapshot THEN "closed"
    ELSE IF status = 0 THEN "open" ELSE "cancelled"

roundStanding ==
    [i \in Investors |->
        IF claimed[i] THEN "paid"
        ELSE IF refunded[i] THEN "repaid"
        ELSE IF contribution[i] > 0 THEN "in" ELSE "out"]

Round == INSTANCE FundingRound WITH phase <- roundPhase, standing <- roundStanding

(* Every call of the escrow is a step of the funding round or leaves the   *)
(* round alone: nobody is paid and repaid, or either of them twice, nobody *)
(* joins late, and the way the round ended is never revised.               *)
ImplementsFundingRound == Round!Spec

-----------------------------------------------------------------------------
(* The escrow as an instance that a settlement batch may name.  Its settle *)
(* is the only call the batch makes, so here it settles alone.             *)
batchEntry ==
    [status |-> status, maturity |-> maturity, settledAt |-> settledAt,
     blocked |-> legalHold \/ disputeActive \/ PausedBlocks("settlement")]

Batch == INSTANCE SettlementBatch WITH
    Instances <- {"escrow"}, Hosts <- {}, SettleBatch <- 1,
    Maturities <- {t.maturity : t \in Terms} \cup Times,
    book <- [e \in {"escrow"} |-> batchEntry],
    lastBatch <- [at |-> Absent, escrows |-> <<>>]

(* The escrow as the callbacks see it: cancelled or not, and swept after.  *)
callbackStage ==
    IF status = 4 THEN "cancelled"
    ELSE IF status = 2 /\ fundingCloseSnapshot = NoSnapshot THEN "swept" ELSE "live"

Stage == INSTANCE Callbacks WITH
    Origins <- {}, Phases <- {}, MaxNonce <- 0, stage <- callbackStage,
    callbackNonce <- 0, callbackContexts <- <<>>, registrations <- <<>>, executions <- <<>>

(* Whatever happens to an escrow happens to its reduced copies: a settled  *)
(* instance in the batch neither gets a second settlement nor loses its    *)
(* record, and only an open round can be cancelled, once, until a sweep.   *)
(* What is shown of the reduced machines is shown for the escrow.          *)
StandsInForEscrow == Batch!BatchSpec /\ Stage!CallbackSpec

=============================================================================
