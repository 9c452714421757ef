---------------------------- MODULE CheckedMoney ----------------------------
(***************************************************************************)
(* The payout arithmetic at the width of its integers.  Module Payout      *)
(* computes with unbounded numbers; the contract uses i128 and refuses to  *)
(* answer when a step overflows.  The width is a parameter: only the order *)
(* of magnitude of an amount against it matters, never its digits.         *)
(***************************************************************************)
EXTENDS Payout

CONSTANTS
    MaxInt,               \* i128::MAX
    DepositAmounts,       \* amounts investors pass
    Targets,              \* amounts of the invoice, the default target
    Yields                \* yields of the escrow

(* MAX_INVOICE_AMOUNT, the bound init puts on the amount of the invoice. *)
MaxInvoiceAmount == MaxInt \div BpsDenominator

ASSUME MoneyAssumption ==
    /\ MaxInt \in Nat
    /\ DepositAmounts \subseteq 1..MaxInt
    /\ Targets \subseteq 1..MaxInvoiceAmount
    /\ Yields \subseteq Bps

VARIABLES
    target,               \* InvoiceEscrow::funding_target
    yield,                \* yield of the investor who is followed
    fundedTotal,          \* InvoiceEscrow::funded_amount, snapshot once closed
    contribution          \* DataKey::InvestorContribution of that investor

moneyVars == <<target, yield, fundedTotal, contribution>>

MoneyInit ==
    /\ target \in Targets
    /\ yield \in Yields
    /\ fundedTotal = 0
    /\ contribution = 0

(* A step that overflows, and everything computed from it. *)
Overflow == -1

CheckedMul(a, b) ==
    IF a = Overflow \/ b = Overflow \/ (b > 0 /\ a > MaxInt \div b)
    THEN Overflow ELSE a * b

CheckedAdd(a, b) ==
    IF a = Overflow \/ b = Overflow \/ a > MaxInt - b THEN Overflow ELSE a + b

CheckedDiv(a, b) == IF a = Overflow THEN Overflow ELSE a \div b

(* get_settlement_pool *)
CheckedPool(principal, rate) ==
    CheckedAdd(principal, CheckedDiv(CheckedMul(principal, rate), BpsDenominator))

\* Mutant: the division of the coupon is put off to the end.
CheckedPayoutLate(amount, principal, rate) ==
    IF amount = 0 \/ principal <= 0 THEN 0
    ELSE CheckedDiv(CheckedMul(amount, CheckedMul(principal, BpsDenominator + rate)),
                    CheckedMul(principal, BpsDenominator))

(* compute_investor_payout *)
CheckedPayout(amount, principal, rate) ==
    IF amount = 0 \/ principal <= 0 THEN 0
    ELSE CheckedDiv(CheckedMul(amount, CheckedPool(principal, rate)), principal)

Closed == fundedTotal >= target

(* fund, which counts each amount twice, by the investor who is followed   *)
(* or by somebody else.                                                    *)
Deposit(amount, mine) ==
    LET total == CheckedAdd(CheckedAdd(fundedTotal, amount), amount)
    IN  /\ ~Closed
        /\ total # Overflow
        /\ fundedTotal' = total
        /\ contribution' = contribution + IF mine THEN amount ELSE 0
        /\ UNCHANGED <<target, yield>>

(* A round that has closed is followed no further. *)
MoneyNext ==
    \/ \E amount \in DepositAmounts, mine \in BOOLEAN : Deposit(amount, mine)
    \/ Closed /\ UNCHANGED moneyVars

MoneySpec == MoneyInit /\ [][MoneyNext]_moneyVars

PayoutView == CheckedPayout(contribution, fundedTotal, yield)

-----------------------------------------------------------------------------
(* The view answers the payout exactly or not at all: no step wraps around *)
(* or is rounded otherwise than with unbounded numbers.  And it does       *)
(* answer, as does the pool settle computes by the same steps, whatever    *)
(* the yield and the share, for every principal within the bound on        *)
(* invoices whose doubled square still fits: for i128, 2^63 units.         *)
PayoutExactWithinRoot ==
    Closed =>
        /\ PayoutView \in {Overflow, GrossPayout(contribution, fundedTotal, yield)}
        /\ fundedTotal <= MaxInvoiceAmount /\ 2 * fundedTotal <= MaxInt \div fundedTotal
           => PayoutView # Overflow /\ CheckedPool(fundedTotal, yield) # Overflow

(* src/escrow/src/lib.rs:376-385 says the bound on the amount of an        *)
(* invoice makes every step of the payout overflow-free, for every yield   *)
(* and every contribution up to the principal.                             *)
BoundedInvoicePays ==
    Closed /\ fundedTotal <= MaxInvoiceAmount => PayoutView # Overflow

=============================================================================
