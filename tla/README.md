# LiquiFact escrow: TLA+ specification and proofs

This directory specifies the invoice escrow contract of this repository
(`src/escrow/src/lib.rs`, a Soroban contract) in TLA+. TLC checks small
instances of the modules; TLAPS proves the theorems for every value of the
constants. Line numbers below are those of `src/escrow/src/lib.rs`.

## 1. The system

One contract instance holds one invoice. Investors deposit a SEP-41 token; when
funding closes, a snapshot fixes the denominator of all payouts; the SME then
settles at maturity (investors claim principal and coupon) or is paid out by
release and withdrawal; or the admin cancels the round and investors are
refunded. The treasury sweeps what is left. Three gates (legal hold, dispute,
operational pause) are meant to stop the flows.

The contract is passive: an invocation is one atomic transaction, a failed
check panics and reverts everything, and time is the ledger timestamp. The
concurrency that matters is therefore the *order* of calls by independent
parties (investors, SME, admin, treasury, anybody who transfers tokens) and of
those calls with the passing of time.

| component | lines | state | operations | what makes it correct |
|---|---|---|---|---|
| init | 2948-3175 | all terms | `init` | argument checks, everything starts open and empty |
| Funding | 6139-6602, 8201-8284 | status, funded amount, contributions, yields, locks, counter, index, snapshot | `fund`, `fund_with_commitment`, `fund_batch`, `unfund`, `partial_settle` | caps and floor kept, one snapshot, counter and index exact, deposits covered by tokens |
| Funding terms | 5711-5955, 7281-7541, 3813 | target, caps, floor, deadline, maturity, horizon, yield, fee | ten admin calls | no term moves what was already fixed; a lapsed window stays lapsed |
| Disbursement | 262, 3338-3404, 6609-7072, 8033-8176 | status, released, distributed, claimed, refunded, closed | `settle`, `release`, `withdraw`, `claim_investor_payout`, `cancel_funding`, `refund`, `refund_batch`, `sweep_terminal_dust`, `close_escrow` | nobody paid twice or by two doors, liabilities counted exactly, nobody stuck |
| Payout | 2815-2905, 4289, 7157-7279 | none | coupon, pool, share, fee, tier table and its scan | payouts fit in the pool and in the integers, the scan finds the best tier |
| Transfer wrappers | `external_calls.rs` | token balances | outbound, inbound transfer | exactly the amount moves |
| Legal hold | 5353-5421, 5629-5709 | flag, clearable-at | four calls | a hold outlasts the clear delay |
| Dispute | 3686-3766 | flag, record | `open_dispute`, `close_dispute` | exits stop while it is open |
| Operational pause | 1307-1341, 2674-2721, 5065-5334 | flag, paused-at, typed scope, duration, limit, window | `set_paused`, `set_pause_max_duration`, `set_pause_rate_limit` | stops the entries its scope names; toggles are bounded |
| Allowlist | 5425-5626 | gate flag, investor flags, index | three calls, count view | only listed investors deposit while it is on |
| Admin handover | 7789-8020 | admin, pending admin, expiry | five calls | the role moves by a live proposal of its holder |
| Rotation of SME and payer, registry | 3222-3257, 3480-3586 | two addresses and a hint | four calls | nobody in the round gets another counterparty |
| Attestation log | 3924-4569 | hash, log, revoked flags | bind, append, revoke one or several, restore, pages | events tell the flags, readers miss nothing |
| Collateral metadata | 4309, 4876-5022 | commitment record | record, batch record, clear | the events form a ledger of what is stored |
| Callback contexts | 8372-8497 | nonce, contexts | two calls | each nonce runs once, as registered |
| Fee schedule | 2542-2652 | pending, active, previous | two calls, three views | views follow what was accepted, whoever promotes when |
| `settle_batch` | 6708-6722 | the status of other instances | one call | all or none |
| Storage rent and limit | 7427, 7566-7647, 7704-7764 | entry lifetimes, a limit | `set_storage_limit`, `bump_ttl`, `batch_bump_ttl`, the top-up of `extend_funding_deadline` | the admin's batch keeps everything alive |
| `migrate`, `upgrade`, getters | various | | | *not modelled*, section 8 |

Interaction: all components live in one storage and call one another's helpers.
The gates are read by the money calls and never read the money state; the terms
are read by funding and settlement; rotations read the funded amount and change
who signs and is paid. The token contract and, in `settle_batch`, other escrows
are the only callees. Nothing calls back into the escrow.

The hard behaviours, each listed with its line in `PROJECT.json` under
`hazards`: several call paths that close funding, leaving and returning
investors, batches, instalments followed by a withdrawal, a sweep that races
refunds and rewrites the status, retried claims, terms moved under recorded
commitments, gates combined by hand in every entrypoint, auto-expiring pauses,
fixed rate-limit windows, clear requests older than the hold, deadlines that
lapse between two calls, proposals that expire while they are accepted,
rotations between an early close and a payment, batches that fail halfway,
readers paging through a log that grows, entries that are archived between two
bumps, and integers that overflow.

## 2. Modules

```
LegalHold ── HoldTimelock ─────┐
OperationalPause ─ PauseHistory┤
AdminHandover, FeeSchedule,    │
Callbacks, Attestation,        ├─ MCSideMachines
Collateral, SettlementBatch,   │
StorageRent, TierSelection,    │      each of them EXTENDS LedgerClock
CheckedMoney ──────────────────┘      where it has a clock

LegalHold, Dispute, OperationalPause, Allowlist, Payout
   └─ EscrowState ─┬─ Funding ──────┐
                   ├─ FundingTerms ─┼─ Escrow ─┬─ EscrowProperties ─ EscrowParties ┐
                   └─ Disbursement ─┘          │        └─ EscrowClaims ─ MCEscrow ─ MCParties
                                               └─ EscrowRefinement ──────┘
                                                   (INSTANCE FundingRound,
                                                    SettlementBatch, Callbacks)

proofs:  EscrowTypes ─ EscrowSafety ─ EscrowConduct ─ EscrowAccounting ─ PartiesProofs
         SumProofs ──────────────────────────────┴─ MachineProofs
         GovernanceProofs
```

* **LedgerClock**: the clock. Several invocations may share a timestamp. `Absent`
  (-1) is an optional key that is not set.
* **LegalHold, Dispute, OperationalPause, Allowlist**: one gate each, its keys as
  variables and one action per entrypoint.
* **Payout**: the arithmetic, as operators.
* **EscrowState**: the storage of one instance, `init`, shared predicates, the
  close of funding, payout views, transfers in and out.
* **Funding, FundingTerms, Disbursement**: one action per entrypoint.
* **Escrow**: the instance; `Next` is a call of one family or a tick of the clock.
  The constant `Families` says which gate and term families an instance uses,
  which lets a run turn off those its question does not involve.
* **EscrowProperties**: what must hold. **EscrowClaims**: what the documentation
  says and the code does not do.
* **FundingRound**: the abstract promise to investors, without amounts, time or
  gates. **EscrowRefinement**: the refinement mapping, and the mappings under which
  the escrow is one instance of SettlementBatch and the escrow of Callbacks.
* **EscrowParties**: the addresses an escrow names, and the calls that move them,
  composed with every call of Escrow.
* **HoldTimelock, PauseHistory, AdminHandover**: the promises that need a history
  variable: when the hold was set, when toggles happened, what was proposed.
* **FeeSchedule**: two calls and three views of the fee schedule; its clock counts
  ledgers instead of seconds. **Callbacks**: registration and execution, with the
  escrow's status reduced to what cancellation and sweep make of it.
* **Attestation**: hash, log and flags, and a reader who takes the log page by page
  between the admin's calls. **Collateral**: the record, and an indexer who takes
  the events of each call in order.
* **SettlementBatch**: several instances, each reduced to status, maturity, one
  gate and `SettledAt`, which go their own way between batches: another call may
  change their status or maturity, a gate may move, and the clock may end a pause
  of any of them. A batch applies `settle` entry by entry to the book; the first
  failure makes the outcome `Reverted`. What an instance does alone is what the
  full escrow does (`StandsInForEscrow`).
* **StorageRent**: the last ledger each entry lives, the calls that raise it, the
  ticks that archive it and the restoration by the host. A write gives a new entry
  the host's `FreshTtl`; `FreshTtl >= MinExtension` is an assumption about the host.
* **TierSelection**: the loop over the tier table, one turn per step, for every
  valid table. **CheckedMoney**: the payout arithmetic with an integer width as a
  parameter; an overflowing step makes the result `Overflow`, as
  `checked_*` operations make the call fail.
* **EscrowTypes, EscrowSafety, EscrowConduct, EscrowAccounting, PartiesProofs,
  GovernanceProofs, MachineProofs**: theorems. **SumProofs**: what `SumFunction`
  computes, for every function of a finite set.
* **MCEscrow, MCParties, MCSideMachines**: instances for TLC.

### How the code is read

* An entrypoint is one action; a panic is a disabled action. Early returns without
  a write (`close_dispute(false)`, a repeated claim, an unpause with nothing
  stored) are stuttering steps and are left out.
* The source of the escrow crate carries unresolved merges: duplicated checks,
  undefined locals, functions given twice. Each function is read by its evident
  effect; duplicated checks are modelled once; a write that is made *twice with
  effect* is modelled twice. That is the case of `funded_amount`, which
  `fund_impl` advances by the amount at line 6405 and again at line 6468, hence
  `Credit(amount) == 2 * amount`.
* Authorization: the money calls require the signature of the role the code
  names; the actions stand for authorized calls. Addresses of SME and payer are
  part of the state in `EscrowParties`, the admin's in `AdminHandover`, which has
  the signer as a parameter; the treasury's is fixed by the code.
* Batches have two entries. `fund_batch` is written out, because its second entry
  sees the counter and the amount left by the first and any failure reverts
  both; `refund_batch` skips entries refunded before. A longer batch ends where
  single calls and two-entry batches end.
* Amounts are unbounded integers, except in `CheckedMoney`, which follows the
  payout at a bounded width. Overflow is a failed call in the code.
* The token is a compliant SEP-41 token: the wrappers in `external_calls.rs`
  reject any other by checking balance deltas. Transfers to the contract outside
  its entrypoints (`ReceiveTransfer`) are how the SME repays and how stray tokens
  arrive.
* History variables: `principal` (sum of contributions), `paid` (per investor),
  `heldSince`, `toggles`, `grant`, `accepted`, `registrations`, `executions`,
  `relied` and `beneficiaries`, `trail`, `reader`, `indexer`, `lastBatch`,
  `lastKeep`, `resolutions`. No guard of a call reads them.
* Operators marked *Mutant* are altered forms of the definition that follows
  them; they are in no specification and document which error a property detects.

## 3. Properties

* Custody and accounting: `PrincipalBacked`, `DistributionAccounted`,
  `PayoutsWithinPool`, `PrincipalIsSum`, `ReconciliationMatchesSweep`.
* Close of funding: `SnapshotTracksStatus`, `SnapshotPinsFunding`,
  `EntitlementFrozen`.
* One way out, once: `PaidExactlyOnce`, `NoRefundAndPayout`, `ClaimPaysTheView`,
  `ImplementsFundingRound`.
* Reduced copies: `StandsInForEscrow`, by which what is shown of the escrow that
  SettlementBatch and Callbacks keep is shown of the escrow.
* Bookkeeping: `FunderCountExact`, `InvestorIndexSound`, `CapsRespected`,
  `CommitmentKept`, `OneCounterparty`.
* Gates: `HoldFreezesFunds`, `DisputeFreezesExits`, `PauseStopsEntries`,
  `AllowlistGatesDeposits`, `LapsedStaysLapsed`.
* Governance: `TimelockServed`, `BurstBounded`, `HandoverByConsent`.
* Beside the money: `ViewsFollowTimeline`, `CallbackRunsOnce`,
  `RevocationsAudited`, `ReaderMissesNothing`, `PledgeEventsChain`,
  `BatchSettlesTogether`, `KeeperKeepsAlive`.
* Arithmetic: `BestTierGranted`, `PayoutExactWithinRoot`.
* Progress: `RefundsComplete`, `FundedEventuallyLeaves`, `ClaimsComplete`,
  `PauseCanBeLifted`.

`TypeOK` is the type invariant of the escrow. Those of the hold and the handover
are theorems; the other machines state theirs inside their inductive invariants.
Every property is stated in words where it is defined.

Some of them owe their truth to something a reader should know:

* `PayoutsWithinPool` compares tier yields with a pool at the base yield. It holds
  because the denominator of every share is twice the principal (the double
  credit above) and no yield exceeds 100%. With a single credit it fails as soon
  as an investor holds a tier above the base yield; the mutant `CreditOnce` is
  this case. Repairing the credit will need a repair of the pool.
* `HoldFreezesFunds` and `DisputeFreezesExits` name the exceptions the code makes:
  refunds under a hold, releases during a dispute. The exception is the refund
  itself, not the cancelled state: a sweep of a cancelled escrow is stopped by a
  hold like every other exit.
* `ClaimPaysTheView` compares the view with the gates of the claim in states in which
  neither the claims pause nor a dispute stands, since the view looks at neither
  (section 6). There it answers the entitlement exactly when the gates let the
  investor pass.

## 4. Runs

| run | question | instance |
|---|---|---|
| `escrow_core` | Do custody, accounting, snapshot, counters, index, counterparty and single payment hold over all orders of the money calls and rotations, and is every call a step of the funding round? | 2 investors, deposits of 1 or 2, target 4 that may be moved to 3, maturity 1, base yield and fee of one half that may be moved to 0, stray transfers up to a balance of 6, 2 SMEs, 2 payers, 1 registry, time up to 1 |
| `escrow_gates` | Does each gate stop what it is meant to stop, and is the escrow what its reduced copies say? | 1 investor, target 4, all five pause scopes, expiry after 1, no toggle limit (it only refuses toggles, and is a subject of `side_machines`), clear delay 1 |
| `escrow_limits` | Do caps and snapshot survive changes of the terms during the round? | 2 investors, all caps set and moved among 1, 2, 3, target 6 moved to 4 |
| `escrow_admission` | May only listed investors deposit, and only in the window, and are commitments kept while terms move? | 1 investor, two tiers (50%, 100%), locks 0, 1, 2, base yield 0 that may be moved to 50%, deadline before maturity, both moved among 0, 1, 2, allowlist on, time up to 3 |
| `escrow_tiers` | Do payouts fit in the pool, does the view tell what can be claimed, and is everybody paid who waited for a lock? | 2 investors, base yield 0, a tier of 100% for a lock of 1, no maturity, deposits until time 1, time up to 2, a pause of claims |
| `escrow_liveness` | Is everybody eventually refunded, and does a funded round move on? | 2 investors, disputes, pauses that expire after 1 or never, transfers, with and without maturity |
| `side_machines` | Do the eleven machines beside the money flows keep their promises over all orders of calls and time? | time up to 5; see below |
| `claim_*` | Is a documented statement kept? (five runs, each refuted) | small instances |

**Bounds.** `MaxTime` bounds the clock, `MaxBalance` stray transfers, `MaxListed`
the allowlist index, and the funding target the deposits. Two investors are
enough for every property here: each is about one investor, a pair, or a sum
that two terms already tell apart. Deposits of 1 and 2 against a target of 4
(funded amount 2 to 8 with the double credit) give an open, an exactly met and
an overshot target, and rounding in coupons and shares. The times reach
every maturity, lock, expiry and window used, and past every deadline. What does not depend on
the bounds is proved (section 5). In `escrow_tiers` there is no maturity, so that a
round is settled while locks still run (a lock may end at 2, a settlement come at
0), and the deadline of 1 keeps every lock within the clock of the model; no lock
has to be left out of `ClaimsComplete`. `escrow_core` is symmetric in investors, SMEs
and payers: no action and no property tells one from another, and the run has
no liveness property.

`side_machines` follows the calls of one machine per behaviour (`focus`), since
none reads a key of another; the others stay in one initial state. Its bounds,
each of which makes the interesting case happen: clear delay 2; toggle limits 1
and 2 per window of 2; 3 addresses and windows 0 and 2 for the handover; 2 fees,
activation up to ledger 6; 2 origins, phases and nonces; a log of 3 digests,
revocation batches of up to 2 (and of 0 and 3, which are refused), pages of 2
asked for with limits 1 and 3, below and above the page; 2 assets, the empty one,
amounts 0 to 2, batches of 2; 2 instances with maturities 0 and 2 and batches of
up to 3, called on an instance of the batch and on one that is not; extension 2,
fresh lifetime 3, limits below and above the extension, one investor with 3
entries; every valid table of up to 3 tiers over 3 locks and 3 yields with base
yields 0 to 2 and commitments between, on and past the locks; an integer width
of 200 million, under which the bound on invoices (20 000), the root of the
width (10 000 for a doubled square) and the amounts 333 and 4999 fall into every
case of the arithmetic.

Deadlock is checked in all passing runs; none stops, because admin calls, the
reopening of disputes, a repeated submission or another sweep stay possible. The
arithmetic, which ends where the round closes, stutters there explicitly.

**Fairness.** The contract never acts on its own, so progress is a statement
about callers. `Diligence` assumes weak fairness of `Tick` (ledgers keep
closing), of `Settle` (the SME keeps trying) and of each investor's `Refund` and
`Claim`. Weak fairness is enough since the premises of the properties ask that
the obstacle has gone for good (`<>[]`): a caller who retries then succeeds.
Nothing is assumed of the admin, of disputes or of stray transfers. A pause that
expires on its own counts as gone in `FundedEventuallyLeaves`, without a call that
lifts it. `ClaimsComplete` also asks for a solvent escrow, because the repayment by
the SME is not enforced on chain; it is checked in `escrow_tiers`, where
commitments outlast the settlement.

`FairMachinesSpec` assumes weak fairness of the clock and of an operator who keeps
trying to unpause. That operator gets through once nobody pauses any more, which
`PauseCanBeLifted` has as a premise. Without it the claim would need strong
fairness: whoever pauses again at the end of each window uses up the next one, and
the code gives an operator no means to call in between. The other premise leaves
out a window that ends past the bound of the clock, which is the model's limit and
not the code's; changes of the limit are not restricted.

## 5. Proofs

| theorem | module | states |
|---|---|---|
| `TypeCorrect` | EscrowTypes | `TypeOK`, so the balance never goes negative |
| `SnapshotStatus`, `SnapshotPinned` | EscrowSafety | `SnapshotTracksStatus`, `SnapshotPinsFunding` |
| `PrincipalIsBacked` | EscrowSafety | `PrincipalBacked` |
| `EntitlementIsFrozen` | EscrowSafety | `EntitlementFrozen` |
| `OneWayOut`, `ClaimsPaidOnce` | EscrowSafety | `NoRefundAndPayout`, `PaidExactlyOnce` |
| `AllowlistGates`, `WindowStaysLapsed` | EscrowConduct | `AllowlistGatesDeposits`, `LapsedStaysLapsed` |
| `ViewIsPaid`, `CommitmentIsKept` | EscrowConduct | `ClaimPaysTheView`, `CommitmentKept` |
| `HoldFreezes`, `DisputeFreezes`, `PauseStops` | EscrowConduct | `HoldFreezesFunds`, `DisputeFreezesExits`, `PauseStopsEntries` |
| `EscrowImplementsRound`, `EndOfRoundIsFinal` | EscrowConduct | `ImplementsFundingRound`, the refinement, and what it carries over to the escrow |
| `EscrowHasItsCopies` | EscrowConduct | `StandsInForEscrow`, two more refinements |
| `FundersCounted`, `CapsHold` | EscrowAccounting | `FunderCountExact`, `CapsRespected` |
| `PrincipalAddsUp`, `PoolSuffices` | EscrowAccounting | `PrincipalIsSum`, `PayoutsWithinPool` |
| `BooksBalance`, `IndexServes` | EscrowAccounting | `DistributionAccounted`, `InvestorIndexSound` |
| `ReconciliationAgrees` | EscrowAccounting | `ReconciliationMatchesSweep` |
| `RefundsStayPayable`, `SweepSparesRefunds` | EscrowAccounting | a cancelled escrow holds what is owed to all who are in, and no step goes below it |
| `FundersAreMadeWhole`, `PoolCoversAllClaims` | EscrowAccounting | nobody is owed less than was put in; paid and owed together fit in the pool |
| `SolventRoundsPay`, `ClaimsSpareOthers` | EscrowAccounting | a solvent round refuses no claim for its amount, and claims keep it solvent |
| `SplittingIsNeutral`, `SharesWithinPool`, `PayoutIsMonotone`, `FeeWithinGross` | EscrowAccounting | the payout operators, for all arguments |
| `CommitmentsAreGranted`, `LongerLocksEarnNoLess` | EscrowAccounting | the tier operator, for all tables |
| `RotationsSpareTheEscrow`, `CounterpartyIsKept` | PartiesProofs | the composition implements the escrow; `OneCounterparty` |
| `TimelockTypes`, `RequestNeverPredatesHold`, `HoldOutlastsDelay` | GovernanceProofs | types and order of the hold, `TimelockServed` |
| `HandoverTypes`, `PendingStaysCurrent`, `HandoverNeedsConsent` | GovernanceProofs | types and order of the handover, `HandoverByConsent` |
| `WindowIsExact`, `BurstsAreBounded` | GovernanceProofs | `WindowCountsToggles`, `BurstBounded` |
| `FeeViewsFollow` | GovernanceProofs | `ViewsFollowTimeline` |
| `PledgeEventsFormLedger`, `KeeperSuffices`, `CallbacksRunOnce`, `RevocationTrail`, `ReadersMissNothing` | MachineProofs | `PledgeEventsChain`, `KeeperKeepsAlive`, `CallbackRunsOnce`, `RevocationsAudited`, `ReaderMissesNothing` |
| `BatchesSettleTogether`, `BatchIsJointSettlement` | MachineProofs | `BatchSettlesTogether`; a batch equals settling each of its escrows alone, in any order |
| `TierScanBest`, `PayoutsExact` | MachineProofs | `BestTierGranted`, `PayoutExactWithinRoot` |

They hold for every set of investors, every amount, term, delay and bound. The
assumptions are the named ones in the modules that declare the constants, which
TLC evaluates in the runs: types of the parameters, and

* `AllowlistAssumption`: the investors are a finite set (the counter counts them,
  the sums run over them);
* `RentAssumption`: the host's first lifetime is at least the extension;
* `CollateralAssumption`, `AttestationAssumption`, `EscrowAssumption`,
  `PartiesAssumption`: the values for "nothing stored" are not values a caller
  passes;
* `MoneyAssumption`: invoices within `MAX_INVOICE_AMOUNT`, amounts within the
  integers, yields within `Bps`.

**The escrow.** Types are inductive by themselves, one lemma per action; the
balance stays natural because every exit goes through a checked transfer. On
types rests `SnapshotInv`: `SnapshotTracksStatus` and `SnapshotPinsFunding` are
inductive only *together*, since a deposit may write a snapshot only because an
open escrow has none, and a target change keeps the snapshot only because a
closed escrow refuses it. From it follow `EntitlementFrozen`, action by action
(`EntitlementKept`), and `PrincipalBacked`, which needs that a claim happens in a
settled escrow and that a closed one is never open again. `NoRefundAndPayout` is
not inductive: the sweep rewrites `cancelled` to `settled`, after which the status
no longer separates the exits. The strengthening `ExitsSplit` uses the snapshot
instead: claimed investors need it, refunded ones exclude it. `PaidExactlyOnce`
follows, with the frozen entitlement carrying it over every step that pays
nobody.

**Conduct and refinement.** Each action property is a reading of the guards of
the actions that could violate it, from the types, and every other action
is shown not to touch what it speaks of. `HoldFreezes` also needs that the refunded
have nothing left in the round (`RefundedAreOut`), so that tokens a refund pays
out are told by a mark that was not there before. The refinement needs `RoundInv`: the
invariants above and `RefundedAreOut`. Under the mapping each call is a step of `FundingRound` or a
stutter; the case that is not obvious is a sweep of a cancelled escrow, which the
abstract round does not see. The reduced escrows of SettlementBatch and Callbacks
are refinements of the same kind. `EntryMove` sums up what a call may do to
status, maturity and `SettledAt` together; a step of the escrow is then a step of
its copy that settles, moves status or maturity, or turns the gate. The one point
to argue is that no call moves the gate *and* those three, and that time only
lifts it: hold and dispute need a call, and a pause that has lapsed stays lapsed
until the next one. The copy of Callbacks tells a swept cancelled round from a
settled one by the missing snapshot, as `SnapshotStatus` allows.

**Accounting.** The counter is compared with the cardinality of `Members`, those
in the round or refunded, which an action changes by one element at a time and a
batch by two. `CapInv` puts the cap on the counter rather than on the funders,
as the code checks it. A sum over the
investors is a fold, a recursion over sets in an order left open. The induction
theorems of the library are out of reach, so SumProofs argues by least
counterexample: inclusion among finite sets is well-founded, so a claim that fails
has a least set where it fails, and one turn of the recursion refutes it there.
That gives what `PrincipalAddsUp` needs (`SumMoves`: a sum changes by what one
investor's term changes) and what `PoolSuffices` needs (`SumWithinTwice`). A tier may
pay more than the base yield the pool is computed at, so why is the pool enough?
The inductive `TwiceCredited` says that twice the recorded principal is within the
funded amount, as every deposit is credited twice and a refund lowers the
principal alone; no payout exceeds twice its investor's contribution
(`PayoutWithinTwice`), hence all together stay within the pinned total, and the
pool is at least that. With a deposit credited once the argument fails, and so
would the property for tiers above the base yield. `BooksInv` adds to
`DistributionAccounted` that an open escrow has distributed what it released,
which is nothing. `IndexInv` explains why the index does not grow without bound:
while the round is open, entries *and* principal together stay within the funded
amount, for a deposit adds at least one of each and is credited twice, whereas
taking it back is debited once.

On these rest the promises that an investor would ask for. `RefundsStayPayable`:
a cancelled escrow has released nothing (`Unreleased`), so that the custody
invariant says its balance covers the principal, and the principal is the sum of
what is owed to whoever has not been refunded; no sweep and no order of refunds
can leave the last one short. `ReconciliationAgrees` compares the view with the
sweep over one state; it needs that the distributed principal stays within the
funded amount (`BooksBalance`), without which the saturating subtraction of the
view and of the floor would say different things. `FundersAreMadeWhole` and
`PoolCoversAllClaims` follow from `TwiceCredited` again: the share of a pool that
is at least the pinned total cannot be less than the position, by the division
that truncates, and what was paid is what is still owed to those who claimed.
`SolventRoundsPay` and `ClaimsSpareOthers` are the safety half of `ClaimsComplete`,
as `RefundsStayPayable` is of `RefundsComplete`: no call is refused for lack of
tokens or for a payout of zero, and `Owed` and the balance fall together.
`SharesWithinPool` is about the payout operators alone and does *not* use the
double credit: it is what the pool guarantees at one yield whatever becomes of it.
That a sum of truncated shares stays within the whole is `SumScaled`, a bound on
each summand carried to the sums, by least counterexample as above.

**Counterparty.** `RelianceInv` joins the money and the addresses: while nothing is
funded nobody is in the round (from `IndexServes`, whose credit argument shows
that a funded amount of zero leaves no funder), so that a rotation meets no
reliance; and no proceeds are paid before something is funded.

**Machines.** The fee schedule: `ScheduleInv` counts the promotions; after
`m` of them the keys hold the schedules accepted at `m - 1`, `m` and `m + 1`, and a
due one not yet promoted makes the views answer as if there had been `m + 1`. The
hold: `RequestFollowsHold` is inductive because `set_legal_hold` drops a pending
request in both directions. The handover: `PendingIsCurrent` ties
the stored proposal to the last one made. The pause: `RateInv` says what the
window counts and that any stretch of its length overlaps at most two windows.
Rent: `RentInv` bounds every lifetime from below by the last complete batch.
Callbacks: nonces of contexts, registrations and executions are pinned to one
another. Attestation: the entries read are a prefix of a log that is only
appended to. Tiers: the scan's best so far is best among the tiers it has
passed, for yields rise with locks in a valid table. With
`CommitmentsAreGranted` that best yield is the one `FundWithCommitment` chooses.
Money: a checked product is exact or refused (`MulChecked`), and a principal whose doubled square fits in the
width leaves room for contribution times pool (`RootSuffices`).
The settlement batch: its outcome is a recursive function over the entries, about
which nothing can be proved by induction over sequences; `RunExists` shows by least
counterexample that it has a value for every batch, `BatchSettles` that an outcome
that is not `Reverted` is the book with all named escrows settled, from an
entry-by-entry account of which are settled already. A second occurrence of an
escrow fails there, since the first has left it settled, hence the entries are
distinct. The record then stays (`SettledStay`), as no call writes `SettledAt` of a
settled instance and a sweep leaves the status where it is.

**Only model-checked.** Liveness (`RefundsComplete`, `FundedEventuallyLeaves`,
`ClaimsComplete`, `PauseCanBeLifted`), which is out of the prover's reach. Every
invariant and every other action property of the passing runs is a theorem.
`TypeOK` leaves out the type of the allowlist index, which nothing relies on.

## 6. Divergences between documentation and code

Shown by a run each (`claim_*`):

* `StatusNeverRegresses`: the sweep sets status 2 (3401) on withdrawn and
  cancelled escrows; ADR-001 says no entrypoint moves status backward. From
  cancelled, the refunds that are still due become impossible, as `refund` wants
  status 4 (8079), and a claim pays nothing without a snapshot.
* `FundedIsSumOfContributions`: the amount is added twice (6405, 6468);
  funding-invariants.md says funded amount is the sum of contributions.
* `DisputeFreezesAllTokens`: `release` (6737) does not look at the dispute; the
  comment at 3702 says every value-moving entrypoint must.
* `BoundedInvoicePays`: the bound on invoice amounts (386) is said, in the comment
  before it, to keep every step of the payout free of overflow. It bounds the
  coupon; contribution times pool grows with the square, so an investor of a large
  round within the bound cannot claim. `PayoutExactWithinRoot` states the bound
  under which all can: for i128, a principal of 2^63 units.
* `IndexCountsAllowlisted`: the batch call (5503) never stores the index; the
  comment at 5497 says it ends where single calls end.

Met while reading, each a single call of the model away, without a run:

* The claimable-payout view (7094) looks at status, hold, payment and lock; its
  comment (7074) says it applies all gating rules of the claim, which also refuses
  under a claims pause (7007) and during a dispute (7021). `ClaimPaysTheView` has
  their absence as a condition.
* `fund_batch` (6196) is said to process the remaining entries after one has closed
  funding; `fund_impl` wants an open escrow for each, so that such a batch reverts
  as a whole.
* The readiness view (4575) ignores pause and dispute; the comment at 1612 says it
  is true exactly when settle would succeed.
* `partial_settle` (6556) makes an escrow funded below its target; ADR-001:20.
* `close_escrow` (262) ignores the dispute flag; comment at 255.
* `open_dispute` (3704) overwrites a resolved record; comment at 3700.
* `refund_impl` (8090) leaves the funder counter; funding-invariants.md:174.
  `FunderCountExact` states what the counter is instead.
* `update_maturity` (7281) may put the maturity before a committed lock;
  funding-invariants.md:324.
* `set_protocol_fee_bps` (3813) changes a fee said to be immutable; fees-states.md:9.
* `set_legal_hold(false)` is not an immediate override under a clear delay (5356);
  comment at 5637.
* The toggle limit counts in fixed windows, not rolling ones (5084); comment at
  5238. `BurstBounded` states the bound it does give: twice the limit.
* Unpausing is rate-limited too (5101); pauser-states.md:46.
* The first promotion of a fee schedule stores its missing predecessor as a set
  but empty option (2599); `get_previous_fee_schedule` (2637) reads it as a
  schedule and traps until the second promotion, where its comment promises an
  optional answer.
* After a sweep has moved a cancelled escrow to settled, callbacks registered
  before the cancellation can be executed (8448);
  `callback_binding_tests.rs:216` tests that cancellation rejects them, without a
  sweep.
* `rotate_beneficiary` refuses once something is funded (3496); the conditions listed
  at ESCROW_BENEFICIARY_ROTATION.md:44 do not name it. `OneCounterparty` rests
  on it.
* The comment of `get_reconciliation` (8319) says `distributed_principal` stays 0 in
  withdrawn escrows; release and withdrawal advance it. Because of the double
  credit the view shows a deficit for every cancelled escrow without a shortfall.
* `get_funding_records` tells readers to stop at a page shorter than requested
  (4137) while it clamps what they request to its page size; the attestation view
  speaks of the effective limit (4492), and `ReaderMissesNothing` holds for it.
* Pages of investors repeat whoever left and came back (6504).
* allowlist.md:53, 144 and 463 describe removal from the index as a swap with the
  last element; `Vec::remove` shifts.
* collateral-states.md:99 describes a log of collateral records that the code does
  not keep.
* escrow-gas-storage-notes.md and allowlist.md say that deposits, claims and
  allowlist calls extend lifetimes; no `extend_ttl` is in them, only in `bump_ttl`
  (7580), `batch_bump_ttl` (7704) and the top-up after `extend_funding_deadline`.
* `bump_ttl` touches the claimed key of every investor it names, so it fails for
  whoever has not claimed. The rent plan (4726) reports that key, never written, as
  expired, "already archived" (1649).

## 7. Plan

Done, in this order: clock and gates; the state; funding, terms, disbursement; the
composition; properties and runs; hold, pause and handover with history; fee
schedule and callbacks; the abstract round; types, snapshot, custody and
single-payment proofs; the addresses and their rotation, composed with the
escrow; attestation, collateral, settlement batches, rent; the tier scan and the
arithmetic at a bounded width; the proofs of conduct, refinement, accounting,
counterparty, machines and arithmetic; the settlement batch, the reduced copies,
the reconciliation view, and what is left for those still to be paid or refunded.

Left: that a batch of deposits or of refunds, of any length, ends where its entries
made one by one end, which is argued for two entries where the batches are
defined; the hold and the pause with their histories as the gates of the escrow, as
was done for its other reduced copies.

## 8. Not modelled

* `migrate` (5996) checks versions and fails in every case; `upgrade` (6117)
  replaces the program this model is of.
* Views that page through `paginate_window`, which the crate does not define
  (investors, allowlisted investors, revoked digests), and `get_rent_bump_plan`, which
  reads which keys exist. Plain getters.
* Events (other than those of attestation and collateral, whose sums are
  properties), error codes and formatting.
* The contents of a settlement batch beyond what `settle` reads: the gates of each
  instance are one flag, and money is left to Escrow.
* `src/src/lib.rs`, a separate yield-tier crate outside the workspace, and
  `storage.rs`, `types.rs`, `errors.rs` and `fix_theirs.rs`, which no crate
  includes.
