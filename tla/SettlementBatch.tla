--------------------------- MODULE SettlementBatch --------------------------
(***************************************************************************)
(* settle_batch, which calls settle of several escrow instances in one     *)
(* transaction.  Of each instance the model keeps what settle looks at and *)
(* writes; meanwhile every one of them is funded, cancelled, blocked,      *)
(* withdrawn, swept or settled on its own.                                 *)
(***************************************************************************)
EXTENDS LedgerClock, Sequences, SequencesExt

CONSTANTS
    Instances,            \* the escrow contracts that are followed
    Hosts,                \* the contracts settle_batch is called on
    Maturities,           \* their maturities; 0 for none
    SettleBatch           \* MAX_SETTLE_BATCH

ASSUME BatchAssumption == Maturities \subseteq Nat /\ SettleBatch \in Nat \ {0}

VARIABLES
    book,                 \* instance |-> what settle looks at and writes
    lastBatch             \* history: the latest batch that went through

batchVars == <<book, lastBatch>>

(* status, maturity and SettledAt of one instance; blocked stands for its  *)
(* hold, its dispute or a pause of its settlement.                         *)
Instance(maturity) ==
    [status |-> 0, maturity |-> maturity, blocked |-> FALSE, settledAt |-> Absent]

BatchInit ==
    /\ book \in [Instances -> {Instance(m) : m \in Maturities}]
    /\ lastBatch = [at |-> Absent, escrows |-> <<>>]

(* The guards of settle. *)
CanSettle(escrow) ==
    /\ ~escrow.blocked
    /\ escrow.status = 1
    /\ now >= escrow.maturity

Settled(escrow) == [escrow EXCEPT !.status = 2, !.settledAt = now]

(* A transaction that has failed leaves nothing behind. *)
Reverted == <<>>

\* Mutant: an escrow that cannot settle is passed over.
SettleOneOrSkip(state, e) ==
    IF CanSettle(state[e]) THEN [state EXCEPT ![e] = Settled(@)] ELSE state

(* One call of settle out of a batch, after the calls before it. *)
SettleOne(state, e) ==
    IF state # Reverted /\ CanSettle(state[e])
    THEN [state EXCEPT ![e] = Settled(@)]
    ELSE Reverted

(* settle_batch on a host instance; the Soroban host refuses a call back   *)
(* into the contract that is running.                                      *)
BatchOutcome(host, escrows) ==
    LET after[k \in 0..Len(escrows)] ==
            IF k = 0 THEN book ELSE SettleOne(after[k - 1], escrows[k])
    IN  IF Contains(escrows, host) THEN Reverted ELSE after[Len(escrows)]

SettleAll(host, escrows) ==
    /\ Len(escrows) \in 1..SettleBatch
    /\ BatchOutcome(host, escrows) # Reverted
    /\ book' = BatchOutcome(host, escrows)
    /\ lastBatch' = [at |-> now, escrows |-> escrows]

(* What else happens to one instance, and for its status and its maturity  *)
(* only: it settles by itself; while open it is funded, cancelled or given *)
(* another maturity; its last instalment is released or it is withdrawn;   *)
(* it is swept.  Neither a release nor a sweep asks for all that blocks a  *)
(* settlement, so a gate is no guard here.                                 *)
AloneStep(e) ==
    LET escrow == book[e]
        Set(code) == book' = [book EXCEPT ![e].status = code]
    IN  \/ CanSettle(escrow) /\ book' = [book EXCEPT ![e] = Settled(@)]
        \/ escrow.status = 0 /\ \E code \in {1, 4} : Set(code)
        \/ escrow.status = 0 /\ \E m \in Maturities : book' = [book EXCEPT ![e].maturity = m]
        \/ escrow.status = 1 /\ Set(3)
        \/ escrow.status \in 2..4 /\ Set(2)

(* A hold, a dispute or a pause begins or ends. *)
GateMoves(e) == book' = [book EXCEPT ![e].blocked = ~@]

(* A pause may lapse by the passing of time. *)
PausesLapse ==
    \E S \in SUBSET Instances :
        book' = [e \in Instances |-> IF e \in S THEN [book[e] EXCEPT !.blocked = FALSE]
                                               ELSE book[e]]

BatchNext ==
    \/ \E host \in Hosts, escrows \in SeqOf(Instances, SettleBatch + 1) :
          SettleAll(host, escrows) /\ UNCHANGED now
    \/ \E e \in Instances :
          (AloneStep(e) \/ GateMoves(e)) /\ UNCHANGED <<now, lastBatch>>
    \/ Tick /\ PausesLapse /\ UNCHANGED lastBatch

BatchSpec == LedgerInit /\ BatchInit /\ [][BatchNext]_<<now, batchVars>>

-----------------------------------------------------------------------------
(* A batch that goes through has settled every escrow it names, each once  *)
(* and at the time of the batch, and nothing that happens to one of them   *)
(* later moves that record: no entry is passed over or settled twice.      *)
BatchSettlesTogether ==
    /\ IsInjective(lastBatch.escrows)
    /\ \A k \in DOMAIN lastBatch.escrows :
          LET escrow == book[lastBatch.escrows[k]]
          IN  escrow.status = 2 /\ escrow.settledAt = lastBatch.at

=============================================================================
