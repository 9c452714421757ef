---------------------------- MODULE LedgerClock -----------------------------
(***************************************************************************)
(* The ledger clock every entrypoint reads through env.ledger().           *)
(* timestamp().  An invocation is one atomic transaction, so the clock     *)
(* advances between invocations only; several may share a timestamp.       *)
(***************************************************************************)
EXTENDS Integers

CONSTANT MaxTime          \* bound on the clock, for model checking only

ASSUME MaxTimeAssumption == MaxTime \in Nat

VARIABLE now

(* The value of an optional storage key that is not set.  No key the       *)
(* contract writes ever holds a negative number.                           *)
Absent == -1

OptionalNat == Nat \cup {Absent}

LedgerInit == now = 0

(* A later ledger closes. *)
Tick ==
    /\ now < MaxTime
    /\ now' = now + 1

=============================================================================
