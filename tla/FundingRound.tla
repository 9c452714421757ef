---------------------------- MODULE FundingRound ----------------------------
(***************************************************************************)
(* What an escrow promises its investors, without amounts, clocks, gates   *)
(* or roles: principal moves in and out freely while the round is open;    *)
(* the round ends once, closed or cancelled; whoever is in then leaves at  *)
(* most once, paid from a closed round or repaid from a cancelled one.     *)
(***************************************************************************)
CONSTANT Investors

VARIABLES
    phase,                \* "open", "closed" or "cancelled"
    standing              \* per investor: "out", "in", "paid" or "repaid"

roundVars == <<phase, standing>>

Init ==
    /\ phase = "open"
    /\ standing = [i \in Investors |-> "out"]

Move(S, from, to) ==
    /\ \A i \in S : standing[i] = from
    /\ standing' = [i \in Investors |-> IF i \in S THEN to ELSE standing[i]]

(* One call may admit several investors and close the round with them;     *)
(* with nobody new it is a top-up that closes the round.                   *)
Join(S) ==
    /\ phase = "open"
    /\ Move(S, "out", "in")
    /\ phase' \in {"open", "closed"}

Leave(i) ==
    /\ phase = "open"
    /\ Move({i}, "in", "out")
    /\ UNCHANGED phase

Cancel ==
    /\ phase = "open"
    /\ phase' = "cancelled"
    /\ UNCHANGED standing

Pay(i) ==
    /\ phase = "closed"
    /\ Move({i}, "in", "paid")
    /\ UNCHANGED phase

Repay(S) ==
    /\ phase = "cancelled"
    /\ Move(S, "in", "repaid")
    /\ UNCHANGED phase

Next ==
    \/ \E S \in SUBSET Investors : Join(S) \/ Repay(S)
    \/ \E i \in Investors : Leave(i) \/ Pay(i)
    \/ Cancel

Spec == Init /\ [][Next]_roundVars

-----------------------------------------------------------------------------
(* What the round promises: how it ended is never revised, and from then   *)
(* on nobody comes in; whoever is in leaves at most once, by the door that *)
(* this end has opened, and whoever is out or has left stays so.           *)
EndIsFinal ==
    [][phase # "open" =>
          /\ phase' = phase
          /\ \A i \in Investors :
                standing'[i] # standing[i] =>
                    /\ standing[i] = "in"
                    /\ standing'[i] = IF phase = "closed" THEN "paid" ELSE "repaid"]_roundVars

=============================================================================
