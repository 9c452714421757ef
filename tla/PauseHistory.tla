---------------------------- MODULE PauseHistory ----------------------------
(***************************************************************************)
(* The toggle rate limit of the operational pause against a record of the  *)
(* toggles that happened.                                                  *)
(***************************************************************************)
EXTENDS OperationalPause, Sequences, FiniteSets

VARIABLE toggles          \* history: times of the toggles under this limit

historyVars == <<now, pauseVars, toggles>>

HistoryInit ==
    /\ LedgerInit
    /\ PauseInit
    /\ toggles = <<>>

(* set_pause_rate_limit starts the record afresh, as it does the window.   *)
HistoryNext ==
    \/ /\ \/ /\ \E scope \in PauseScopeArgs : Pause(scope) \/ Unpause(scope)
             /\ toggles' = IF toggleLimit > 0 THEN Append(toggles, now) ELSE <<>>
          \/ /\ \E secs \in PauseDurationArgs : SetPauseMaxDuration(secs)
             /\ UNCHANGED toggles
          \/ /\ \E rate \in PauseRateArgs : SetPauseRateLimit(rate[1], rate[2])
             /\ toggles' = <<>>
       /\ UNCHANGED now
    \/ Tick /\ UNCHANGED <<pauseVars, toggles>>

HistorySpec == HistoryInit /\ [][HistoryNext]_historyVars

(* The toggles made from time t on, and before time u. *)
TogglesBetween(t, u) ==
    Cardinality({k \in DOMAIN toggles : t <= toggles[k] /\ toggles[k] < u})

HistoryTypeOK ==
    /\ now \in Nat
    /\ PauseTypeOK
    /\ toggles \in Seq(Nat)

(* The stored window start and count agree with what happened, through     *)
(* window resets, early returns and refused calls.  The bound below rests  *)
(* on it.                                                                  *)
WindowCountsToggles ==
    toggleLimit > 0 =>
        IF windowStart = Absent THEN toggles = <<>> /\ windowCount = 0
        ELSE /\ windowCount = TogglesBetween(windowStart, now + 1)
             /\ windowCount \in 1..toggleLimit

(* What the limit gives: windows do not overlap, so no stretch of time as  *)
(* long as a window holds more than two windows' worth of toggles.         *)
BurstBounded ==
    toggleLimit > 0 =>
        \A t \in 0..now : TogglesBetween(t, t + toggleWindow) <= 2 * toggleLimit

(* Somebody pauses, or pauses once more what is paused already: the only   *)
(* call that can use up a slot an operator waits for and leave the pause.  *)
PausesAgain == UNCHANGED now /\ \E scope \in PauseScopeArgs : Pause(scope)

(* The window ends while the clock of the model still runs.                *)
WindowWithinBound == toggleLimit = 0 \/ windowStart + toggleWindow <= MaxTime

(* A used-up window delays a lift and does not prevent it: once nobody     *)
(* pauses any more, an operator who keeps trying to unpause gets through,  *)
(* at the latest when the window is over, whatever was toggled before and  *)
(* however often the limit is changed.  While pauses go on, the limit      *)
(* promises nothing: each new window may be used up before the operator    *)
(* calls.                                                                  *)
PauseCanBeLifted ==
    <>[][~PausesAgain]_historyVars /\ <>[](paused => WindowWithinBound)
        => <>[]~paused

=============================================================================
