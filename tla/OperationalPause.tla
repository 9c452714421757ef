-------------------------- MODULE OperationalPause --------------------------
(***************************************************************************)
(* The scoped operational pause, its auto-expiry and its toggle rate       *)
(* limit.  The legacy flag (Paused, PausedAt) and the typed state          *)
(* (PauseState) are separate storage keys, written by the same calls.      *)
(***************************************************************************)
EXTENDS LedgerClock

CONSTANTS
    PauseScopeArgs,       \* scopes set_paused is called with
    PauseDurationArgs,    \* arguments of set_pause_max_duration
    PauseRateArgs         \* <<max_toggles, window_secs>> pairs

PauseEntries == {"funding", "settlement", "withdrawal", "claims"}
PauseScopes == PauseEntries \cup {"all"}

ASSUME PauseArgsAssumption ==
    /\ PauseScopeArgs \subseteq PauseScopes
    /\ PauseDurationArgs \subseteq Nat
    /\ PauseRateArgs \subseteq Nat \X Nat

VARIABLES
    paused,               \* DataKey::Paused
    pausedAt,             \* DataKey::PausedAt
    pauseScope,           \* DataKey::PauseState.scope, "none" when removed
    pauseMaxDuration,     \* 0: a pause never expires
    toggleLimit,          \* 0: toggles are not limited
    toggleWindow,         \* length of the window in seconds
    windowStart,          \* DataKey::PauseToggleWindowStart, or Absent
    windowCount           \* DataKey::PauseToggleCountInWindow

flagVars == <<paused, pausedAt, pauseScope>>
rateVars == <<toggleLimit, toggleWindow, windowStart, windowCount>>
pauseVars == <<flagVars, pauseMaxDuration, rateVars>>

PauseInit ==
    /\ paused = FALSE
    /\ pausedAt = Absent
    /\ pauseScope = "none"
    /\ pauseMaxDuration = 0
    /\ toggleLimit = 0
    /\ toggleWindow = 0
    /\ windowStart = Absent
    /\ windowCount = 0

(* paused_active: a stored pause lapses on its own after the duration. *)
PausedActive ==
    /\ paused
    /\ pauseMaxDuration > 0 => now < pausedAt + pauseMaxDuration

(* paused_blocks.  A flag without a typed scope blocks every entry. *)
PausedBlocks(entry) ==
    /\ PausedActive
    /\ pauseScope \in {"none", "all", entry}

WindowElapsed ==
    \/ windowStart = Absent
    \/ now >= windowStart + toggleWindow

\* Mutant: a window that has elapsed keeps its count.
SpentTogglesKept == IF windowStart = Absent THEN 0 ELSE windowCount

(* Toggles already spent in the window this call falls in. *)
SpentToggles == IF WindowElapsed THEN 0 ELSE windowCount

\* Mutant: the limit is off by one.
WithinToggleLimitLax == toggleLimit > 0 => SpentToggles <= toggleLimit

WithinToggleLimit == toggleLimit > 0 => SpentToggles < toggleLimit

(* A toggle uses up a slot of the current window, or opens a new window. *)
CountToggle ==
    /\ IF toggleLimit > 0
       THEN /\ windowStart' = IF WindowElapsed THEN now ELSE windowStart
            /\ windowCount' = SpentToggles + 1
       ELSE UNCHANGED <<windowStart, windowCount>>
    /\ UNCHANGED <<toggleLimit, toggleWindow>>

(* set_paused(true, scope): overwrites a pause that is already there. *)
Pause(scope) ==
    /\ WithinToggleLimit
    /\ paused' = TRUE
    /\ pausedAt' = now
    /\ pauseScope' = scope
    /\ CountToggle
    /\ UNCHANGED pauseMaxDuration

(* set_paused(false, scope).  With nothing stored it returns early; the    *)
(* call is then a no-op that uses no slot.                                 *)
Unpause(scope) ==
    /\ WithinToggleLimit
    /\ pauseScope # "none" \/ PausedActive
    /\ scope \in {"all", IF pauseScope = "none" THEN "all" ELSE pauseScope}
    /\ paused' = FALSE
    /\ pauseScope' = "none"
    /\ CountToggle
    /\ UNCHANGED <<pausedAt, pauseMaxDuration>>

(* The bounds of a non-zero duration, one hour to 90 days, only choose     *)
(* which arguments are legal: PauseDurationArgs stands for legal ones.     *)
SetPauseMaxDuration(secs) ==
    /\ pauseMaxDuration' = secs
    /\ UNCHANGED <<flagVars, rateVars>>

(* set_pause_rate_limit forgets the window of the previous limit. *)
SetPauseRateLimit(limit, secs) ==
    /\ limit = 0 <=> secs = 0
    /\ toggleLimit' = limit
    /\ toggleWindow' = secs
    /\ windowStart' = Absent
    /\ windowCount' = 0
    /\ UNCHANGED <<flagVars, pauseMaxDuration>>

PauseNext ==
    \/ \E scope \in PauseScopeArgs : Pause(scope) \/ Unpause(scope)
    \/ \E secs \in PauseDurationArgs : SetPauseMaxDuration(secs)
    \/ \E rate \in PauseRateArgs : SetPauseRateLimit(rate[1], rate[2])

PauseTypeOK ==
    /\ paused \in BOOLEAN
    /\ pausedAt \in OptionalNat
    /\ pauseScope \in PauseScopes \cup {"none"}
    /\ pauseMaxDuration \in Nat
    /\ toggleLimit \in Nat
    /\ toggleWindow \in Nat
    /\ windowStart \in OptionalNat
    /\ windowCount \in Nat

=============================================================================
