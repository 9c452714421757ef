----------------------------- MODULE Callbacks ------------------------------
(***************************************************************************)
(* Cross-contract callbacks: the admin registers a context for an origin   *)
(* contract and a phase under a fresh nonce, and the origin executes it    *)
(* once.  Of the escrow's status both calls only ask whether it is         *)
(* cancelled, which funding can become once and a sweep undoes.            *)
(***************************************************************************)
EXTENDS Naturals, Sequences

CONSTANTS
    Origins,              \* contracts that sign as the origin
    Phases,               \* phases callers pass
    MaxNonce              \* bound on registrations, for model checking only

ASSUME CallbackAssumption == MaxNonce \in Nat

VARIABLES
    stage,                \* "live", "cancelled" (status 4), "swept" (2, after 4)
    callbackNonce,        \* DataKey::CallbackNonce
    callbackContexts,     \* DataKey::CallbackContext(nonce), where there is one
    registrations,        \* history: what register_callback was given and returned
    executions            \* history: the calls of execute_callback that succeeded

contextVars == <<callbackNonce, callbackContexts>>
callbackVars == <<stage, contextVars, registrations, executions>>

CallbackInit ==
    /\ stage = "live"
    /\ callbackNonce = 0
    /\ callbackContexts = <<>>
    /\ registrations = <<>>
    /\ executions = <<>>

\* A registration or execution, as its caller sees it.
Call(nonce, origin, phase) == [nonce |-> nonce, origin |-> origin, phase |-> phase]

(* CallbackContext; its nonce is the key it is stored under.               *)
Context(origin, phase, consumed) ==
    [origin |-> origin, phase |-> phase, consumed |-> consumed]

(* register_callback *)
RegisterCallback(origin, phase) ==
    LET nonce == callbackNonce + 1
    IN  /\ stage # "cancelled"
        /\ callbackNonce < MaxNonce
        /\ callbackNonce' = nonce
        /\ callbackContexts' =
              [n \in DOMAIN callbackContexts \cup {nonce} |->
                  IF n = nonce THEN Context(origin, phase, FALSE) ELSE callbackContexts[n]]
        /\ registrations' = Append(registrations, Call(nonce, origin, phase))
        /\ UNCHANGED <<stage, executions>>

\* Mutant: the context is not marked as consumed.
ExecuteCallbackUnmarked(nonce, origin, phase) ==
    /\ stage # "cancelled"
    /\ nonce \in DOMAIN callbackContexts
    /\ callbackContexts[nonce] = Context(origin, phase, FALSE)
    /\ executions' = Append(executions, Call(nonce, origin, phase))
    /\ Len(executions) < 2 * MaxNonce
    /\ UNCHANGED <<stage, contextVars, registrations>>

(* execute_callback, signed by origin. *)
ExecuteCallback(nonce, origin, phase) ==
    /\ stage # "cancelled"
    /\ nonce \in DOMAIN callbackContexts
    /\ callbackContexts[nonce] = Context(origin, phase, FALSE)
    /\ callbackContexts' = [callbackContexts EXCEPT ![nonce] = Context(origin, phase, TRUE)]
    /\ executions' = Append(executions, Call(nonce, origin, phase))
    /\ UNCHANGED <<stage, callbackNonce, registrations>>

(* cancel_funding, for what it does to the status. *)
CancelRound == stage = "live" /\ stage' = "cancelled"

(* sweep_terminal_dust, which turns status 4 into 2; status 2 stays.        *)
SweepRound == stage \in {"cancelled", "swept"} /\ stage' = "swept"

CallbackNext ==
    \/ \E origin \in Origins, phase \in Phases :
          \/ RegisterCallback(origin, phase)
          \/ \E nonce \in 1..MaxNonce : ExecuteCallback(nonce, origin, phase)
    \/ /\ CancelRound \/ SweepRound
       /\ UNCHANGED <<contextVars, registrations, executions>>

CallbackSpec == CallbackInit /\ [][CallbackNext]_callbackVars

-----------------------------------------------------------------------------
(* A callback runs at most once, and only for the origin and in the phase  *)
(* that the one registration which returned its nonce was given, across    *)
(* registrations, a cancellation and the sweep that ends it.               *)
CallbackRunsOnce ==
    /\ \A i, j \in DOMAIN executions :
          executions[i].nonce = executions[j].nonce => i = j
    /\ \A i \in DOMAIN executions : \E k \in DOMAIN registrations :
          /\ registrations[k] = executions[i]
          /\ \A l \in DOMAIN registrations :
                registrations[l].nonce = executions[i].nonce => l = k

=============================================================================
