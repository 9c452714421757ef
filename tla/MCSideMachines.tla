--------------------------- MODULE MCSideMachines ---------------------------
(***************************************************************************)
(* Small instances of the machines beside the money flows, which share     *)
(* nothing with one another but the clock.  No call of one reads a key of  *)
(* another, save the address that has to sign, so that a behaviour is      *)
(* followed with the calls of one machine, chosen at the start.            *)
(***************************************************************************)
EXTENDS HoldTimelock, PauseHistory, AdminHandover, FeeSchedule, Callbacks,
        Attestation, Collateral, SettlementBatch, StorageRent, TierSelection, CheckedMoney

VARIABLE focus            \* the machine whose calls are followed

holdLane == <<holdVars, heldSince>>
pauseLane == <<pauseVars, toggles>>
roleLane == <<roleVars, grant>>
feeLane == <<scheduleVars, accepted>>
adminLanes == <<holdLane, pauseLane, roleLane, feeLane>>
recordLanes == <<callbackVars, attestationVars, collateralVars>>
restLanes == <<batchVars, rentVars, tierVars, moneyVars>>

machineVars == <<now, adminLanes, recordLanes, restLanes, focus>>

(* The machines that are not followed start in one state each. *)
OthersPinned ==
    /\ focus # "batch" => \A e \in Instances, m \in Maturities : book[e].maturity <= m
    /\ focus # "tiers" => /\ tierTable = <<>>
                          /\ \A y \in TierYields : baseYield <= y
                          /\ \A lock \in Commitments : scan.lock <= lock
    /\ focus # "money" => /\ \A t \in Targets : target <= t
                          /\ \A y \in Yields : yield <= y

MachinesInit ==
    /\ focus \in {"hold", "pause", "handover", "fees", "callbacks", "attestation",
                  "collateral", "batch", "rent", "tiers", "money"}
    /\ TimelockInit /\ HistoryInit /\ HandoverInit /\ FeeInit
    /\ CallbackInit /\ AttestationInit /\ CollateralInit
    /\ BatchInit /\ RentInit /\ TierInit /\ MoneyInit
    /\ OthersPinned

MachinesNext ==
    /\ \/ /\ focus = "hold" /\ TimelockNext
          /\ UNCHANGED <<pauseLane, roleLane, feeLane, recordLanes, restLanes>>
       \/ /\ focus = "pause" /\ HistoryNext
          /\ UNCHANGED <<holdLane, roleLane, feeLane, recordLanes, restLanes>>
       \/ /\ focus = "handover" /\ HandoverNext
          /\ UNCHANGED <<holdLane, pauseLane, feeLane, recordLanes, restLanes>>
       \/ /\ focus = "fees" /\ FeeNext
          /\ UNCHANGED <<holdLane, pauseLane, roleLane, recordLanes, restLanes>>
       \/ /\ focus = "callbacks" /\ CallbackNext
          /\ UNCHANGED <<now, adminLanes, attestationVars, collateralVars, restLanes>>
       \/ /\ focus = "attestation" /\ AttestationNext
          /\ UNCHANGED <<now, adminLanes, callbackVars, collateralVars, restLanes>>
       \/ /\ focus = "collateral" /\ CollateralNext
          /\ UNCHANGED <<adminLanes, callbackVars, attestationVars, restLanes>>
       \/ /\ focus = "batch" /\ BatchNext
          /\ UNCHANGED <<adminLanes, recordLanes, rentVars, tierVars, moneyVars>>
       \/ /\ focus = "rent" /\ RentNext
          /\ UNCHANGED <<adminLanes, recordLanes, batchVars, tierVars, moneyVars>>
       \/ /\ focus = "tiers" /\ TierNext
          /\ UNCHANGED <<now, adminLanes, recordLanes, batchVars, rentVars, moneyVars>>
       \/ /\ focus = "money" /\ MoneyNext
          /\ UNCHANGED <<now, adminLanes, recordLanes, batchVars, rentVars, tierVars>>
    /\ UNCHANGED focus

MachinesSpec == MachinesInit /\ [][MachinesNext]_machineVars

(* The clock of the pause's world goes on, and an operator who has paused  *)
(* keeps trying to unpause.  Weak fairness: the operator is not assumed to *)
(* call in the moment between the end of a window and the next pause.      *)
FairMachinesSpec ==
    /\ MachinesSpec
    /\ WF_machineVars(MachinesNext /\ focus = "pause" /\ now' > now)
    /\ WF_machineVars(MachinesNext /\ focus = "pause" /\ paused /\ ~paused')

\* No limit, a tight one and a looser one.
RateArgs == {<<0, 0>>, <<1, 2>>, <<2, 2>>}

=============================================================================
