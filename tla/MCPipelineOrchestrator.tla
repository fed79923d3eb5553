---------------------- MODULE MCPipelineOrchestrator ----------------------
(***************************************************************************)
(* Instances of PipelineOrchestrator: an operator's run beside the         *)
(* scheduled one; one object that is always there, one that comes and      *)
(* goes, one that the provider refuses.                                    *)
(***************************************************************************)
EXTENDS PipelineOrchestrator, TLC

CONSTANTS scheduled, operator, nobody, net, vlan, ssid, refused

Options(sync, confirm, compare, rebaseline) ==
  [sync |-> sync, confirm |-> confirm, compare |-> compare, rebaseline |-> rebaseline]

Both == {scheduled, operator}
AllObjects == {net, vlan, ssid, refused}
OnlyRefused == {refused}
OnlyVlan == {vlan}
OnlySsid == {ssid}
OnlyNet == {net}

EditsOf ==
  (net :> {1, 2}) @@ (vlan :> {0, 2}) @@ (ssid :> {0}) @@ (refused :> {1})

SyncRun == Options(TRUE, FALSE, TRUE, FALSE)
ConfirmRun == Options(FALSE, TRUE, TRUE, FALSE)
OfflineRun == Options(FALSE, FALSE, FALSE, FALSE)
RebaselineRun == Options(FALSE, FALSE, TRUE, TRUE)
ByHand == {ConfirmRun, OfflineRun, RebaselineRun}
InvocationsOf == (scheduled :> {SyncRun}) @@ (operator :> ByHand)

=============================================================================
