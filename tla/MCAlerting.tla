---------------------------- MODULE MCAlerting ----------------------------
(***************************************************************************)
(* Instances of Alerting for model checking.                               *)
(***************************************************************************)
EXTENDS Alerting

CONSTANTS vm, device, off, lost

MCKind == [t \in Things |-> IF t = vm THEN "vm" ELSE "monitor"]
MCOn == [r \in EventRules |-> IF r = off THEN "vm_power_off" ELSE "device_unreachable"]

=============================================================================
