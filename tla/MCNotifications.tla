--------------------------- MODULE MCNotifications ---------------------------
(* Notifications on a small instance: one kind of event that devices       *)
(* report and one that they may not.                                       *)
EXTENDS Notifications

CONSTANTS a1, a2, i1, i2, e1

Active == [enabled |-> TRUE, supported |-> TRUE, address |-> TRUE, events |-> {"SYNC_FAILED"}]

Disabled == [Active EXCEPT !.enabled = FALSE]

Unsupported == [Active EXCEPT !.supported = FALSE]

NoAddress == [Active EXCEPT !.address = FALSE]

OnOff == {Active, Disabled}

AllSettings == {Active, Disabled, Unsupported, NoAddress}
=============================================================================
