---------------------------- MODULE MCCloudGuest ----------------------------
(* Constants with which TLC checks CloudGuest.                             *)
EXTENDS CloudGuest

GuestFaults == {"nodata", "guest", "network", "slow", "cancel", "restart"}
=============================================================================
