---------------------------- MODULE MCCloudDial ----------------------------
(* Constants with which TLC checks CloudDial.                              *)
EXTENDS CloudDial

DataFaults  == FaultKinds \ {"nodata"}
NoFaults    == {}
RestartOnly == {"restart"}
=============================================================================
