--------------------------- MODULE MCWifiManager ---------------------------
(* Instances of WifiManager for TLC.  Two SNTP control blocks are one more *)
(* than the code ever has in use, two retries let the budget be used in    *)
(* part, used up and refilled.                                             *)
EXTENDS WifiManager

=============================================================================
