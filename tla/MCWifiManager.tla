---------------------------- MODULE MCWifiManager ----------------------------
(* A small instance of WifiManager; MaxRetry is set in the configuration.   *)
EXTENDS WifiManager
==============================================================================
