------------------------------ MODULE MCWebApp ------------------------------
(* The instance of WebApp, with the writes of MCOfflineSync.                *)
EXTENDS MCOfflineSync, WebApp

=============================================================================
