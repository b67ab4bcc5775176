---------------------------- MODULE MCSupervisor ----------------------------
(***************************************************************************)
(* One listening socket of the proxy, which has room for one client.       *)
(***************************************************************************)
EXTENDS SupervisorProperties, TLC
CONSTANT l1
OneListener == l1 :> "proxy"
NoSource == <<>>
OneEach == [s \in Sources |-> 1]
=============================================================================
