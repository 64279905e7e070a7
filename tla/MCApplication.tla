--------------------------- MODULE MCApplication -----------------------------
(* One event that notifies, two attempts to send it, a queue of one.       *)
EXTENDS Application
CONSTANTS p1, nodeUpdatedNotify
OneSignal == {"SIGTERM"}
OnePost == {p1}
ItsEvent == [p \in {p1} |-> nodeUpdatedNotify]
ItsOwnHooks == [e \in {nodeUpdatedNotify} |-> <<"other">>]
ItsHook == [e \in {nodeUpdatedNotify} |-> "notifies"]
=============================================================================
