---------------------------- MODULE NotifyChannel ----------------------------
(***************************************************************************)
(* What a PostgresChannelListener promises to the services that subscribe  *)
(* to notifications$: the channel is up or down, it may go up and down any  *)
(* number of times, and once the module is destroyed it is closed for good. *)
(* ChannelListener implements it; LiveUpdates is built on top of it.        *)
(***************************************************************************)
VARIABLE channel

\* Before the first LISTEN succeeds nothing is heard.
Init == channel = "down"

\* LISTEN took effect on a fresh connection.
GoUp == channel = "down" /\ channel' = "up"

\* The connection was lost, or died without anyone noticing yet.
GoDown == channel = "up" /\ channel' = "down"

\* The module was destroyed: subject.complete(), nothing is heard again.
Close == channel /= "closed" /\ channel' = "closed"

Next == GoUp \/ GoDown \/ Close

Spec == Init /\ [][Next]_channel
=============================================================================
