--------------------------- MODULE MCRuleRecovery ---------------------------
(* Instances of RuleRecovery: times keep the order of the code's 2 s, 5 s   *)
(* and 30 s (TrailSleep < Throttle < WatchdogPeriod).                       *)
EXTENDS RuleRecovery

TunTables == {"mangle", "filter"}    \* ModePolicy over the TUN device

Both == {TRUE, FALSE}
=============================================================================
