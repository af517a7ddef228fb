--------------------------- MODULE MCPluginBridge ---------------------------
(* Instances of PluginBridge for TLC.                                        *)
EXTENDS PluginBridge, TLC

CONSTANTS r1, r2

Captured(agent) == r1 :> [agent |-> agent, segment |-> "cron"] @@ r2 :> [agent |-> agent, segment |-> "main"]

Instance(kind, mode, faultLimit, reloadLimit) ==
    [kind |-> kind, mode |-> mode, faults |-> faultLimit, reloads |-> reloadLimit,
     key |-> Captured("ops"), agentBeats |-> {}, defaultBeats |-> FALSE]

AllSetups ==
    {Instance("spawn", "plugin-bridge", 1, 0), Instance("spawn", "plugin-bridge", 0, 1),
     Instance("spawn", "standalone", 1, 0),
     Instance("chat", "plugin-bridge", 1, 0), Instance("chat", "plugin-bridge", 0, 1),
     [Instance("chat", "plugin-bridge", 1, 0) EXCEPT !.agentBeats = {"ops"}],
     [Instance("chat", "plugin-bridge", 0, 0) EXCEPT !.defaultBeats = TRUE],
     [Instance("chat", "plugin-bridge", 0, 0) EXCEPT !.key = Captured("")]}
=============================================================================
