---------------------------- MODULE PluginWiring ----------------------------
(* What `aof setup`, `aof init`, `aof memory disable`, `aof integrate`,        *)
(* `aof eject` and install.sh --clean write into OpenClaw's configuration.     *)
(* With the openclaw binary every key is a command of its own that may fail;   *)
(* without it the file is edited and written once.                             *)
EXTENDS Naturals

CONSTANT Setups   \* records: see MCHost

VARIABLES
    setup,
    config,     \* openclaw.json
    cmd, pc,    \* the command that runs and its next step
    claimed,    \* memoryClaimed
    clean,      \* no step of this command has failed
    budget      \* commands and faults left

vars == <<setup, config, cmd, pc, claimed, clean, budget>>

Init ==
    /\ setup \in Setups
    /\ config = [shape |-> setup.shape,
                 entry |-> setup.slot = "aof", module |-> setup.slot = "aof", dataDir |-> setup.slot = "aof",
                 allow |-> setup.slot = "aof", load |-> FALSE, tools |-> FALSE,
                 slot |-> setup.slot, other |-> TRUE]
    /\ cmd = "none" /\ pc = "idle" /\ claimed = FALSE /\ clean = TRUE
    /\ budget = [runs |-> setup.runs, faults |-> setup.faults]

(* One `openclaw config set` (or unset): it happens and the command goes on, ... *)
Set(here, change, next) ==
    /\ pc = here /\ config' = change /\ pc' = next
    /\ UNCHANGED <<setup, cmd, clean, budget>>
(* ... or it fails, and the command goes on somewhere else. *)
SetFails(here, next) ==
    /\ pc = here /\ budget.faults > 0 /\ budget' = [budget EXCEPT !.faults = @ - 1]
    /\ pc' = next /\ clean' = FALSE
    /\ UNCHANGED <<setup, config, cmd, claimed>>

Begin(c, first) ==
    /\ pc = "idle" /\ budget.runs > 0 /\ budget' = [budget EXCEPT !.runs = @ - 1]
    /\ cmd' = c /\ pc' = first /\ claimed' = FALSE /\ clean' = TRUE
    /\ UNCHANGED <<setup, config>>

(* auto: an empty slot or one's own; another plugin's only if the user agrees. *)
decideMemoryClaim ==
    /\ setup.mode # "never"
    /\ config.slot # "other" \/ setup.mode = "force" \/ (~setup.auto /\ setup.answer)

(* ------------------- aof setup, with the openclaw binary -------------------- *)

wireOpenClawPlugin == setup.shape = "object" /\ setup.cli /\ Begin("setup", "load")

LoadPaths ==
    \/ Set("load", [config EXCEPT !.load = TRUE], "entry") /\ UNCHANGED claimed
    \/ SetFails("load", "entry")

(* The whole entry is written anew: its configuration is gone. *)
registerAofPlugin ==
    \/ /\ Set("entry", [config EXCEPT !.entry = TRUE, !.module = FALSE, !.dataDir = FALSE], "allow")
       /\ UNCHANGED claimed
    \/ SetFails("entry", IF cmd = "init" THEN "tools" ELSE "end")

addAofToAllowList ==
    \/ /\ Set("allow", [config EXCEPT !.allow = TRUE], IF cmd = "init" THEN "tools" ELSE "memory")
       /\ UNCHANGED claimed
    \/ SetFails("allow", IF cmd = "init" THEN "tools" ELSE "end")

AfterMemory == IF cmd = "init" THEN "end" ELSE "dataDir"

MemoryStep ==
    /\ pc = "memory"
    /\ pc' = IF decideMemoryClaim THEN (IF config.slot = "other" THEN "displace" ELSE "slot") ELSE "dataDir"
    /\ UNCHANGED <<setup, config, cmd, claimed, clean, budget>>

(* disable the other, take the slot, enable the module *)
configureAofAsMemoryPlugin ==
    \/ Set("displace", [config EXCEPT !.other = FALSE], "slot") /\ UNCHANGED claimed
    \/ Set("slot", [config EXCEPT !.slot = "aof"], "module") /\ UNCHANGED claimed
    \/ Set("module", [config EXCEPT !.module = TRUE], AfterMemory) /\ claimed' = TRUE
    \/ \E here \in {"displace", "slot", "module"} : SetFails(here, AfterMemory)

SetDataDir ==
    \/ Set("dataDir", [config EXCEPT !.dataDir = TRUE], "health") /\ UNCHANGED claimed
    \/ SetFails("dataDir", "health")

(* The entry cannot be read back: the wiring is taken out again. *)
HealthCheck ==
    \/ Set("health", config, "tools") /\ UNCHANGED claimed
    \/ SetFails("health", "unsetEntry")

(* Mutation of RollBack: the slot is left alone. *)
RollBackEntryOnly ==
    \/ /\ Set("unsetEntry", [config EXCEPT !.entry = FALSE, !.module = FALSE, !.dataDir = FALSE], "tools")
       /\ UNCHANGED claimed
    \/ SetFails("unsetEntry", "tools")

RollBack ==
    \/ /\ Set("unsetEntry", [config EXCEPT !.entry = FALSE, !.module = FALSE, !.dataDir = FALSE],
              IF claimed THEN "unsetSlot" ELSE "tools")
       /\ UNCHANGED claimed
    \/ Set("unsetSlot", [config EXCEPT !.slot = "none"], "tools") /\ UNCHANGED claimed
    \/ \E here \in {"unsetEntry", "unsetSlot"} : SetFails(here, "tools")

ToolsAllowed ==
    \/ /\ Set("tools", [config EXCEPT !.tools = TRUE], IF cmd = "init" THEN "initMemory" ELSE "end")
       /\ UNCHANGED claimed
    \/ SetFails("tools", IF cmd = "init" THEN "initMemory" ELSE "end")

End ==
    /\ pc = "end" /\ pc' = "idle" /\ cmd' = "none"
    /\ UNCHANGED <<setup, config, claimed, clean, budget>>

(* ------------------ aof setup, editing the file directly -------------------- *)

Claimed(c) ==
    [c EXCEPT !.slot = "aof", !.module = TRUE, !.other = IF c.slot = "other" THEN FALSE ELSE @]
wireOpenClawPluginDirect ==
    /\ setup.shape = "object" /\ ~setup.cli
    /\ pc = "idle" /\ budget.runs > 0 /\ budget' = [budget EXCEPT !.runs = @ - 1]
    /\ config' = LET c == [config EXCEPT !.entry = TRUE, !.allow = TRUE, !.load = TRUE,
                                         !.dataDir = TRUE, !.tools = TRUE]
                 IN  IF decideMemoryClaim THEN Claimed(c) ELSE c
    /\ cmd' = "setup" /\ pc' = "end" /\ clean' = TRUE
    /\ UNCHANGED <<setup, claimed>>

(* --------------------------------- aof init --------------------------------- *)

(* Registered and allowed already: the step is skipped; the user may decline to *)
(* register.  In both cases the next steps still run.                           *)
runPluginStep ==
    /\ setup.shape = "object" /\ setup.cli /\ setup.init
    /\ \E step \in IF config.entry THEN {IF config.allow THEN "tools" ELSE "allow"} ELSE {"entry", "tools"} :
         Begin("init", step)

(* The user is asked twice: for AOF's memory, and for disabling the other. *)
runMemoryStep ==
    /\ pc = "initMemory"
    /\ pc' = IF (config.slot = "aof" /\ config.module) \/ ~setup.answer THEN "end"
             ELSE IF config.slot = "other" \/ (config.slot = "none" /\ config.other) THEN "displace"
             ELSE "slot"
    /\ UNCHANGED <<setup, config, cmd, claimed, clean, budget>>

(* ------------------------ aof memory disable --restore ----------------------- *)

(* Nothing is done when AOF neither holds the slot nor has the module on. *)
disableAofAsMemoryPlugin ==
    /\ setup.shape = "object" /\ setup.cli /\ setup.disable
    /\ config.slot = "aof" \/ config.module
    /\ Begin("disable", "moduleOff")

DisableSteps ==
    \/ /\ Set("moduleOff", [config EXCEPT !.module = FALSE], IF config.slot = "aof" THEN "giveSlot" ELSE "end")
       /\ UNCHANGED claimed
    \/ Set("giveSlot", [config EXCEPT !.slot = "other"], "enableOther") /\ UNCHANGED claimed
    \/ Set("giveSlot", [config EXCEPT !.slot = "none"], "end") /\ UNCHANGED claimed
    \/ Set("enableOther", [config EXCEPT !.other = TRUE], "end") /\ UNCHANGED claimed
    \/ \E here \in {"moduleOff", "giveSlot", "enableOther"} : SetFails(here, "end")

(* --------------- aof integrate, aof eject, install.sh --clean ---------------- *)

(* These two know the older format, an array of plugins.                        *)
integrateWithOpenClaw ==
    /\ setup.shape = "array" /\ Begin("integrate", "writeIntegrated")
ejectFromOpenClaw ==
    /\ setup.shape = "array" /\ config.entry /\ Begin("eject", "writeEjected")
WriteFile ==
    \/ /\ Set("writeIntegrated", [config EXCEPT !.entry = TRUE, !.dataDir = config.dataDir \/ ~config.entry], "end")
       /\ UNCHANGED claimed
    \/ /\ Set("writeEjected", [config EXCEPT !.entry = FALSE, !.dataDir = FALSE, !.module = FALSE], "end")
       /\ UNCHANGED claimed
    \/ \E here \in {"writeIntegrated", "writeEjected"} : SetFails(here, "end")

unwire_openclaw_config ==
    /\ setup.shape = "object" /\ setup.disable
    /\ pc = "idle" /\ budget.runs > 0 /\ budget' = [budget EXCEPT !.runs = @ - 1]
    /\ config' = [config EXCEPT !.entry = FALSE, !.module = FALSE, !.dataDir = FALSE, !.allow = FALSE,
                     !.load = FALSE, !.tools = FALSE, !.slot = IF @ = "aof" THEN "none" ELSE @]
    /\ UNCHANGED <<setup, cmd, pc, claimed, clean>>

(* The command is interrupted. *)
Crash ==
    /\ pc \notin {"idle", "end"} /\ budget.faults > 0
    /\ budget' = [budget EXCEPT !.faults = @ - 1]
    /\ pc' = "idle" /\ cmd' = "none" /\ clean' = FALSE
    /\ UNCHANGED <<setup, config, claimed>>

Next ==
    \/ wireOpenClawPlugin \/ LoadPaths \/ registerAofPlugin \/ addAofToAllowList \/ MemoryStep
    \/ configureAofAsMemoryPlugin \/ SetDataDir \/ HealthCheck \/ RollBack \/ ToolsAllowed \/ End
    \/ wireOpenClawPluginDirect \/ runPluginStep \/ runMemoryStep
    \/ disableAofAsMemoryPlugin \/ DisableSteps
    \/ integrateWithOpenClaw \/ ejectFromOpenClaw \/ WriteFile \/ unwire_openclaw_config \/ Crash

Spec == Init /\ [][Next]_vars

(* -------------------------------- Properties --------------------------------- *)

(* Without the user's consent no command ever disables another memory plugin   *)
(* or takes its slot, whatever fails on the way (decideMemoryClaim,             *)
(* runMemoryStep, and the rollback of a failed wiring).                         *)
OtherUntouched ==
    /\ setup.slot = "other" /\ ~setup.answer /\ setup.mode # "force"
    => config.slot = "other" /\ config.other

(* --no-claim-memory is given only where AOF does not hold the slot: registering *)
(* resets AOF's own memory module, and the decision not to claim leaves it so.  *)
LeavesOther == setup.mode = "never" => setup.slot # "aof" /\ ~setup.init

(* The memory slot never names a plugin OpenClaw does not know: AOF takes it    *)
(* after it is registered and gives it back when its entry goes (registration,  *)
(* health check and rollback in wireOpenClawPlugin), as long as no more than one *)
(* command fails: a rollback that fails too leaves the slot behind.  aof init   *)
(* is left out: it asks for the slot also when registering failed; so is eject,  *)
(* which knows the older format only.                                           *)
SlotKnown ==
    /\ ~setup.init /\ setup.shape = "object" /\ LeavesOther /\ setup.faults <= 1
    /\ pc = "idle" /\ config.slot = "aof"
    => config.entry

(* A setup in which nothing fails ends with the plugin registered, allowed and  *)
(* configured, and with its memory module on if it holds the slot - also after  *)
(* an earlier attempt stopped half way (the whole entry is written anew first). *)
SetupRepairs ==
    LeavesOther /\ pc = "end" /\ cmd = "setup" /\ clean =>
      /\ config.entry /\ config.allow /\ config.load /\ config.dataDir /\ config.tools
      /\ config.slot = "aof" => config.module
      /\ setup.mode = "force" => config.slot = "aof"
=============================================================================
