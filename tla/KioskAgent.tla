------------------------------- MODULE KioskAgent -------------------------------
(***************************************************************************)
(* The kiosk's embedded agent: the process the desktop shell spawns and    *)
(* kills (desktop/src-tauri/src/commands.rs), the supervisor that restarts *)
(* it after failed health checks (useAgentSupervisor.ts), and the switch   *)
(* of the equipment page between this agent and an external one.           *)
(*                                                                         *)
(* Time advances in ticks, and only while no timer is due.  A health check *)
(* is due at any time (the poll is 20 s) and at the end of each cooldown.  *)
(***************************************************************************)
EXTENDS Naturals

CONSTANTS
  Threshold,      \* FAILURE_THRESHOLD
  InitialBackoff, MaxBackoff, \* the cooldown, in ticks
  BootTimes,      \* ticks from a spawn to the first healthy answer
  MaxBreaks,      \* bounds how often the process hangs or dies
  MaxSwitches     \* bounds the mode switches

ASSUME SupervisorAssumption ==
  /\ {Threshold, InitialBackoff, MaxBackoff} \subseteq Nat \ {0} /\ BootTimes \subseteq Nat
  /\ InitialBackoff <= MaxBackoff /\ {MaxBreaks, MaxSwitches} \subseteq Nat

VARIABLES
  agentMode,      \* getAgentMode()
  tracked,        \* AgentProcess holds a child
  proc, bootLeft, \* the process: none, booting, up, or hung (dead included)
  supFailures, supRecovering, \* failureCountRef, recoveringRef
  cooldown,       \* cooldownTimerRef: ticks left while cooldownActiveRef
  backoff,        \* backoffMsRef
  breaks, switches  \* counters of the bounds

procVars  == <<tracked, proc, bootLeft>>
supVars   == <<supFailures, supRecovering, cooldown, backoff>>
kagentVars == <<agentMode, procVars, supVars, breaks, switches>>

NoCooldown == MaxBackoff + 1

KioskAgentTypeOK ==
  /\ agentMode \in {"embedded", "external"} /\ tracked \in BOOLEAN
  /\ proc \in {"none", "booting", "up", "hung"} /\ bootLeft \in Nat
  /\ supFailures \in 0..Threshold /\ supRecovering \in BOOLEAN
  /\ cooldown \in 0..NoCooldown /\ backoff \in InitialBackoff..MaxBackoff
  /\ breaks \in 0..MaxBreaks /\ switches \in 0..MaxSwitches

Spawned == tracked' = TRUE /\ proc' = "booting" /\ bootLeft' \in BootTimes

(* AgentLifecycle spawns the sidecar when the shell starts.                *)
KioskAgentInit ==
  /\ agentMode = "embedded" /\ tracked = TRUE /\ proc = "booting" /\ bootLeft \in BootTimes
  /\ supFailures = 0 /\ supRecovering = FALSE /\ cooldown = NoCooldown
  /\ backoff = InitialBackoff /\ breaks = 0 /\ switches = 0

------------------------------------------------------------------------------
BootDone == proc = "booting" /\ bootLeft = 0
CooldownDue == cooldown = 0
CooldownActive == cooldown # NoCooldown

AgentTick ==
  /\ ~BootDone /\ ~CooldownDue
  /\ proc = "booting" \/ CooldownActive
  /\ bootLeft' = IF proc = "booting" THEN bootLeft - 1 ELSE bootLeft
  /\ cooldown' = IF CooldownActive THEN cooldown - 1 ELSE cooldown
  /\ UNCHANGED <<agentMode, tracked, proc, supFailures, supRecovering, backoff, breaks, switches>>

AgentBoots ==
  /\ BootDone /\ proc' = "up"
  /\ UNCHANGED <<agentMode, tracked, bootLeft, supVars, breaks, switches>>

(* The process hangs or dies; the shell keeps its handle.                  *)
AgentBreaks ==
  /\ breaks < MaxBreaks /\ breaks' = breaks + 1
  /\ proc \in {"booting", "up"} /\ proc' = "hung" /\ bootLeft' = 0
  /\ UNCHANGED <<agentMode, tracked, supVars, switches>>

RestartAgent == Spawned

(* evaluate(), after a check settled in embedded mode.                     *)
Evaluate(healthy, was) ==
  IF healthy
  THEN /\ supFailures' = 0 /\ supRecovering' = FALSE /\ cooldown' = NoCooldown
       /\ backoff' = InitialBackoff /\ UNCHANGED procVars
  ELSE LET failures == IF supRecovering THEN supFailures ELSE supFailures + 1
           recovering == supRecovering \/ failures >= Threshold
       IN /\ supFailures' = failures /\ supRecovering' = recovering
          /\ IF recovering /\ was = NoCooldown
             THEN cooldown' = backoff /\ RestartAgent
             ELSE cooldown' = was /\ UNCHANGED procVars
          /\ UNCHANGED backoff

HealthCheck ==
  /\ ~CooldownDue
  /\ IF agentMode = "embedded" THEN Evaluate(proc = "up", cooldown)
                               ELSE UNCHANGED <<procVars, supVars>>
  /\ UNCHANGED <<agentMode, breaks, switches>>

(* Mutant: the cooldown does not grow.                                   *)
CooldownEndsFlat ==
  /\ CooldownDue
  /\ LET next == backoff IN
     IF agentMode = "external"
     THEN cooldown' = NoCooldown /\ backoff' = next /\ UNCHANGED <<procVars, supFailures, supRecovering>>
     ELSE IF proc = "up"
     THEN Evaluate(TRUE, NoCooldown)
     ELSE /\ backoff' = next /\ cooldown' = next /\ RestartAgent
          /\ UNCHANGED <<supFailures, supRecovering>>
  /\ UNCHANGED <<agentMode, breaks, switches>>

(* Mutant: the backoff has no cap.                                       *)
CooldownEndsUncapped ==
  /\ CooldownDue
  /\ LET next == backoff * 2 IN
     IF agentMode = "external"
     THEN cooldown' = NoCooldown /\ backoff' = next /\ UNCHANGED <<procVars, supFailures, supRecovering>>
     ELSE IF proc = "up"
     THEN Evaluate(TRUE, NoCooldown)
     ELSE /\ backoff' = next /\ cooldown' = next /\ RestartAgent
          /\ UNCHANGED <<supFailures, supRecovering>>
  /\ UNCHANGED <<agentMode, breaks, switches>>

(* The cooldown ends: the backoff doubles, and a check is forced.          *)
CooldownEnds ==
  /\ CooldownDue
  /\ LET next == IF backoff * 2 < MaxBackoff THEN backoff * 2 ELSE MaxBackoff IN
     IF agentMode = "external"
     THEN cooldown' = NoCooldown /\ backoff' = next /\ UNCHANGED <<procVars, supFailures, supRecovering>>
     ELSE IF proc = "up"
     THEN Evaluate(TRUE, NoCooldown)
     ELSE /\ backoff' = next /\ cooldown' = next /\ RestartAgent
          /\ UNCHANGED <<supFailures, supRecovering>>
  /\ UNCHANGED <<agentMode, breaks, switches>>

(* stop_agent, or spawn_agent, which does nothing over a tracked child.    *)
SwitchMode ==
  /\ switches < MaxSwitches /\ switches' = switches + 1
  /\ IF agentMode = "embedded"
     THEN agentMode' = "external" /\ tracked' = FALSE /\ proc' = "none" /\ bootLeft' = 0
     ELSE agentMode' = "embedded" /\ IF tracked THEN UNCHANGED procVars ELSE Spawned
  /\ UNCHANGED <<supVars, breaks>>

KioskAgentNext ==
  \/ AgentTick \/ AgentBoots \/ AgentBreaks \/ HealthCheck \/ CooldownEnds \/ SwitchMode

KioskAgentSpec == KioskAgentInit /\ [][KioskAgentNext]_kagentVars

------------------------------------------------------------------------------
(* An agent that boots faster than the longest cooldown comes back: the    *)
(* restarts get rare enough to let it.                                     *)
AgentComesBack ==
  []<>(agentMode = "embedded" => proc = "up")
==============================================================================
