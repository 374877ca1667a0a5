-------------------------------- MODULE DeadMan --------------------------------
(***************************************************************************)
(* The ESP32 dead-man switch and its clocks (firmware/src/main.cpp), fed   *)
(* by the Core's heartbeats (aegis_soc/controller.py send_heartbeat).      *)
(*                                                                         *)
(* millis() is an unsigned counter that wraps at Wrap, and 0 stands for    *)
(* "never" in lastHeartbeatMs and lastTimeSyncMs, as in the firmware.  A   *)
(* heartbeat is identified by its age, the ticks since its issued_at: the  *)
(* Core issues at most one per tick, and a Core restart takes longer than  *)
(* a tick.  Frames may be delivered late, twice, out of order or never;    *)
(* one older than Skew is refused wherever it arrives and is forgotten.    *)
(* DInit, DNext, DSpec have names of their own: Relay extends this module  *)
(* together with CommandLink.                                              *)
(***************************************************************************)
EXTENDS Integers, Sequences, Functions

CONSTANTS
    Wrap,     (* 2^32: millis() is an unsigned long *)
    Deadman,  (* DEADMAN_TIMEOUT_MS *)
    Grace,    (* BOOT_GRACE_MS *)
    Holdover, (* TIME_HOLDOVER_MAX_MS *)
    Skew,     (* how far issued_at may lie in the past *)
    Slots,    (* REPLAY_SLOTS *)
    Block     (* the longest one pass of loop() may take in the network calls *)

ASSUME BoundsAssumption ==
    /\ {Wrap, Deadman, Grace, Holdover, Skew, Slots, Block} \subseteq Nat \ {0}
    /\ Deadman <= Grace
    /\ Grace + 2 * Block < Wrap
    /\ 2 * Skew < Slots

VARIABLES
    millis,           (* millis() *)
    lastHeartbeatMs,
    lastTimeSyncMs,
    heartbeatReplay,  (* ages of the last Slots accepted heartbeats; Skew+1: too old to matter *)
    isLockedDown,
    deadmanTriggered,
    spent,            (* ticks since loop() last ran checkDeadman *)
    issued,           (* the Core issued a heartbeat in this tick *)
    wire,             (* ages of the heartbeats that may still be delivered *)
    quiet,            (* history: ticks since the last accepted heartbeat, or since boot *)
    alone,            (* history: the lesser of quiet and the ticks since the relay was released *)
    syncAge,          (* history: ticks since the last time sync, or since boot *)
    heard             (* history: ages of the fresh heartbeats accepted since boot *)

clocks == <<millis, lastTimeSyncMs, syncAge>>
relay == <<isLockedDown, deadmanTriggered>>
beats == <<lastHeartbeatMs, heartbeatReplay, quiet, heard>>
core == <<issued, wire>>
dvars == <<clocks, relay, beats, core, alone, spent>>

Ages == 0..Skew
AloneCap == Grace + 2 * Block + 1
QuietCap == Deadman + Block + 1
SyncCap == Holdover + 2
OlderThan(cap, age) == IF age < cap THEN age + 1 ELSE cap
Elapsed(since) == (millis - since) % Wrap  \* unsigned subtraction

DTypeOK ==
    /\ {millis, lastHeartbeatMs, lastTimeSyncMs} \subseteq 0..(Wrap - 1)
    /\ heartbeatReplay \in Seq(0..(Skew + 1)) /\ Len(heartbeatReplay) <= Slots
    /\ {isLockedDown, deadmanTriggered, issued} \subseteq BOOLEAN
    /\ spent \in 0..Block
    /\ wire \subseteq Ages /\ heard \subseteq Ages
    /\ quiet \in 0..QuietCap /\ alone \in 0..AloneCap /\ syncAge \in 0..SyncCap

DInit ==
    /\ millis = 0 /\ lastHeartbeatMs = 0 /\ lastTimeSyncMs = 0
    /\ heartbeatReplay = <<>> /\ heard = {}
    /\ isLockedDown = TRUE /\ deadmanTriggered = FALSE
    /\ spent = 0 /\ quiet = 0 /\ alone = 0 /\ syncAge = 0
    /\ issued = FALSE /\ wire = {}

(* timeTrust() is SYNCED or HOLDOVER: the device handles messages. *)
Trusted == lastTimeSyncMs # 0 /\ Elapsed(lastTimeSyncMs) <= Holdover

-----------------------------------------------------------------------------
(* Faulty variants of the operations below, one plausible slip each.  No
   behaviour of DSpec uses them; substituted for their original they show that
   the property named beside them can fail. *)

(* DTypeOK: the ring never wraps. *)
RememberAll(age) == Append(heartbeatReplay, age)

(* HeardIsRemembered: the ring index does not advance. *)
RememberLast(age) == <<age>>

(* SilenceBound: before the first heartbeat nothing is checked. *)
CheckDeadmanOnlyArmed ==
    /\ LET fires == lastHeartbeatMs # 0 /\ Elapsed(lastHeartbeatMs) > Deadman /\ ~deadmanTriggered
       IN /\ isLockedDown' = (isLockedDown \/ fires)
          /\ deadmanTriggered' = (deadmanTriggered \/ fires)
    /\ spent' = 0
    /\ UNCHANGED <<clocks, beats, core, alone>>

(* SilenceLocks: the latch is set and the relay is left alone. *)
CheckDeadmanLatchOnly ==
    /\ deadmanTriggered' = (deadmanTriggered \/ (lastHeartbeatMs # 0 /\ Elapsed(lastHeartbeatMs) > Deadman))
    /\ spent' = 0
    /\ UNCHANGED <<isLockedDown, clocks, beats, core, alone>>

-----------------------------------------------------------------------------
(* send_heartbeat: issued_at must be newer than the last one sent. *)
SendHeartbeat ==
    /\ ~issued
    /\ issued' = TRUE
    /\ wire' = wire \cup {0}
    /\ UNCHANGED <<clocks, relay, beats, alone, spent>>

(* SNTP delivered the time; 0 is taken for "never", so it is recorded as 1. *)
OnTimeSync ==
    /\ lastTimeSyncMs' = IF millis = 0 THEN 1 ELSE millis
    /\ syncAge' = 0
    /\ UNCHANGED <<millis, relay, beats, core, alone, spent>>

(* heartbeatReplay is a ring: a new entry displaces the oldest. *)
Remember(age) ==
    IF Len(heartbeatReplay) < Slots THEN Append(heartbeatReplay, age)
                                    ELSE Append(Tail(heartbeatReplay), age)

HandleHeartbeat(age) ==
    /\ Trusted
    /\ age \notin Range(heartbeatReplay)
    /\ heartbeatReplay' = Remember(age)
    /\ lastHeartbeatMs' = millis
    /\ deadmanTriggered' = FALSE
    /\ quiet' = 0
    /\ alone' = 0
    /\ heard' = heard \cup {age}
    /\ UNCHANGED <<clocks, isLockedDown, core, spent>>

(* A command that CommandLink accepts moves the relay; the dead-man state is
   not part of handleCommand. *)
HandleCommand(action) ==
    /\ Trusted
    /\ isLockedDown' = (action = "CUT_UPLINK")
    /\ alone' = IF isLockedDown THEN 0 ELSE alone
    /\ UNCHANGED <<clocks, deadmanTriggered, beats, core, spent>>

CheckDeadman ==
    /\ IF lastHeartbeatMs = 0
         THEN /\ isLockedDown' = (isLockedDown \/ millis > Grace)
              /\ deadmanTriggered' = deadmanTriggered
         ELSE LET fires == Elapsed(lastHeartbeatMs) > Deadman /\ ~deadmanTriggered
              IN /\ isLockedDown' = (isLockedDown \/ fires)
                 /\ deadmanTriggered' = (deadmanTriggered \/ fires)
    /\ spent' = 0
    /\ UNCHANGED <<clocks, beats, core, alone>>

(* One tick passes for everyone while loop() is at most Block ticks away from
   its next checkDeadman. *)
Tick ==
    /\ spent < Block
    /\ spent' = spent + 1
    /\ millis' = (millis + 1) % Wrap
    /\ heartbeatReplay' = [i \in DOMAIN heartbeatReplay |-> OlderThan(Skew + 1, heartbeatReplay[i])]
    /\ wire' = {age + 1 : age \in wire} \cap Ages
    /\ heard' = {age + 1 : age \in heard} \cap Ages
    /\ issued' = FALSE
    /\ quiet' = OlderThan(QuietCap, quiet)
    /\ alone' = OlderThan(AloneCap, alone)
    /\ syncAge' = OlderThan(SyncCap, syncAge)
    /\ UNCHANGED <<lastHeartbeatMs, lastTimeSyncMs, relay>>

(* setup() after a power failure: every global starts over. *)
PowerCycle ==
    /\ millis' = 0 /\ lastHeartbeatMs' = 0 /\ lastTimeSyncMs' = 0
    /\ heartbeatReplay' = <<>> /\ heard' = {}
    /\ isLockedDown' = TRUE /\ deadmanTriggered' = FALSE
    /\ spent' = 0 /\ quiet' = 0 /\ alone' = 0 /\ syncAge' = 0
    /\ UNCHANGED core

DNext ==
    \/ SendHeartbeat
    \/ OnTimeSync
    \/ \E age \in wire : HandleHeartbeat(age)
    \/ \E action \in {"CUT_UPLINK", "RESTORE_UPLINK"} : HandleCommand(action)
    \/ CheckDeadman
    \/ Tick
    \/ PowerCycle

(* loop() runs forever and time passes; nothing else is owed to anyone. *)
Fairness == WF_dvars(CheckDeadman) /\ WF_dvars(Tick)
DSpec == DInit /\ [][DNext]_dvars /\ Fairness

-----------------------------------------------------------------------------
(* While the dead-man has not fired, the relay is NORMAL only with a heartbeat
   accepted in the last DEADMAN_TIMEOUT, or, before any heartbeat, within the
   boot grace; each pass of loop() may add Block.  Across wraps of millis(),
   a heartbeat accepted at millis() = 0, and releases at any moment. *)
SilenceBound ==
    ~isLockedDown /\ ~deadmanTriggered =>
        /\ lastHeartbeatMs # 0 => quiet <= Deadman + Block
        /\ lastHeartbeatMs = 0 => alone <= Grace + 2 * Block

(* An accepted heartbeat that could still pass the skew check is in the ring:
   no replay of it resets the dead-man again before a power cycle. *)
HeardIsRemembered == heard \subseteq Range(heartbeatReplay)

(* When heartbeats stop, a relay whose dead-man has not fired is locked. *)
SilenceLocks ==
    ~isLockedDown /\ ~deadmanTriggered ~> isLockedDown \/ quiet = 0

(* Docs: the ESP32 cuts by itself within the dead-man time (here with the boot
   grace and two passes of loop() added) of the last heartbeat. *)
DeadManCuts == ~isLockedDown => alone <= Grace + 2 * Block

(* Design, replay stage: a heartbeat is accepted only if it is newer than the
   last accepted one. *)
NewestLast ==
    \A i, j \in DOMAIN heartbeatReplay :
        i < j /\ heartbeatReplay[i] \in Ages => heartbeatReplay[j] < heartbeatReplay[i]

(* Design R18: holdover ends Holdover after the last sync (one more for a sync
   recorded as 1). *)
HoldoverBounded == Trusted => syncAge <= Holdover + 1
=============================================================================
