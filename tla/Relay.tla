--------------------------------- MODULE Relay ---------------------------------
(***************************************************************************)
(* The relay device with everything that moves its output: the command     *)
(* path of CommandLink and the dead-man switch of DeadMan, composed as     *)
(* main.cpp runs them.  They meet on one pin, CommandLink's locked and     *)
(* DeadMan's isLockedDown.                                                 *)
(*                                                                         *)
(* loop() is one thread: a message handler and checkDeadman never overlap, *)
(* and a message is handled only while timeTrust() is not UNTRUSTED.       *)
(***************************************************************************)
EXTENDS CommandLink, DeadMan

besidesOutput == <<store, issuer, network, nvs, hwm, stage, current, executed>>
relayVars == <<vars, dvars>>

RelayInit == Init /\ DInit

(* The Core's threads and its restart touch nothing of the device. *)
CoreStep == (Issue \/ CoreRestart \/ Receive) /\ UNCHANGED dvars
CoreBeats == SendHeartbeat /\ UNCHANGED vars

(* onMqttMessage drops every frame while the time is untrusted.  handleCommand
   up to the flash write does not move the relay. *)
TakeCommand ==
    /\ Trusted
    /\ \E c \in sent : RejectExpired(c) \/ RejectSequence(c) \/ RejectPersist(c) \/ Accept(c)
    /\ UNCHANGED dvars

(* setLockdown, then sendAck and publishStatus. *)
MoveRelay == Actuate /\ HandleCommand(current.action)
AnswerCommand == Report /\ UNCHANGED dvars

TakeHeartbeat == stage = "IDLE" /\ (\E age \in wire : HandleHeartbeat(age)) /\ UNCHANGED vars

(* Time passes and SNTP reports at any moment but one: putULong64 and
   setLockdown follow each other without a wait. *)
Clock == stage # "PERSISTED" /\ (OnTimeSync \/ Tick) /\ UNCHANGED vars

LoopChecks ==
    /\ stage = "IDLE"
    /\ CheckDeadman
    /\ locked' = isLockedDown'
    /\ UNCHANGED besidesOutput

Restart == DeviceReboot /\ PowerCycle

RelayNext ==
    \/ CoreStep \/ CoreBeats
    \/ TakeCommand \/ MoveRelay \/ AnswerCommand \/ TakeHeartbeat
    \/ Clock \/ LoopChecks \/ Restart

RelaySpec == RelayInit /\ [][RelayNext]_relayVars

-----------------------------------------------------------------------------
(* The composed device is the device of CommandLink, and the one of DeadMan but
   for its fairness. *)
FollowsCommandLink == Spec
FollowsDeadMan == DInit /\ [][DNext]_dvars

(* Whoever moves the relay, both modules see it. *)
OneOutput == locked = isLockedDown

(* The relay is NORMAL only if the newest command it executed is a RESTORE the
   Core sent, and, until the dead-man fires, only while the Core is heard: a
   CUT, a power cycle and silence each lock it and stay in force. *)
NormalIsEarned ==
    ~locked =>
        /\ executed # <<>>
        /\ executed[Len(executed)] \in SentSeqs
        /\ \A c \in sent : c.seq = executed[Len(executed)] => c.action = "RESTORE_UPLINK"
        /\ ~deadmanTriggered =>
              IF lastHeartbeatMs = 0 THEN alone <= Grace + 2 * Block ELSE quiet <= Deadman + Block
=============================================================================
