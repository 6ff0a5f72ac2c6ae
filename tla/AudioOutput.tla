----------------------------- MODULE AudioOutput ------------------------------
(* AudioRender: a worker thread owns the playback device and does, one after *)
(* the other, the commands of the calling thread, which waits for each; the  *)
(* callback of the device runs on a third thread whenever a device plays.    *)
EXTENDS Naturals

CONSTANTS Speakers, DefaultSpeaker, NoSpeaker

SpeakerAssumption == DefaultSpeaker \in Speakers /\ NoSpeaker \notin Speakers
ASSUME SpeakerAssumption

VARIABLES
    m_initialized,             \* read by the callback
    m_worker_running,
    worker,                    \* where the worker thread stands
    command,                   \* the one command of WorkerState
    context,                   \* context_initialized
    device,                    \* the speaker of the device that is open
    m_current_device_id

deviceVars == <<context, device, m_current_device_id>>
outputVars == <<m_initialized, m_worker_running, worker, command, deviceVars>>

NoCommand == [kind |-> "none", target |-> NoSpeaker, pending |-> FALSE,
              completed |-> FALSE, success |-> FALSE]

OutputInit ==
    /\ m_initialized = FALSE /\ m_worker_running = FALSE /\ worker = "none"
    /\ command = NoCommand /\ context = FALSE /\ device = NoSpeaker
    /\ m_current_device_id = NoSpeaker

-----------------------------------------------------------------------------
\* The caller's side of SendCommandAndWait.
Send(kind, target) ==
    command' = [kind |-> kind, target |-> target, pending |-> TRUE,
                completed |-> FALSE, success |-> FALSE]

Answered == command.completed \/ ~m_worker_running
Succeeded == command.completed /\ command.success

-----------------------------------------------------------------------------
\* The worker thread.
TakeCommand ==
    /\ worker = "waiting" /\ command.pending
    /\ worker' = command.kind
    /\ command' = [command EXCEPT !.pending = FALSE]
    /\ UNCHANGED <<m_initialized, m_worker_running, deviceVars>>

Complete(success) ==
    command' = [command EXCEPT !.kind = "none", !.target = NoSpeaker,
                               !.completed = TRUE, !.success = success]

CompleteAndWait(success) == Complete(success) /\ worker' = "waiting"

\* InitDeviceInternal, when it succeeds: NoSpeaker asks for the default one.
OpenDevice(id) ==
    LET name == IF id = NoSpeaker THEN DefaultSpeaker ELSE id
    IN device' = name /\ m_current_device_id' = name

DoInitialize ==
    /\ worker = "initialize"
    /\ \/ context' = TRUE /\ OpenDevice(NoSpeaker) /\ CompleteAndWait(TRUE)
       \/ CompleteAndWait(FALSE) /\ UNCHANGED deviceVars
    /\ UNCHANGED <<m_initialized, m_worker_running>>

CloseDevice ==
    /\ worker = "switch"
    /\ device' = NoSpeaker /\ worker' = "open"
    /\ UNCHANGED <<m_initialized, m_worker_running, command, context, m_current_device_id>>

OpenTarget ==
    /\ worker = "open"
    /\ \/ OpenDevice(command.target) /\ CompleteAndWait(TRUE)
       \/ worker' = "restore" /\ UNCHANGED <<command, device, m_current_device_id>>
    /\ UNCHANGED <<m_initialized, m_worker_running, context>>

\* Mutant: what came of the retries is not noted.
Mutant_Restored(restored) == CompleteAndWait(FALSE) /\ UNCHANGED m_initialized

Restored(restored) ==
    /\ CompleteAndWait(FALSE)
    /\ m_initialized' = restored

\* The device of before, which the current name still is.
RestoreDevice ==
    /\ worker = "restore"
    /\ \/ OpenDevice(m_current_device_id) /\ Restored(TRUE)
       \/ worker' = "fallback"
          /\ UNCHANGED <<m_initialized, command, device, m_current_device_id>>
    /\ UNCHANGED <<m_worker_running, context>>

FallBack ==
    /\ worker = "fallback"
    /\ \/ OpenDevice(NoSpeaker) /\ Restored(TRUE)
       \/ Restored(FALSE) /\ UNCHANGED <<device, m_current_device_id>>
    /\ UNCHANGED <<m_worker_running, context>>

DoEnumerate ==
    /\ worker = "enumerate"
    /\ \E success \in BOOLEAN : CompleteAndWait(success)
    /\ UNCHANGED <<m_initialized, m_worker_running, deviceVars>>

DoShutdown ==
    /\ worker = "shutdown"
    /\ device' = NoSpeaker /\ context' = FALSE
    /\ Complete(TRUE) /\ worker' = "exit"
    /\ UNCHANGED <<m_initialized, m_worker_running, m_current_device_id>>

ExitWorker ==
    /\ worker = "exit"
    /\ m_worker_running' = FALSE /\ worker' = "ended"
    /\ UNCHANGED <<m_initialized, command, deviceVars>>

Worker ==
    \/ TakeCommand \/ DoInitialize \/ CloseDevice \/ OpenTarget \/ RestoreDevice
    \/ FallBack \/ DoEnumerate \/ DoShutdown \/ ExitWorker

\* The callback takes sound only when it finds m_initialized set.
CallbackPops == device # NoSpeaker /\ m_initialized
=============================================================================
