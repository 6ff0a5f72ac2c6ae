---------------------------- MODULE CaptureManager -----------------------------
(* CaptureManager over CaptureEngine, called by the threads of the client.   *)
(* Each thread has a list of what it still has to do; a step runs its head   *)
(* and may put more before the rest.  The state mutex is held for several    *)
(* steps when a callback is removed, because libobs then waits for the       *)
(* callback that runs.  Open, close and the rest exist once for the camera   *)
(* and once for the microphone, and do the same.                             *)
EXTENDS CaptureEngine, Sequences

CONSTANTS Cameras, Mics, MaxMeetings \* MaxMeetings is a bound: meetings entered

NoDevice == ""

CaptureAssumption == NoDevice \notin Cameras \cup Mics /\ MaxMeetings \in Nat
ASSUME CaptureAssumption

Devices == [k \in Kinds |-> IF k = "camera" THEN Cameras ELSE Mics]

Threads == {"ui", "event"}
Nobody == "nobody"

VARIABLES
    m_state_mutex,            \* who holds it
    m_capture_callback,       \* CaptureManager knows the engine
    m_source_id,              \* the kinds that have an open source
    device,                   \* the device of the open source
    m_selected,               \* the device CaptureManager was told to use
    frame,                    \* the frame in the callback of each kind
    todo                      \* what each thread still has to do

managerVars == <<m_state_mutex, m_capture_callback, m_source_id, device, m_selected>>
captureVars == <<managerVars, engineStateVars, frame>>

NoDevices == [k \in Kinds |-> NoDevice]
NoFrame == [at |-> "none", of |-> 0]

CaptureManagerInit ==
    /\ CaptureEngineInit
    /\ m_state_mutex = Nobody /\ m_capture_callback = FALSE /\ m_source_id = {}
    /\ device = NoDevices /\ m_selected = NoDevices
    /\ frame = [k \in Kinds |-> NoFrame]

\* A piece of work: what is done, and for which kind (or for what purpose).
Do(what, for) == <<what, for>>
Idle(t) == todo[t] = << >>
Has(t, what, for) == ~Idle(t) /\ Head(todo[t]) = Do(what, for)
Then(t, more) == todo' = [todo EXCEPT ![t] = more \o Tail(@)]
Starts(t, work) == todo' = [todo EXCEPT ![t] = work]

Locks(t) == m_state_mutex = Nobody /\ m_state_mutex' = t
Unlocks(t) == m_state_mutex = t /\ m_state_mutex' = Nobody
Unlocked == m_state_mutex = Nobody /\ UNCHANGED m_state_mutex

-----------------------------------------------------------------------------
(* A camera or a microphone is opened.                                      *)

\* The callback comes first, so that no frame of the source is missed.
Register(t, k) ==
    /\ Has(t, "register", k)
    /\ IF k \in m_source_id
       THEN /\ Unlocked /\ UNCHANGED registered
            /\ Then(t, <<Do("flag", k), Do("show", k)>>)
       ELSE /\ Locks(t) /\ AddCallback(k)
            /\ Then(t, <<Do("create", k)>>)
    /\ UNCHANGED <<m_capture_callback, m_source_id, device, m_selected, obs, m_sources, frame>>

\* The source is given a device, by a property of its own.
SetDevice(k, d) == device' = [device EXCEPT ![k] = d]

\* The source is created and is given the selected device.
Create(t, k) ==
    /\ Has(t, "create", k) /\ Unlocks(t) /\ CreateSource(k)
    /\ m_source_id' = m_source_id \cup {k}
    /\ SetDevice(k, m_selected[k])
    /\ Then(t, <<Do("flag", k), Do("show", k)>>)
    /\ UNCHANGED <<m_capture_callback, m_selected, obs, registered, frame>>

\* Mutant: a source whose device cannot be set is not destroyed.
Mutant_CreateFails(t, k) ==
    /\ Has(t, "create", k) /\ CreateSource(k)
    /\ Then(t, <<Do("unregister", k), Do("unpublish", k)>>)
    /\ UNCHANGED <<managerVars, obs, registered, frame>>

\* There is no source, or it is destroyed because the device is gone.
CreateFails(t, k) ==
    /\ Has(t, "create", k)
    /\ Then(t, <<Do("unregister", k), Do("unpublish", k)>>)
    /\ UNCHANGED captureVars

-----------------------------------------------------------------------------
(* It is closed.                                                            *)

Release(t, k) ==
    /\ Has(t, "release", k)
    /\ IF k \in m_source_id THEN Locks(t) /\ Then(t, <<Do("unregister", k)>>)
                            ELSE Unlocked /\ Then(t, << >>)
    /\ UNCHANGED <<m_capture_callback, m_source_id, device, m_selected, engineStateVars, frame>>

\* DestroyCaptureSource, when there is a source.
Destroy(k) ==
    /\ m_source_id' = m_source_id \ {k} /\ device' = [device EXCEPT ![k] = NoDevice]
    /\ IF k \in m_source_id THEN RemoveSource(k) ELSE UNCHANGED m_sources

\* Mutant: the source is destroyed and the callback stays registered.
Mutant_Unregister(t, k) ==
    /\ Has(t, "unregister", k) /\ Unlocks(t)
    /\ Destroy(k) /\ Then(t, << >>)
    /\ UNCHANGED <<m_capture_callback, m_selected, obs, registered, frame>>

\* libobs waits for the callback that runs; then the source, if any, goes.
Unregister(t, k) ==
    /\ Has(t, "unregister", k) /\ Unlocks(t)
    /\ frame[k] = NoFrame /\ RemoveCallback(k)
    /\ Destroy(k) /\ Then(t, << >>)
    /\ UNCHANGED <<m_capture_callback, m_selected, obs, frame>>

-----------------------------------------------------------------------------
(* The devices.                                                             *)

\* UpdateCameraDevice and UpdateMicrophoneDevice: the device is kept for later,
\* or an open source is switched to it. That a switch of an open source fails is
\* left out: the lobby, the only caller, has no source open.
UpdateDevice(k, d) ==
    /\ Unlocked
    /\ m_selected' = [m_selected EXCEPT ![k] = d]
    /\ IF k \in m_source_id THEN SetDevice(k, d) ELSE UNCHANGED device
    /\ UNCHANGED <<m_capture_callback, m_source_id, engineStateVars, frame>>

\* What the property of a source lists: any of the devices may be unplugged.
Enumerated(k, listed) == listed \subseteq Devices[k]

\* GetCameraDevices and GetMicrophoneDevices: an open source is asked, or one
\* that is made for it and taken away again; the answer is a set of devices.
GetDevices(k, listed) ==
    /\ Enumerated(k, listed) /\ Unlocked
    /\ UNCHANGED <<m_capture_callback, m_source_id, device, m_selected, engineStateVars, frame>>

\* GetCurrentCameraDeviceId and GetCurrentMicrophoneDeviceId.
CurrentDevice(k) == IF k \in m_source_id THEN device[k] ELSE m_selected[k]

-----------------------------------------------------------------------------
(* A frame: libobs calls CaptureEngine, which calls CaptureManager.          *)

\* The callback is copied and the frame converted without the mutex held.
Frame(k, meeting) ==
    /\ Delivers(k) /\ frame[k] = NoFrame
    /\ frame' = [frame EXCEPT ![k] = [at |-> "manager", of |-> meeting]]
    /\ UNCHANGED <<managerVars, engineStateVars, todo>>

\* Mutant: the pointer to the engine is guarded by the state mutex.
Mutant_Deliver(k) ==
    /\ frame[k].at = "manager" /\ m_state_mutex = Nobody
    /\ frame' = [frame EXCEPT ![k] = IF m_capture_callback THEN [@ EXCEPT !.at = "engine"]
                                     ELSE NoFrame]
    /\ UNCHANGED <<managerVars, engineStateVars, todo>>

Deliver(k) ==
    /\ frame[k].at = "manager"
    /\ frame' = [frame EXCEPT ![k] = IF m_capture_callback THEN [@ EXCEPT !.at = "engine"]
                                     ELSE NoFrame]
    /\ UNCHANGED <<managerVars, engineStateVars, todo>>

-----------------------------------------------------------------------------
(* Initialize and Uninit.                                                   *)

\* The callback of the engine is set by the engine afterwards.
StartCapture ==
    /\ EngineStarts
    /\ UNCHANGED <<managerVars, m_sources, registered, frame>>

\* Its engine is given away: one that was not initialized cleans nothing up.
StartCaptureFails ==
    /\ EngineInitFails
    /\ UNCHANGED <<managerVars, m_sources, registered, frame>>

\* Uninit: the engine is forgotten before the mutex is waited for.
Disconnect(t) ==
    /\ m_capture_callback' = FALSE /\ Locks(t)
    /\ UNCHANGED <<m_source_id, device, m_selected, engineStateVars, frame>>

\* The callbacks are removed one after the other.
Detach(t, k) ==
    /\ Has(t, "detach", k) /\ frame[k] = NoFrame
    /\ RemoveCallback(k) /\ Then(t, << >>)
    /\ UNCHANGED <<managerVars, obs, m_sources, frame>>

\* The sources go, and libobs.
StopCapture(t) ==
    /\ Unlocks(t) /\ CleanupObsState
    /\ m_source_id' = {} /\ device' = NoDevices
    /\ UNCHANGED <<m_capture_callback, m_selected, registered, frame>>
=============================================================================
