----------------------------- MODULE CaptureEngine -----------------------------
(* CaptureEngine over libobs: whether libobs runs, the sources in the        *)
(* default scene and the raw callbacks.  Its state mutex is left out, because *)
(* CaptureManager calls it with a mutex of its own held; only the frames of  *)
(* libobs come from other threads.                                           *)
EXTENDS Naturals

Kinds == {"camera", "mic"}

VARIABLES
    obs,                      \* libobs: "off", "acquired" or, when Init is through, "ready"
    m_sources,                \* sources of each kind
    registered                \* raw callbacks registered with libobs

engineStateVars == <<obs, m_sources, registered>>

NoSources == [k \in Kinds |-> 0]

CaptureEngineInit == obs = "off" /\ m_sources = NoSources /\ registered = {}

-----------------------------------------------------------------------------
(* Init and UnInit.                                                         *)

\* The size is odd or libobs does not start: there is nothing to take back.
ObsRefuses == obs = "off" /\ UNCHANGED obs

\* A plugin that is missing ends Init with libobs started, although the comment
\* there speaks of a cleanup; the destructor cleans up only after a full Init.
PluginMissing == obs = "off" /\ obs' = "acquired"

\* An input, the video, the audio or the scene: CleanupObsState follows.
SetupFails == obs = "off" /\ obs' = "off"

EngineInitFails == ObsRefuses \/ PluginMissing \/ SetupFails

EngineStarts == obs = "off" /\ obs' = "ready"

\* RemoveAllSources and the end of libobs; the callbacks have been removed.
CleanupObsState == obs' = "off" /\ m_sources' = NoSources

-----------------------------------------------------------------------------
(* Callbacks and sources.                                                   *)

\* RegisterVideoCallback and RegisterAudioCallback: the first callback adds the
\* one of the engine to libobs.
AddCallback(k) ==
    registered' = registered \cup (IF obs = "ready" THEN {k} ELSE {})

\* With an empty callback: libobs first waits for the callback that runs.
RemoveCallback(k) == registered' = registered \ {k}

\* A source with a name of its own is made and put into the scene; one that
\* cannot be put there is released.
WithSource(k) == [m_sources EXCEPT ![k] = @ + 1]
CreateSource(k) == obs = "ready" /\ m_sources' = WithSource(k)

WithoutSource(k) == [m_sources EXCEPT ![k] = @ - 1]
RemoveSource(k) == obs = "ready" /\ m_sources[k] > 0 /\ m_sources' = WithoutSource(k)

\* A raw frame is copied for the callback that is set; one without all its
\* planes, or without samples, is passed over.
Delivers(k) == k \in registered
=============================================================================
