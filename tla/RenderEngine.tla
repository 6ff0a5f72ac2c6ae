----------------------------- MODULE RenderEngine -----------------------------
(* RenderManager over RenderEngine: the playback device, the playback clock  *)
(* of the mixer and the frames of the users.  The lock of the manager admits *)
(* one call at a time, so that only the calls that wait for the worker of    *)
(* AudioRender have several steps; the callback of the device takes no lock. *)
EXTENDS UserContext, AudioOutput, VideoRender

CONSTANTS
    Users,
    Sizes, VideoSize,          \* sizes of pictures and windows, m_video_width/height
    FrameSize(_),              \* the size of the n-th frame
    Times,                     \* media times of frames and of the clock
    MaxFrames,                 \* bound: frames pushed
    MaxCalls                   \* bound: calls that wait for the worker

EngineAssumption ==
    /\ Times \subseteq Nat \ {0} /\ IsFiniteSet(Times) /\ Times # {}
    /\ MaxFrames \in Nat /\ MaxCalls \in Nat
    /\ VideoSize \in Sizes /\ \A n \in 1 .. MaxFrames : FrameSize(n) \in Sizes
ASSUME EngineAssumption

VARIABLES
    engine,                    \* m_initialized of the engine and its manager
    call, calls,               \* the call that waits for the worker
    clock,                     \* the playback clock of the mixer, 0: not set
    m_user_contexts,           \* user added -> its context
    m_video_renderer,          \* user added -> its VideoRender
    objects,                   \* the driver's objects by their names
    m_video_shader,            \* the program all users share, 0: not built yet
    screen,                    \* user added -> what its window shows
    pushed, arrived            \* frames pushed, time of a user's last frame

callVars  == <<engine, call, calls>>
glVars    == <<m_video_renderer, objects, m_video_shader, screen>>
videoVars == <<m_user_contexts, glVars, pushed, arrived>>
vars == <<outputVars, callVars, clock, videoVars>>

Init ==
    /\ OutputInit
    /\ engine = FALSE /\ call = "none" /\ calls = 0 /\ clock = 0
    /\ m_user_contexts = << >> /\ m_video_renderer = << >> /\ screen = << >>
    /\ objects = << >> /\ m_video_shader = 0
    /\ pushed = 0 /\ arrived = [u \in Users |-> 0]

Added == DOMAIN m_user_contexts
Free == call = "none"
Serving == engine /\ Free

ResetPlaybackTimeline == clock' = 0

-----------------------------------------------------------------------------
\* Initialize, with the AudioRender of a new engine; on failure it is shut down.
Initialize ==
    /\ ~engine /\ Free /\ calls < MaxCalls
    /\ calls' = calls + 1 /\ call' = "initialize"
    /\ m_worker_running' = TRUE /\ worker' = "waiting"
    /\ Send("initialize", NoSpeaker)
    /\ m_current_device_id' = NoSpeaker
    /\ UNCHANGED <<engine, m_initialized, context, device, clock, videoVars>>

Initialized ==
    /\ call = "initialize" /\ Answered /\ Succeeded
    /\ m_initialized' = TRUE /\ engine' = TRUE /\ call' = "none"
    /\ UNCHANGED <<calls, m_worker_running, worker, command, deviceVars, clock, videoVars>>

InitializeFails ==
    /\ call = "initialize" /\ Answered /\ ~Succeeded
    /\ Send("shutdown", NoSpeaker) /\ call' = "give up"
    /\ UNCHANGED <<engine, calls, m_initialized, m_worker_running, worker, deviceVars,
                   clock, videoVars>>

\* The thread is joined and the engine, which nobody keeps, is destroyed.
GiveUp ==
    /\ call = "give up" /\ Answered /\ worker = "ended"
    /\ worker' = "none" /\ m_worker_running' = FALSE /\ call' = "none"
    /\ UNCHANGED <<engine, calls, m_initialized, command, deviceVars, clock, videoVars>>

\* No call is admitted any more, and the callback finds m_initialized unset.
Uninit ==
    /\ Serving
    /\ engine' = FALSE /\ call' = "uninit" /\ m_initialized' = FALSE
    /\ Send("shutdown", NoSpeaker)
    /\ UNCHANGED <<calls, m_worker_running, worker, deviceVars, clock, videoVars>>

\* What the driver has when every user and the shader have given back theirs.
WithoutUsers ==
    UninitShader(
        FoldSet(LAMBDA u, os : UninitializeRender(os, m_video_renderer[u]), objects, Added),
        m_video_shader)

\* Then the users give back what they have drawn with, and the shader last.
UninitReturns ==
    /\ call = "uninit" /\ Answered /\ worker = "ended"
    /\ worker' = "none" /\ m_worker_running' = FALSE /\ call' = "none"
    /\ m_user_contexts' = << >> /\ clock' = 0
    /\ m_video_renderer' = << >> /\ screen' = << >> /\ m_video_shader' = 0
    /\ objects' = WithoutUsers
    /\ UNCHANGED <<engine, calls, m_initialized, command, deviceVars, pushed, arrived>>

\* UpdateAudioSpeaker.  A speaker that has the current name is not switched to,
\* but the time line is reset all the same.
SwitchSpeaker(id) ==
    /\ Serving /\ calls < MaxCalls /\ id # m_current_device_id
    /\ calls' = calls + 1 /\ call' = "switch"
    /\ Send("switch", id)
    /\ UNCHANGED <<engine, m_initialized, m_worker_running, worker, deviceVars, clock,
                   videoVars>>

KeepSpeaker ==
    /\ Serving /\ clock # 0
    /\ ResetPlaybackTimeline
    /\ UNCHANGED <<callVars, outputVars, videoVars>>

SwitchReturns ==
    /\ call = "switch" /\ Answered
    /\ call' = "none"
    /\ IF Succeeded THEN ResetPlaybackTimeline ELSE UNCHANGED clock
    /\ UNCHANGED <<engine, calls, outputVars, videoVars>>

\* GetSpeakerDevices asks the worker only while the callback may play.
ListSpeakers ==
    /\ Serving /\ m_initialized /\ calls < MaxCalls
    /\ calls' = calls + 1 /\ call' = "list"
    /\ Send("enumerate", NoSpeaker)
    /\ UNCHANGED <<engine, m_initialized, m_worker_running, worker, deviceVars, clock,
                   videoVars>>

ListReturns ==
    /\ call = "list" /\ Answered
    /\ call' = "none"
    /\ UNCHANGED <<engine, calls, outputVars, clock, videoVars>>

-----------------------------------------------------------------------------
\* PopAudio of the mixer, from the callback: the clock goes on, or the sound
\* has run out; a new time line begins anywhere.
AudioPlays ==
    /\ CallbackPops /\ clock # 0
    /\ \/ \E t \in Times : t > clock /\ clock' = t
       \/ ResetPlaybackTimeline
    /\ UNCHANGED <<callVars, outputVars, videoVars>>

AudioStarts ==
    /\ CallbackPops /\ clock = 0
    /\ clock' \in Times
    /\ UNCHANGED <<callVars, outputVars, videoVars>>

-----------------------------------------------------------------------------
\* What the driver gives of three names: all, or too few.
Gifts == {Parts, {1}}

\* f with one more argument.
Put(f, u, value) == [v \in DOMAIN f \cup {u} |-> IF v = u THEN value ELSE f[v]]

\* The first user builds the shader for all; a user whose mesh or textures cannot
\* be made is not added, but the shader stays.
AddUser(u, is_local, fails, meshGiven, textureGiven) ==
    LET shader == InitShader(objects, m_video_shader, fails)
        made   == InitRender(shader.objects, VideoSize, meshGiven, textureGiven)
    IN  /\ Serving /\ u \notin Added
        /\ m_video_shader' = shader.id
        /\ IF shader.id # 0 /\ made.render.m_initialized
           THEN /\ m_user_contexts' = Put(m_user_contexts, u, NewContext(is_local))
                /\ m_video_renderer' = Put(m_video_renderer, u, made.render)
                /\ screen' = Put(screen, u, Black)
           ELSE UNCHANGED <<m_user_contexts, m_video_renderer, screen>>
        /\ objects' = IF shader.id # 0 THEN made.objects ELSE shader.objects
        /\ UNCHANGED <<callVars, outputVars, clock, pushed, arrived>>

\* The context is uninitialized under the lock after it has left the table.
RemoveUser(u) ==
    /\ Serving /\ u \in Added
    /\ m_user_contexts' = [v \in Added \ {u} |-> m_user_contexts[v]]
    /\ m_video_renderer' = [v \in Added \ {u} |-> m_video_renderer[v]]
    /\ screen' = [v \in Added \ {u} |-> screen[v]]
    /\ objects' = UninitializeRender(objects, m_video_renderer[u])
    /\ UNCHANGED <<callVars, outputVars, clock, m_video_shader, pushed, arrived>>

\* The decoder of a user gives its frames in order; a new stream of that user
\* begins further back.
ComesNext(u, ts) == ts > arrived[u] \/ arrived[u] - ts > BackwardThreshold

PushVideoFrame(u, ts) ==
    /\ Serving /\ u \in Added /\ ComesNext(u, ts) /\ pushed < MaxFrames
    /\ pushed' = pushed + 1 /\ arrived' = [arrived EXCEPT ![u] = ts]
    /\ m_user_contexts' =
           [m_user_contexts EXCEPT ![u] = PushFrame(@, [ts |-> ts, seq |-> pushed + 1])]
    /\ UNCHANGED <<callVars, outputVars, clock, glVars>>

\* Which frame is seen is decided under the lock,
ChooseFrame(u) ==
    /\ Serving /\ u \in Added
    /\ m_user_contexts' = [m_user_contexts EXCEPT ![u] = RenderFrame(@, clock)]

\* and drawn after it; without a frame the window is cleared.
RenderUser(u, given) ==
    /\ ChooseFrame(u)
    /\ LET c == m_user_contexts'[u]
           r == m_video_renderer[u]
           drawn == IF c.last = NoFrame THEN ClearBuffer(objects, r)
                    ELSE DrawFrame(objects, m_video_shader, r, c.last.seq,
                                   FrameSize(c.last.seq), c.local, given)
       IN  /\ m_video_renderer' = [m_video_renderer EXCEPT ![u] = drawn.render]
           /\ objects' = drawn.objects
           /\ screen' = [screen EXCEPT ![u] = drawn.screen]
    /\ UNCHANGED <<callVars, outputVars, clock, m_video_shader, pushed, arrived>>

\* The next drawing uses the new size.
UpdateUserVideoSize(u, size) ==
    /\ Serving /\ u \in Added
    /\ m_video_renderer' = [m_video_renderer EXCEPT ![u] = ResizeVideo(@, size)]
    /\ UNCHANGED <<callVars, outputVars, clock, m_user_contexts, objects,
                   m_video_shader, screen, pushed, arrived>>

-----------------------------------------------------------------------------
WorkerStep == Worker /\ UNCHANGED <<callVars, clock, videoVars>>

Returns ==
    \/ Initialized \/ InitializeFails \/ GiveUp \/ UninitReturns \/ SwitchReturns
    \/ ListReturns

Next ==
    \/ Initialize \/ Uninit \/ KeepSpeaker \/ ListSpeakers \/ Returns
    \/ \E id \in Speakers : SwitchSpeaker(id)
    \/ WorkerStep \/ AudioPlays \/ AudioStarts
    \/ \E u \in Users, is_local \in BOOLEAN, fails \in Stages, mesh, texture \in Gifts :
           AddUser(u, is_local, fails, mesh, texture)
    \/ \E u \in Users : RemoveUser(u)
    \/ \E u \in Users, given \in Gifts : RenderUser(u, given)
    \/ \E u \in Users, size \in Sizes : UpdateUserVideoSize(u, size)
    \/ \E u \in Users, ts \in Times : PushVideoFrame(u, ts)

Spec == Init /\ [][Next]_vars

\* The threads run on, a device that is open calls back, and the window of a
\* user is drawn again and again, whatever the driver gives: also while the
\* clock is lost, because the mixer gathers sound for longer than the time
\* between two drawings.
FairSpec ==
    /\ Spec
    /\ WF_vars(WorkerStep) /\ WF_vars(Returns) /\ WF_vars(AudioPlays)
    /\ \A u \in Users : /\ WF_m_user_contexts(ChooseFrame(u))
                       /\ SF_m_user_contexts(clock = 0 /\ ChooseFrame(u))

-----------------------------------------------------------------------------
Contexts == [local : BOOLEAN, buffer : SUBSET [ts : Times, seq : 1..MaxFrames],
             last : [ts : Times, seq : 1..MaxFrames] \cup {NoFrame},
             clockWasValid : BOOLEAN, sync : Syncs]

\* The variables keep their types, a context has at most the frames it may hold
\* and no two of one time.
RenderTypeOK ==
    /\ engine \in BOOLEAN /\ m_initialized \in BOOLEAN /\ m_worker_running \in BOOLEAN
    /\ context \in BOOLEAN /\ device \in Speakers \cup {NoSpeaker}
    /\ m_current_device_id \in Speakers \cup {NoSpeaker}
    /\ clock \in Times \cup {0} /\ Added \subseteq Users
    /\ \A u \in Added :
           /\ m_user_contexts[u] \in Contexts
           /\ Cardinality(m_user_contexts[u].buffer) <= MaxBufferedVideoFrames
           /\ \A f, g \in m_user_contexts[u].buffer : f.ts = g.ts => f = g
    /\ DOMAIN m_video_renderer = Added /\ DOMAIN screen = Added

\* Whatever failed to compile, link or be made, whoever is removed, and however
\* often pictures change their size: the driver has the shader's program, the
\* buffers and the textures of the users and nothing else, and none twice.
ObjectsOwned ==
    /\ \A u \in Added : LET r == m_video_renderer[u] IN
           /\ r.m_initialized /\ r.mesh.m_initialized
           /\ r.texture.m_initialized \/ r.texture = NoTexture
           /\ Names(r.mesh.ids) \cap Names(r.texture.ids) = {}
    /\ DOMAIN objects = ({m_video_shader} \ {0}) \cup
           UNION {Names(m_video_renderer[u].mesh.ids)
                      \cup Names(m_video_renderer[u].texture.ids) : u \in Added}
    /\ Cardinality(DOMAIN objects) = (IF m_video_shader = 0 THEN 0 ELSE 1)
           + 3 * Cardinality(Added)
           + 3 * Cardinality({u \in Added : m_video_renderer[u].texture.m_initialized})

\* A window that is not black shows the three planes of one frame, the last that
\* was chosen, mirrored for the local user alone, though all share one program;
\* it is black only before the first frame and after textures could not be made.
PictureIsLast ==
    \A u \in Added :
        LET c == m_user_contexts[u] IN
        IF c.last # NoFrame /\ m_video_renderer[u].texture.m_initialized
        THEN /\ screen[u] # Black
             /\ screen[u].planes = [i \in Parts |-> c.last.seq]
             /\ screen[u].mirrored = c.local
        ELSE screen[u] = Black

\* What the engine keeps for its users is typed, owned and shown.
RenderInvariant == RenderTypeOK /\ ObjectsOwned /\ PictureIsLast

\* AudioRender: between two calls the callback takes sound from the mixer only
\* if a device is open, whatever of a switch and its two retries has failed:
\* otherwise the engine would take the silence for sound that plays.
ReadyMeansDevice == Free /\ m_initialized => device # NoSpeaker

\* The name GetCurrentSpeakerId gives is that of the device that plays, and
\* while a failed switch is taken back it is not that of the speaker that failed:
\* the retry would ask for that one again.
NamesPlayingDevice ==
    /\ device # NoSpeaker => device = m_current_device_id
    /\ worker \in {"restore", "fallback"} => m_current_device_id # command.target

\* When there is no engine, because Initialize failed or Uninit has returned,
\* no worker, device or miniaudio context is left, and no user or clock.
GoneIsQuiet ==
    ~engine /\ Free =>
        /\ ~m_initialized /\ ~m_worker_running /\ worker = "none"
        /\ device = NoSpeaker /\ ~context /\ Added = {} /\ clock = 0

\* The output device, its worker and the engine agree between any two calls.
OutputInvariant == ReadyMeansDevice /\ NamesPlayingDevice /\ GoneIsQuiet

\* What a user is shown never goes back to a frame that both came earlier and
\* is earlier in media time: not when the clock is lost or found or jumps, when
\* frames are dropped because the buffer is full or they are late, or when the
\* decoder starts a new stream while frames of the old one wait.
FramesInOrder ==
    [][\A u \in Added \cap DOMAIN m_user_contexts' :
           LET old == m_user_contexts[u].last
               new == m_user_contexts'[u].last
           IN new.seq < old.seq => new.ts > old.ts]_vars

\* The frames that have come (MaxFrames at most) are all shown or dropped after
\* a while, as long as the clock is unset or the device goes on taking sound.
SomeWait(u) == u \in Added /\ m_user_contexts[u].buffer # {}
WaitEnds ==
    \A u \in Users : SomeWait(u) ~> ~SomeWait(u) \/ (clock # 0 /\ ~CallbackPops)

\* A call that waits for the worker of AudioRender returns: no answer is lost
\* between the two condition variables, and the thread that is joined ends.
CallReturns == call # "none" ~> call = "none"

\* Nothing waits for ever: neither a frame nor a caller of AudioRender.
RenderProgress == WaitEnds /\ CallReturns
=============================================================================
