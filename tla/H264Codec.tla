------------------------------- MODULE H264Codec -------------------------------
(* H264Encoder and H264Decoder over OpenH264.  What the library answers is a *)
(* parameter; the operators say what is made of it: which calls succeed, the *)
(* access unit, the bitrate that is set and whether a key frame is wanted.   *)
EXTENDS Integers, SequencesExt

CONSTANT MaxBitrateKbps        \* INT_MAX / 1000

H264Assumption == MaxBitrateKbps \in Nat
ASSUME H264Assumption

-----------------------------------------------------------------------------
(* The encoder: its size, rate and bitrates.                                *)

NoH264Encoder == [ready |-> FALSE]

VideoCodecConfigs ==
    [width : Int, height : Int, framerate : Int, target_bitrate_kbps : Nat,
     min_bitrate_kbps : Nat, max_bitrate_kbps : Nat]

H264Encoders ==
    {NoH264Encoder} \cup [ready : {TRUE}, config : VideoCodecConfigs]

\* I420 halves both sides; the bitrates are ordered.
H264EncoderAccepts(config) ==
    /\ config.width > 0 /\ config.width % 2 = 0
    /\ config.height > 0 /\ config.height % 2 = 0 /\ config.framerate > 0
    /\ 0 < config.min_bitrate_kbps
    /\ config.min_bitrate_kbps <= config.target_bitrate_kbps
    /\ config.target_bitrate_kbps <= config.max_bitrate_kbps
    /\ config.max_bitrate_kbps <= MaxBitrateKbps

\* Create, GetDefaultParams, InitializeExt or SetOption may fail (~made): the
\* context is given up and the encoder before it stays.
H264EncoderInitialize(encoder, config, made) ==
    IF H264EncoderAccepts(config) /\ made
    THEN [ready |-> TRUE, config |-> config] ELSE encoder

\* The frame is refused before the library sees it.
Refused(encoder, frame) ==
    \/ ~encoder.ready
    \/ frame.width # encoder.config.width \/ frame.height # encoder.config.height

\* A layer without NALs is passed over; a NAL has some bytes.
AccessUnit(layers) == FlattenSeq(layers)

UnitIsWhole(layers) ==
    AccessUnit(layers) # << >> /\ \A i \in DOMAIN AccessUnit(layers) : AccessUnit(layers)[i] > 0

\* Encode: what is made of the library's answer.
EncodeResult(encoder, frame, answer) ==
    CASE Refused(encoder, frame) \/ answer.fails -> "failed"
      [] OTHER ->
         CASE answer.type = "skip" -> "skipped"
           [] answer.type = "invalid" \/ (answer.type # "skip" /\ ~UnitIsWhole(answer.layers))
                -> "failed"
           [] OTHER -> IF answer.type = "idr" THEN "keyframe" ELSE "frame"

\* A bitrate outside the configured range is refused.
TakesBitrate(encoder, kbps) ==
    /\ encoder.ready
    /\ kbps \in encoder.config.min_bitrate_kbps .. encoder.config.max_bitrate_kbps

SetBitrate(encoder, kbps, taken) ==
    IF taken /\ TakesBitrate(encoder, kbps)
    THEN [encoder EXCEPT !.config.target_bitrate_kbps = kbps] ELSE encoder

SetFramerate(encoder, framerate, taken) ==
    IF encoder.ready /\ taken /\ framerate # 0
    THEN [encoder EXCEPT !.config.framerate = framerate] ELSE encoder

\* ForceIntraFrame: the library remembers the wish.
RequestsKeyframe(encoder, taken) == encoder.ready /\ taken

\* Release, and the end of an encoder.
H264EncoderRelease == NoH264Encoder

-----------------------------------------------------------------------------
(* The decoder: an answer has the errors the library reports, whether there  *)
(* is a picture, and whether that picture can be used.                       *)

FatalErrors == {"dsInvalidArgument", "dsInitialOptExpected", "dsOutOfMemory",
                "dsDstBufNeedExpan"}

ReferenceErrors == {"dsRefLost", "dsBitstreamError", "dsDepLayerLost", "dsNoParamSets",
                    "dsRefListNullPtrs"}

\* dsFramePending: more input is needed; dsDataErrorConcealed: a guess.
States == FatalErrors \cup ReferenceErrors \cup {"dsFramePending", "dsDataErrorConcealed"}

NewH264Decoder == [ready |-> TRUE, needs_keyframe |-> FALSE]

\* Any configuration will do: the stream has its own size.
H264DecoderInitialize(decoder, made) == IF made THEN NewH264Decoder ELSE decoder

Fatal(answer) == answer.state \cap FatalErrors # {}
ReferenceLost(answer) == answer.state \cap ReferenceErrors # {}

\* Nothing comes out and the library is not just waiting for more.
Lost(answer) == ~answer.picture /\ answer.state \notin {{}, {"dsFramePending"}}

\* Empty or foreign data, or no decoder: the library is not asked.
Ignored(decoder, frame) == ~decoder.ready \/ ~frame.valid

Decoded(decoder, frame, answer) ==
    ~Ignored(decoder, frame) /\ ~Fatal(answer) /\ answer.picture /\ answer.usable

\* A picture may come in spite of a lost reference; only a key frame without
\* such an error ends the wish for one.
Decode(decoder, frame, answer) ==
    IF Ignored(decoder, frame) THEN decoder
    ELSE [decoder EXCEPT !.needs_keyframe =
             \/ Fatal(answer) \/ ReferenceLost(answer) \/ Lost(answer)
             \/ @ /\ ~(Decoded(decoder, frame, answer) /\ frame.is_keyframe)]

ClearKeyframeRequest(decoder) ==
    IF decoder.ready THEN [decoder EXCEPT !.needs_keyframe = FALSE] ELSE decoder

=============================================================================
