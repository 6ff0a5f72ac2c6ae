----------------------------- MODULE PublishCodecs -----------------------------
(* The encoders RtcPushTransport publishes with: their configurations, which *)
(* it derives from the publish information, and the controller that sets the *)
(* bitrate of the video encoder.                                             *)
EXTENDS VideoBitrate, H264Codec, OpusCodec

CONSTANTS
    BitsPerPixel,                  \* pixels of a second for one kbit, 8000
    MinTarget, MaxTarget,          \* the target bitrate is clamped to these
    LeastBitrate                   \* the lower limit is not below this

PublishAssumption ==
    /\ BitsPerPixel \in Nat \ {0} /\ LeastBitrate \in Nat \ {0}
    /\ MinTarget \in Nat /\ MaxTarget \in Nat
    /\ LeastBitrate <= MinTarget /\ MinTarget <= MaxTarget
    /\ (MaxTarget * 3) \div 2 <= MaxBitrateKbps
ASSUME PublishAssumption

TargetBitrateOf(info) ==
    Smaller(Larger((info.video_width * info.video_height * info.video_fps) \div BitsPerPixel,
                   MinTarget),
            MaxTarget)

\* InitializeVideoEncoder.
VideoConfig(info) ==
    LET target == TargetBitrateOf(info)
    IN  [width |-> info.video_width, height |-> info.video_height,
         framerate |-> info.video_fps, target_bitrate_kbps |-> target,
         min_bitrate_kbps |-> Larger(LeastBitrate, target \div 2),
         max_bitrate_kbps |-> (target * 3) \div 2]

\* The controller never goes above the target.
VideoController(config) ==
    ControllerInitialize(config.min_bitrate_kbps, config.target_bitrate_kbps,
                         config.target_bitrate_kbps)

\* InitializeAudioEncoder.
AudioConfig(info) ==
    [sample_rate |-> info.audio_sample_rate, channels |-> info.audio_channels,
     bitrate_kbps |-> IF info.audio_channels = 1 THEN 32 ELSE 64, frame_size_ms |-> 20,
     complexity |-> 5, enable_vbr |-> TRUE, enable_dtx |-> FALSE, enable_fec |-> TRUE,
     enable_plc |-> TRUE]

\* EvaluateVideoBitrate: the encoder follows the controller; a controller whose
\* bitrate is not taken is locked at the one before.
AdaptBitrate(encoder, control, feedback, taken) ==
    LET updated == ControllerUpdate(control, feedback)
        last    == control.m_current_bitrate
        next    == updated.m_current_bitrate
    IN  CASE next = last -> [encoder |-> encoder, control |-> updated]
          [] next # last /\ taken /\ TakesBitrate(encoder, next) ->
                [encoder |-> SetBitrate(encoder, next, taken), control |-> updated]
          [] OTHER -> [encoder |-> encoder, control |-> ControllerInitialize(last, last, last)]

=============================================================================
