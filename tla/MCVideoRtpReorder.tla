-------------------------- MODULE MCVideoRtpReorder --------------------------
(* Instances of VideoRtpReorder for TLC.                                    *)
EXTENDS VideoRtpReorder

\* Four frames: a frame of one packet has no beginning without its end, and of
\* two frames of two packets the end of one and the beginning of the other may be
\* lost together.
SomeFrames == <<2, 3, 5, 7>>

=============================================================================
