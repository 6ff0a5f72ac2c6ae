--------------------------- MODULE MCPushTransport ---------------------------
(* Instances of PushTransport for TLC, and a comparison of the audio encoder *)
(* of OpusCodec with the loop of the source on small buffers.                *)
EXTENDS PushTransport, PublishCodecs

\* One frame fills a queue.
Room == [m \in Media |-> 1]

-----------------------------------------------------------------------------
\* One round of the loop of EncodeBufferedFrames: a packet is encoded and
\* queued, a full queue loses its oldest one.
Round(e) ==
    LET full == Len(e.output_queue) >= MaxQueuedFrames
    IN  [e EXCEPT !.output_queue = Append(IF full THEN Tail(@) ELSE @, e.next_timestamp_us),
                  !.pcm_read_offset = @ + FrameSamples,
                  !.next_timestamp_us = @ + Duration(FrameSamples)]

\* The loop, as the source has it.
RECURSIVE LoopOf(_, _, _)
LoopOf(e, flush, taken) ==
    LET short  == Buffered(e) < FrameSamples
        filled == IF short THEN [e EXCEPT !.pcm_buffer = FrameSamples, !.pcm_read_offset = 0]
                  ELSE e
    IN  IF short /\ (~flush \/ Buffered(e) = 0) THEN [ok |-> TRUE, encoder |-> Compacted(e)]
        ELSE IF taken = 0 THEN [ok |-> FALSE, encoder |-> filled]
        ELSE LoopOf(Round(filled), flush, taken - 1)

SomeConfig == AudioConfig([audio_sample_rate |-> 48000, audio_channels |-> 2])

\* Buffers of some packets, whose reading has got anywhere.
SomeEncoders ==
    {[config |-> SomeConfig, pcm_buffer |-> size, pcm_read_offset |-> offset,
      output_queue |-> queue, next_timestamp_us |-> 7, has_timestamp |-> TRUE] :
        size \in 0 .. 5 * FrameSamples, offset \in 0 .. 5 * FrameSamples,
        queue \in {<< >>, <<1>>, <<1, 3>>}}

\* The encoder's operators say what its loop does, however many packets libopus
\* takes of it.
LoopAgrees ==
    \A e \in SomeEncoders, flush \in BOOLEAN, taken \in 0 .. 6 :
        e.pcm_read_offset <= e.pcm_buffer =>
            EncodeBufferedFrames(e, flush, taken) = LoopOf(e, flush, taken)

\* The configurations RtcPushTransport derives are ones the encoders accept.
ConfigsAccepted ==
    /\ OpusEncoderAccepts(SomeConfig)
    /\ \A width \in {320, 1280, 3840}, height \in {240, 720, 2160}, fps \in {1, 30, 60} :
          H264EncoderAccepts(VideoConfig([video_width |-> width, video_height |-> height,
                                          video_fps |-> fps]))

ASSUME LoopAgrees
ASSUME ConfigsAccepted

=============================================================================
