------------------------------- MODULE OpusCodec -------------------------------
(* OpusCodecEncoder and OpusCodecDecoder.  The encoder cuts the sound that   *)
(* comes in blocks of any length into packets of one length and stamps them  *)
(* by counting samples; the decoder does the reverse.  A context is a        *)
(* record, a method an operator over it; samples are counted per channel.    *)
EXTENDS Integers, SequencesExt

CONSTANTS
    OpusSampleRate,        \* kOpusSampleRate
    Microseconds,          \* of a second
    FrameSamples,          \* opus_frame_samples
    ResetThreshold,        \* kTimestampResetThresholdUs
    MaxQueuedFrames        \* kMaxQueuedFrames

\* A supported packet lasts a whole number of microseconds.
OpusAssumption ==
    /\ OpusSampleRate \in Nat \ {0} /\ Microseconds \in Nat \ {0}
    /\ FrameSamples \in Nat \ {0} /\ MaxQueuedFrames \in Nat \ {0}
    /\ (FrameSamples * Microseconds) % OpusSampleRate = 0
    /\ ResetThreshold \in Nat
ASSUME OpusAssumption

AudioCodecConfigs ==
    [sample_rate : Nat, channels : Nat, bitrate_kbps : Nat, frame_size_ms : Nat,
     complexity : Nat, enable_vbr : BOOLEAN, enable_dtx : BOOLEAN, enable_fec : BOOLEAN,
     enable_plc : BOOLEAN]

\* What Initialize accepts of an encoder and of a decoder.
FrameSizes == {5, 10, 20, 40, 60}

OpusDecoderAccepts(config) ==
    /\ config.sample_rate # 0 /\ config.channels \in 1 .. 2
    /\ config.frame_size_ms \in FrameSizes

OpusEncoderAccepts(config) ==
    /\ OpusDecoderAccepts(config)
    /\ config.bitrate_kbps \in 1 .. 512 /\ config.complexity \in 0 .. 10

\* The last MaxQueuedFrames of a queue: the oldest frames make room.
Newest(queue) ==
    IF Len(queue) <= MaxQueuedFrames THEN queue
    ELSE SubSeq(queue, Len(queue) - MaxQueuedFrames + 1, Len(queue))

-----------------------------------------------------------------------------
(* The encoder: a packet in the output queue is its timestamp.              *)

OpusEncoders ==
    [config : AudioCodecConfigs, pcm_buffer : Nat, pcm_read_offset : Nat,
     output_queue : Seq(Int), next_timestamp_us : Int, has_timestamp : BOOLEAN]

NewOpusEncoder(config) ==
    [config |-> config, pcm_buffer |-> 0, pcm_read_offset |-> 0, output_queue |-> << >>,
     next_timestamp_us |-> 0, has_timestamp |-> FALSE]

\* Initialize: the encoder before it stays if the new one cannot be made.
OpusEncoderInitialize(encoder, config, made) ==
    IF OpusEncoderAccepts(config) /\ made THEN NewOpusEncoder(config) ELSE encoder

Buffered(e) == e.pcm_buffer - e.pcm_read_offset

Duration(samples) == (samples * Microseconds) \div OpusSampleRate

\* The capture time the first sample not yet buffered would have.
ExpectedTimestamp(e) == e.next_timestamp_us + Duration(Buffered(e))

Continues(e, timestamp_us) ==
    /\ timestamp_us - ExpectedTimestamp(e) <= ResetThreshold
    /\ ExpectedTimestamp(e) - timestamp_us <= ResetThreshold

\* A first block sets the time; a gap discards what is left of the last packet.
Aligned(e, timestamp_us) ==
    CASE ~e.has_timestamp ->
            [e EXCEPT !.next_timestamp_us = timestamp_us, !.has_timestamp = TRUE]
      [] e.has_timestamp /\ ~Continues(e, timestamp_us) ->
            [e EXCEPT !.pcm_buffer = 0, !.pcm_read_offset = 0,
                      !.next_timestamp_us = timestamp_us]
      [] OTHER -> e

\* The resampler makes some samples of a block.
AppendInput(e, samples) == [e EXCEPT !.pcm_buffer = @ + samples]

Packets(e, count) ==
    [i \in 1 .. count |-> e.next_timestamp_us + (i - 1) * Duration(FrameSamples)]

\* So many packets leave the buffer for the queue.
Encoded(e, count) ==
    [e EXCEPT !.pcm_read_offset = @ + count * FrameSamples,
              !.output_queue = Newest(@ \o Packets(e, count)),
              !.next_timestamp_us = @ + count * Duration(FrameSamples)]

\* What was read is erased when it is all or much.
Compacted(e) ==
    IF Buffered(e) = 0 \/ e.pcm_read_offset >= 4 * FrameSamples
    THEN [e EXCEPT !.pcm_buffer = Buffered(e), !.pcm_read_offset = 0] ELSE e

WholePackets(e) == Buffered(e) \div FrameSamples

\* The rest is filled up with silence.
Padded(e) ==
    IF Buffered(e) = 0 THEN e
    ELSE [e EXCEPT !.pcm_buffer = FrameSamples, !.pcm_read_offset = 0]

\* libopus takes the packets there are, or fails after some; then the rest stays.
EncodeWhole(e, taken) ==
    LET whole == WholePackets(e)
    IN  IF taken < whole THEN [ok |-> FALSE, encoder |-> Encoded(e, taken)]
        ELSE [ok |-> TRUE, encoder |-> Encoded(e, whole)]

EncodeBufferedFrames(e, flush, taken) ==
    LET whole == EncodeWhole(e, taken)
        rest  == EncodeWhole(Padded(whole.encoder), taken - WholePackets(e))
        last  == IF flush /\ whole.ok THEN rest ELSE whole
    IN  IF last.ok THEN [last EXCEPT !.encoder = Compacted(@)] ELSE last

\* A block of another format is refused; the resampler may fail (-1 samples).
PushInput(e, block, samples, taken) ==
    LET aligned == Aligned(e, block.timestamp_us)
    IN  IF ~block.fits THEN [ok |-> FALSE, encoder |-> e]
        ELSE IF samples = -1 THEN [ok |-> FALSE, encoder |-> aligned]
        ELSE EncodeBufferedFrames(AppendInput(aligned, samples), FALSE, taken)

FlushEncoder(e, taken) == EncodeBufferedFrames(e, TRUE, taken)

PullEncoded(e) ==
    IF e.output_queue = << >> THEN e ELSE [e EXCEPT !.output_queue = Tail(@)]

\* SetBitrate, SetComplexity, SetVBR, SetDTX and SetFEC keep what libopus takes.
SetOption(e, changed, taken) ==
    IF taken /\ OpusEncoderAccepts(changed) THEN [e EXCEPT !.config = changed] ELSE e

-----------------------------------------------------------------------------
(* The decoder: a frame of sound is its timestamp and its length.           *)

OpusDecoders ==
    [config : AudioCodecConfigs, output_queue : Seq([timestamp_us : Int, samples : Nat]),
     next_timestamp_us : Int, has_timestamp : BOOLEAN]

NewOpusDecoder(config) ==
    [config |-> config, output_queue |-> << >>, next_timestamp_us |-> 0,
     has_timestamp |-> FALSE]

OpusDecoderInitialize(decoder, config, made) ==
    IF OpusDecoderAccepts(config) /\ made THEN NewOpusDecoder(config) ELSE decoder

\* After a frame of so many decoded samples.
Advanced(d, timestamp_us, samples) ==
    [d EXCEPT !.next_timestamp_us = timestamp_us + Duration(samples),
              !.has_timestamp = TRUE]

\* libopus refuses the packet, or the resampler makes nothing of it.
DecodePacket(d, timestamp_us, samples, converted) ==
    IF samples < 0 \/ converted = 0 THEN d
    ELSE [Advanced(d, timestamp_us, samples) EXCEPT
             !.output_queue = Newest(Append(@, [timestamp_us |-> timestamp_us,
                                              samples |-> converted]))]

PullDecoded(d) ==
    IF d.output_queue = << >> THEN d ELSE [d EXCEPT !.output_queue = Tail(@)]

\* A lost packet is guessed by libopus, or is as much silence; its frame does
\* not go through the queue.
ConcealLostPacket(d, guessed, converted) ==
    LET samples == IF d.config.enable_plc /\ guessed >= 0 THEN guessed ELSE FrameSamples
        timestamp_us == IF d.has_timestamp THEN d.next_timestamp_us ELSE 0
    IN  [decoder |-> IF converted = 0 THEN d ELSE Advanced(d, timestamp_us, samples),
         timestamp_us |-> timestamp_us]

=============================================================================
