---------------------------- MODULE MCSegmenter ----------------------------
(***************************************************************************)
(* Segmenter on small files: every rhythm of the video frames and every    *)
(* choice of key frames within the given bounds, with an audio frame at    *)
(* every other moment, interleaved by dts. What the container says of the  *)
(* duration of a frame (2, and 1 for the audio) is not their rhythm: when  *)
(* the reader loops, the streams part.                                     *)
(***************************************************************************)
EXTENDS Segmenter

TwoStreams == {Video, Audio}
Durations == [s \in {Video, Audio} |-> IF s = Video THEN 2 ELSE 1]
VideoFrames == 5
Sums(g) == [i \in 1..VideoFrames |-> FoldLeft(+, 0, SubSeq(g, 1, i - 1))]
VideoOf(g, keys) == [i \in 1..VideoFrames |-> [stream |-> Video, dts |-> Sums(g)[i], key |-> i \in keys]]
AudioUntil(d) == [i \in 1..((d \div 2) + 1) |-> [stream |-> Audio, dts |-> 2 * (i - 1), key |-> TRUE]]
ByTime(v, a) == SortSeq(v \o a, LAMBDA p, q : p.dts < q.dts \/ (p.dts = q.dts /\ p.stream < q.stream))

(* How far a frame of the video can be from the key frame before it.        *)
Reach(f) ==
  LET r[i \in DOMAIN f] ==
        IF f[i].stream = Audio \/ f[i].key THEN 0
        ELSE LET k == Max({j \in 1..i - 1 : f[j].stream = Video}) IN r[k] + Step(f, k, i)
  IN  r

ASSUME VideoAndAudio
ShortGops(gaps) ==
  LET files == {ByTime(VideoOf(g, k \cup {1}), AudioUntil(Sums(g)[VideoFrames])) :
                  g \in [1..VideoFrames - 1 -> gaps], k \in SUBSET (2..VideoFrames)}
  IN  {f \in files : GroupsFit(f, 2, Reach(f))}
UnevenFiles == ShortGops({1, 4})
=============================================================================
