------------------------------ MODULE MCStreams ------------------------------
(***************************************************************************)
(* The files the segmenters are model-checked on: a moov, then up to a few *)
(* moof+mdat pairs drawn from a small library.  A sample's payload is 10   *)
(* bytes, and only a sample that is not sync has a composition offset.     *)
(* A trun that starts at the n-th sample of the mdat is At(n).             *)
(***************************************************************************)
EXTENDS Integers, Sequences

McTrack  == {1, 2}
McSame   == [t \in McTrack |-> t]
McSwap   == [t \in McTrack |-> 3 - t]
McMoof   == [c \in BOOLEAN |-> IF c THEN 104 ELSE 100]
McPrefix == [t \in McTrack |-> 200 + t]

MoovBox(video, scale) ==
  [kind |-> "moov", ok |-> TRUE, catalog |-> [video |-> video, scale |-> scale]]
OtherBox == [kind |-> "other"]
OpenBox == [kind |-> "open"]
MoofBox(steps) == [kind |-> "moof", ok |-> TRUE, steps |-> steps]
MdatBox(samples) == [kind |-> "mdat", len |-> 10 * samples, large |-> FALSE]

Tfdt(t, time) == [op |-> "tfdt", track |-> t, time |-> time]
At(n) == [op |-> "trun", offset |-> TRUE, at |-> 10 * (n - 1)]
Follow == [op |-> "trun", offset |-> FALSE, at |-> 0]
Sample(t, dur, sync) ==
  [op |-> "sample", track |-> t, dur |-> dur, size |-> 10, sync |-> sync,
   cts |-> ~ sync]

Pair(steps, samples) == <<MoofBox(steps), MdatBox(samples)>>

\* Up to n pairs one after the other.
RECURSIVE UpTo(_, _)
UpTo(n, pairs) ==
  IF n = 0 THEN {<<>>}
  ELSE {<<>>} \cup {p \o s : p \in pairs, s \in UpTo(n - 1, pairs)}

-----------------------------------------------------------------------------
(* One video track (1) and one audio track (2).                            *)

AVMoov == MoovBox({1}, [t \in McTrack |-> 2])

AVPairs ==
  { Pair(<<Tfdt(1, 5), Follow, Sample(1, 1, TRUE), Sample(1, 1, FALSE)>>, 2),
    Pair(<<At(1), Sample(1, 1, FALSE), At(2), Sample(2, 1, TRUE)>>, 2),
    Pair(<<At(3), Sample(2, 1, TRUE), At(1), Sample(1, 1, TRUE), Sample(1, 1, TRUE)>>, 3) }

AVStreams == {<<OtherBox, AVMoov>> \o s : s \in UpTo(3, AVPairs)}

-----------------------------------------------------------------------------
(* Audio only: two tracks of different timescales, or one not in the moov. *)

AudioPairs ==
  { Pair(<<At(1), Sample(1, 1, TRUE), Sample(1, 1, TRUE)>>, 2),
    Pair(<<At(1), Sample(2, 2, TRUE)>>, 1),
    Pair(<<At(1), Sample(2, 1, TRUE), At(2), Sample(1, 3, TRUE),
           At(3), Sample(2, 1, TRUE)>>, 3) }

AudioStreams ==
  {<<MoovBox({}, scale)>> \o s :
     scale \in {[t \in McTrack |-> t + 1], [t \in McTrack |-> 3 * (t - 1)]},
     s \in UpTo(3, AudioPairs)}

-----------------------------------------------------------------------------
(* Faulty streams: boxes that do not parse, samples outside the mdat, an   *)
(* mdat without a moof, a moof without an mdat, a box of unknown size.     *)

Each == <<At(1), Sample(1, 1, TRUE), At(2), Sample(2, 1, TRUE)>>

FaultyBoxes ==
  { <<MdatBox(1)>>,
    <<MoofBox(<<At(1), Sample(1, 1, TRUE)>>)>>,
    <<[MoofBox(<<>>) EXCEPT !.ok = FALSE]>>,
    Pair(Each, 2),
    Pair(Each, 1),
    Pair(<<At(0), Sample(1, 1, TRUE)>>, 1),
    <<OpenBox>>,
    <<AVMoov>> }

FaultyStreams ==
  {<<m>> \o s : m \in {AVMoov, [AVMoov EXCEPT !.ok = FALSE]}, s \in UpTo(3, FaultyBoxes)}

SegmenterStreams == AVStreams \cup AudioStreams \cup FaultyStreams

-----------------------------------------------------------------------------
(* Two video tracks.                                                       *)

TwoVideoStreams ==
  {<<MoovBox({1, 2}, [t \in McTrack |-> 2])>> \o s :
     s \in UpTo(2, {Pair(<<At(1), Sample(1, 1, TRUE), Sample(1, 1, FALSE)>>, 2),
                    Pair(<<At(1), Sample(1, 1, TRUE), At(2), Sample(2, 1, TRUE),
                           At(3), Sample(1, 1, FALSE), At(4), Sample(2, 1, FALSE)>>, 4)})}

-----------------------------------------------------------------------------
(* For the pull segmenter, which reads a moof together with its mdat: any  *)
(* of the faults, a file without a moov, and other boxes in between.       *)

PullStreams ==
  FaultyStreams
  \cup {<<OpenBox>>, <<OtherBox>>}
  \cup {<<MdatBox(1), AVMoov, OtherBox>> \o s : s \in UpTo(2, AVPairs)}

\* For the refinement: a moof is followed by its mdat.
PairedStreams ==
  AVStreams \cup AudioStreams
  \cup {<<AVMoov, MdatBox(1), OtherBox>> \o s : s \in UpTo(2, AVPairs)}

\* A small mdat with a 64-bit size.  The trun counts from the start of the
\* moof, so its sample lies 16 bytes after the start of the mdat.
LargeMdat ==
  {<<AVMoov, MoofBox(<<[At(1) EXCEPT !.at = 8], Sample(1, 1, TRUE)>>),
     [MdatBox(1) EXCEPT !.large = TRUE]>>}

\* Two truns, the second without a data offset.
FollowStreams == {<<AVMoov>> \o s :
  s \in UpTo(2, {Pair(<<At(1), Sample(1, 1, TRUE), Follow, Sample(1, 1, FALSE)>>, 2)})}
=============================================================================
