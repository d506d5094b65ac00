---------------------------- MODULE MCEventBuilder ----------------------------
(***************************************************************************)
(* Stored streams of up to three GoPs.                                     *)
(***************************************************************************)
EXTENDS EventBuilder, StoreOrder

McTrack == {1, 2, 3}
McVideo == {2}

\* The segments of a GoP in the order they are stored; the third track is new
\* to this version (its timescale reads 0) and the audio is longer than the video.
GopSegs(order, g, bad) ==
  [i \in 1..Len(order) |->
     [track |-> order[i], scale |-> IF order[i] = 3 THEN 0 ELSE 1000,
      dur |-> 1000 + IF order[i] = 1 THEN 1 ELSE 0,
      gop |-> g, ok |-> <<g, order[i]>> # bad]]

Streams(sets, order(_), bad) ==
  {<<>>} \cup {GopSegs(order(a), 1, bad) : a \in sets}
  \cup {GopSegs(order(a), 1, bad) \o GopSegs(order(b), 2, bad) : a, b \in sets}
  \cup {GopSegs(order(a), 1, bad) \o GopSegs(order(b), 2, bad) \o GopSegs(order(c), 3, bad) :
          a, b, c \in sets}

\* Any sets of tracks, as in an audio-only stream; some segment may not parse.
MixedInputs ==
  UNION {Streams((SUBSET McTrack) \ {{}}, ByNumber, bad) :
           bad \in {<<0, 0>>, <<2, 2>>, <<3, 1>>}}

\* The bodies of SegCh one after the other, with a track id of two digits.
WideTrack == {2, 10}
GoInputs == Streams({{2, 10}, {2}}, ByString, <<0, 0>>)
=============================================================================
