------------------------------ MODULE MCConvert ------------------------------
(***************************************************************************)
(* The inputs of the conversion: flat and fragmented files with the cases  *)
(* the readers and the partition tell apart.  Lengths are small so that    *)
(* every byte of a file can be a place to cut it (MCArchive); a moof with  *)
(* a composition offset is longer, and no two prefixes are equally long.   *)
(***************************************************************************)
EXTENDS Hls

McTrack  == 1..3
McSame   == [t \in McTrack |-> t]
McMoof   == [c \in BOOLEAN |-> IF c THEN 12 ELSE 10]
McPrefix == [t \in McTrack |-> 24 + t]

\* The movie timescale of the inputs; edits of a flat input count in it.
InScale == 100

Trak(track, handler, codec, scale, edits, stbl) ==
  [track |-> track, handler |-> handler, codec |-> codec, scale |-> scale,
   edits |-> edits, stbl |-> stbl]
Moov(traks) == [scale |-> InScale, next |-> Len(traks) + 1, traks |-> traks]
Empty(dur) == [dur |-> dur, empty |-> TRUE]
Media(dur) == [dur |-> dur, empty |-> FALSE]
Run(count, value) == [count |-> count, value |-> value]
Chunks(first, per) == [first |-> first, per |-> per]

\* A flat input whose mdat ends at byte `end`.
Flat(traks, end) ==
  LET head == AddAtom(AddAtom(EmptyFile, Atom("ftyp", 8, FtypLen, Nothing)),
                      Atom("moov", 8, MoovLen(traks), Moov(traks)))
  IN  AddAtom(head, Atom("mdat", 8, end - head.size, Nothing))

\* Video in two chunks, with a frame that is not sync and one that is shown
\* late; the audio between them starts half a second later.
VideoTable(chunks, sync) ==
  [stts |-> <<Run(2, 3), Run(2, 2)>>, hasCts |-> TRUE,
   ctts |-> <<Run(1, 0), Run(1, 1), Run(2, 0)>>, stsz |-> <<3, 1, 2, 2>>,
   stsc |-> <<Chunks(1, 3), Chunks(2, 1)>>, chunks |-> chunks,
   hasSync |-> sync # 1..4, stss |-> IF sync = 1..4 THEN {} ELSE sync]
AudioTable(chunks) ==
  [stts |-> <<Run(3, 2)>>, hasCts |-> FALSE, ctts |-> <<>>, stsz |-> <<1, 1, 1>>,
   stsc |-> <<Chunks(1, 2), Chunks(2, 1)>>, chunks |-> chunks,
   hasSync |-> FALSE, stss |-> {}]
TextTable(chunk) == [NoTable EXCEPT !.stts = <<Run(1, 9)>>, !.stsz = <<2>>,
                       !.stsc = <<Chunks(1, 1)>>, !.chunks = <<chunk>>]

VideoTrak(id, sync) == Trak(id, "vide", "avc1", 10, <<>>, VideoTable(<<200, 209>>, sync))
AudioTrak(id, edits) == Trak(id, "soun", "opus", 6, edits, AudioTable(<<207, 212>>))
TextTrak(id) == Trak(id, "sbtl", "tx3g", 10, <<>>, TextTable(214))

\* The audio after the second keyframe of the video, and the video late too.
LateAudio == <<Empty(60), Media(100)>>
LateVideo == [VideoTrak(1, {1, 3}) EXCEPT !.edits = <<Empty(190), Empty(10), Media(100)>>]

AV          == Flat(<<VideoTrak(1, {1, 3}), AudioTrak(2, <<Empty(20)>>)>>, 220)
AVOffset    == Flat(<<LateVideo, AudioTrak(2, <<Empty(120)>>)>>, 220)
AVLate      == Flat(<<AudioTrak(1, LateAudio), VideoTrak(2, {1, 3})>>, 220)
AVOpenGop   == Flat(<<VideoTrak(1, {3}), AudioTrak(2, <<>>)>>, 220)
AVNoSync    == Flat(<<VideoTrak(1, {}), AudioTrak(2, <<>>)>>, 220)
TwoVideos   == Flat(<<VideoTrak(1, {1, 3}), VideoTrak(2, {1, 2}), AudioTrak(3, <<>>)>>, 220)
AVShort     == CutFile(AV, 212)
\* A frame without a duration, ahead of the second keyframe.
AVStill     == Flat(<<[VideoTrak(1, {1, 3}) EXCEPT !.stbl.stts = <<Run(1, 3), Run(1, 0), Run(2, 2)>>],
                      AudioTrak(2, <<>>)>>, 220)
AVText      == Flat(<<VideoTrak(1, {1, 3}), TextTrak(2), AudioTrak(3, <<>>)>>, 220)
\* A track that is not described, and has no sample.
AVEmptyText == Flat(<<VideoTrak(1, {1, 3}), Trak(2, "sbtl", "tx3g", 10, <<>>, NoTable),
                      AudioTrak(3, <<>>)>>, 220)
TextOnly    == Flat(<<TextTrak(2)>>, 220)
NoChunks    == Flat(<<[VideoTrak(1, 1..4) EXCEPT !.stbl.stsc = <<>>]>>, 220)

\* Audio alone: the second that opens the next GoP falls inside a sample.
LongAudio(id, scale, dur, runs, chunks) ==
  Trak(id, "soun", "opus", scale, <<>>,
       [NoTable EXCEPT !.stts = <<Run(5, dur)>>, !.stsz = <<1, 2, 1, 2, 1>>,
                       !.stsc = runs, !.chunks = chunks])
AudioOnly == Flat(<<LongAudio(2, 6, 4, <<Chunks(1, 2), Chunks(3, 1)>>, <<200, 214, 206>>),
                    LongAudio(3, 4, 4, <<Chunks(1, 5)>>, <<207>>)>>, 220)

\* A fragmented input: the samples of a traf, counted from its moof.
Traf(track, tfdt, place, samples) ==
  [track |-> track, tfdt |-> tfdt, offset |-> TRUE, at |-> place, samples |-> samples]
S(dur, size, sync, cts) == [dur |-> dur, size |-> size, sync |-> sync, cts |-> cts]
InMoof(trafs) == Atom("moof", 8, 40, [seq |-> 1, trafs |-> trafs])
DataBox(len) == Atom("mdat", 8, 8 + len, Nothing)
Fragmented(traks, atoms) ==
  LET Add[n \in 0..Len(atoms)] ==
        IF n = 0 THEN AddAtom(EmptyFile, Atom("moov", 8, 60, Moov(traks)))
        ELSE AddAtom(Add[n - 1], atoms[n])
  IN  Add[Len(atoms)]

FragTraks == <<Trak(1, "vide", "av01", 10, <<>>, NoTable),
               Trak(2, "soun", "mp4a", 6, <<>>, NoTable)>>
FragAV == Fragmented(FragTraks,
  << InMoof(<<Traf(1, 25, 48, <<S(5, 2, TRUE, 0), S(3, 1, FALSE, 2)>>),
              Traf(2, 12, 51, <<S(4, 1, TRUE, 0), S(4, 1, TRUE, 0)>>)>>), DataBox(5),
     InMoof(<<Traf(2, 99, 48, <<S(6, 3, TRUE, 0)>>),
              Traf(1, NoTfdt, 51, <<S(4, 2, TRUE, 0)>>)>>), DataBox(5) >>)
\* Its last mdat is cut off: it is planned, and a sample is then not there.
FragShort   == CutFile(FragAV, FragAV.size - 1)
\* The last moof is cut off, and a header behind the last mdat.
FragTorn    == CutFile(FragAV, FragAV.size - 20)
FragTail    == CutFile(AddAtom(FragAV, DataBox(5)), FragAV.size + 4)
\* A second trun for the video and, for a track that is not known, none.
FragTruns   == Fragmented(FragTraks,
  << InMoof(<<Traf(1, 25, 48, <<S(5, 2, TRUE, 0)>>), Traf(3, 7, 48, <<>>),
              Traf(1, NoTfdt, 51, <<S(3, 1, FALSE, 0), S(2, 1, TRUE, 0)>>)>>), DataBox(5) >>)
FlatTail    == CutFile(AddAtom(AV, DataBox(5)), AV.size + 4)
FragUnknown == Fragmented(FragTraks, <<InMoof(<<Traf(3, 0, 48, <<S(5, 2, TRUE, 0)>>)>>), DataBox(5)>>)

NoMap == <<>>
Both(file, map) == {[file |-> file, form |-> form, map |-> map] : form \in {"flat", "fmp4"}}

McJobs ==
  UNION {Both(f, NoMap) : f \in {AV, AVOffset, AVLate, AVOpenGop, AVNoSync, AVStill, TwoVideos,
                                 AVShort, AVText, AVEmptyText, TextOnly, NoChunks, AudioOnly,
                                 FragAV, FragShort, FragTruns, FragUnknown}}
    \cup Both(AVOffset, 1 :> 3) \cup Both(FragAV, 2 :> 3)
    \cup Both(FragTorn, NoMap) \cup Both(FragTail, NoMap) \cup Both(FlatTail, NoMap)
    \cup Both(AddAtom(EmptyFile, DataBox(5)), NoMap)
=============================================================================
