--------------------------------- MODULE Hls ---------------------------------
(***************************************************************************)
(* The byte ranges of the HLS playlists (hls.rs), grouped from the         *)
(* fragments of a flat file that Convert has written.  A range is [offset, *)
(* size, dur, count].  The init segments and their names, which are CIDs,  *)
(* are left out.                                                           *)
(***************************************************************************)
EXTENDS Convert
LOCAL INSTANCE SequencesExt

NoRange == [offset |-> 0, size |-> 0, dur |-> 0, count |-> 0]

Grow(range, f) ==
  [offset |-> IF range.size = 0 THEN f.offset ELSE range.offset,
   size |-> range.size + f.size, dur |-> range.dur + f.dur, count |-> range.count + 1]

Close(ranges, range) == IF range.size > 0 THEN Append(ranges, range) ELSE ranges

\* group_fragments_video: a sync sample closes the range before it.
GroupVideo(fs) ==
  LET Take(s, f) == IF f.sync THEN [done |-> Close(s.done, s.cur), cur |-> Grow(NoRange, f)]
                    ELSE [s EXCEPT !.cur = Grow(@, f)]
      all == FoldLeft(Take, [done |-> <<>>, cur |-> NoRange], fs)
  IN  Close(all.done, all.cur)

\* group_fragments_audio: two seconds close a range.  The fragments are only
\* counted together: whether they follow each other in the file is not looked at.
GroupAudio(fs, scale) ==
  LET Take(s, f) == LET cur == Grow(s.cur, f)
                    IN  IF cur.dur >= 2 * scale
                        THEN [done |-> Append(s.done, cur), cur |-> NoRange]
                        ELSE [s EXCEPT !.cur = cur]
      all == FoldLeft(Take, [done |-> <<>>, cur |-> NoRange], fs)
  IN  Close(all.done, all.cur)

\* analyze_input: the playlist of each track of the flat file.
Playlist(k) ==
  IF source.plans[k].video THEN GroupVideo(frags[k])
                           ELSE GroupAudio(frags[k], source.plans[k].scale)

-----------------------------------------------------------------------------
(* Properties.                                                             *)

\* The range holds the fragments it counts, from the i-th on, and nothing else.
Holds(fs, i, range) ==
  LET last == i + range.count - 1
  IN  /\ last <= Len(fs)
      /\ fs[i].offset = range.offset
      /\ fs[last].offset + fs[last].size = range.offset + range.size

Playable(fs, range) == \E i \in DOMAIN fs : Holds(fs, i, range)

Published == pc = "done" /\ job.form = "flat"

\* hls.rs:6, flat.rs:27: playlists point at byte ranges of the flat file, and
\* every range is a run of whole fragments of its track.
EveryRangePlayable ==
  Published =>
    \A k \in DOMAIN source.plans : \A j \in DOMAIN Playlist(k) :
      Playable(frags[k], Playlist(k)[j])
=============================================================================
