------------------------------ MODULE Catalogs ------------------------------
(***************************************************************************)
(* The catalog of a presentation (catalog.rs) and the moov it is read from *)
(* and written to (init.rs).  A catalog names a configuration for every    *)
(* track; the single-track catalog in the uuid box of a segment is the     *)
(* part of it that describes that track.                                   *)
(*                                                                         *)
(* A rendition is named {group}{track id}, so its key is a group and the   *)
(* id it was named for.  The configuration is reduced to the track, its    *)
(* timescale and its codec.                                                *)
(***************************************************************************)
EXTENDS Integers, Sequences, FiniteSets, TLC
LOCAL INSTANCE SequencesExt
LOCAL INSTANCE FiniteSetsExt

\* The elements of a set by their weights, which tell them apart.
AscendingBy(S, weight) ==
  [i \in 1..Cardinality(S) |->
     CHOOSE x \in S : Cardinality({y \in S : weight[y] <= weight[x]}) = i]

\* A set of numbers in ascending order.
Ascending(S) == AscendingBy(S, [x \in S |-> x])

\* Groups this version can describe in a moov; any other group is opaque.
Known == {"video", "audio"}

NoDisplay == "none"

\* A catalog: [rend: key -> [track, scale, codec], display].
EmptyCatalog == [rend |-> <<>>, display |-> NoDisplay]

\* Every track, whatever its group.
TracksOf(cat) ==
  {[group |-> k[1], track |-> cat.rend[k].track, scale |-> cat.rend[k].scale] :
     k \in DOMAIN cat.rend}

\* The order tracks are visited in: video, audio, then the newer groups.
Rank(group) == CASE group = "video" -> 0 [] group = "audio" -> 1 [] OTHER -> 2

NoTrack == [group |-> "none", track |-> 0, scale |-> 0]

FirstTrack(tracks) ==
  IF tracks = {} THEN NoTrack
  ELSE CHOOSE t \in tracks : \A u \in tracks : Rank(t.group) <= Rank(u.group)

TrackOf(cat, id) == FirstTrack({t \in TracksOf(cat) : t.track = id})

IsKnown(t) == t.group \in Known

\* A slip: every group is kept, as if one segment described them all.
FilterNothing(cat, id) == cat

\* Without a rendition the group goes, and the display hints go with video.
FilterToTrack(cat, id) ==
  LET kept == {k \in DOMAIN cat.rend : cat.rend[k].track = id}
  IN  [rend    |-> [k \in kept |-> cat.rend[k]],
       display |-> IF \E k \in kept : k[1] = "video" THEN cat.display ELSE NoDisplay]

\* A rendition of the same name replaces, the first display hints stay.
MergeCatalog(agg, cat) ==
  [rend    |-> cat.rend @@ agg.rend,
   display |-> IF agg.display = NoDisplay THEN cat.display ELSE agg.display]

\* --remap-track on a catalog read from a moov, which holds known groups only.
RemapTrackIds(cat, map) ==
  LET To(k) == IF cat.rend[k].track \in DOMAIN map
               THEN <<k[1], map[cat.rend[k].track]>> ELSE k
      Moved(k) == IF cat.rend[k].track \in DOMAIN map
                  THEN [cat.rend[k] EXCEPT !.track = map[@]] ELSE cat.rend[k]
  IN  [cat EXCEPT !.rend =
         [key \in {To(k) : k \in DOMAIN cat.rend} |->
            Moved(CHOOSE k \in DOMAIN cat.rend : To(k) = key)]]

-----------------------------------------------------------------------------
(* The moov.  A trak is [track, handler, scale, codec, edits, stbl]: its   *)
(* edits are [dur, empty] and its stbl a table of SampleTable.             *)

MovieScale == 1000

VideoCodecs == {"avc1", "av01"}
AudioCodecs == {"opus", "mp4a"}

\* The group of a trak, and none for a handler or a codec this version
\* cannot describe: the catalog leaves the track out, without an error.
GroupOfTrak(trak) ==
  CASE trak.handler = "vide" /\ trak.codec \in VideoCodecs -> "video"
    [] trak.handler = "soun" /\ trak.codec \in AudioCodecs -> "audio"
    [] OTHER -> "none"

CatalogFromMoov(moov) ==
  LET described == {i \in DOMAIN moov.traks : GroupOfTrak(moov.traks[i]) # "none"}
      Key(i)    == <<GroupOfTrak(moov.traks[i]), moov.traks[i].track>>
  IN  [rend |-> [key \in {Key(i) : i \in described} |->
                   LET t == moov.traks[CHOOSE i \in described : Key(i) = key]
                   IN  [track |-> t.track, scale |-> t.scale, codec |-> t.codec]],
       display |-> NoDisplay]

\* The trak of a known track, with empty edits and an empty table.
BaseTrak(cat, key, noTable) ==
  [track   |-> cat.rend[key].track,
   handler |-> IF key[1] = "video" THEN "vide" ELSE "soun",
   scale   |-> cat.rend[key].scale,
   codec   |-> cat.rend[key].codec,
   edits   |-> <<>>,
   stbl    |-> noTable]

\* The moov of an init segment: a trak for each known track, by id.
InitMoov(cat, noTable) ==
  LET known == {k \in DOMAIN cat.rend : k[1] \in Known}
      ids   == Ascending({cat.rend[k].track : k \in known})
      Key(id) == CHOOSE k \in known : cat.rend[k].track = id
  IN  [scale |-> MovieScale,
       next  |-> IF ids = <<>> THEN 1 ELSE Last(ids) + 1,
       traks |-> [i \in DOMAIN ids |-> BaseTrak(cat, Key(ids[i]), noTable)]]

-----------------------------------------------------------------------------
(* Edit lists.                                                             *)

\* Leading empty edits, from the movie's timescale to the track's, rounded to
\* the nearest tick; the edits after them contribute nothing.
StartOffset(trak, movieScale) ==
  LET lead == {n \in 0..Len(trak.edits) : \A i \in 1..n : trak.edits[i].empty}
      sum[n \in 0..Len(trak.edits)] ==
        IF n = 0 THEN 0 ELSE sum[n - 1] + trak.edits[n].dur
  IN  IF trak.scale = 0 \/ movieScale = 0 THEN 0
      ELSE (sum[Max(lead)] * trak.scale + movieScale \div 2) \div movieScale

\* To the movie's timescale, rounded to the nearest tick.
RescaleToMovie(ticks, scale) ==
  IF scale = 0 THEN 0 ELSE (ticks * MovieScale + scale \div 2) \div scale

\* An empty edit and the media, or no edit list at offset zero.
CanonicalEdits(start, media, scale) ==
  IF start = 0 THEN <<>>
  ELSE << [dur |-> RescaleToMovie(start, scale), empty |-> TRUE],
          [dur |-> RescaleToMovie(media, scale), empty |-> FALSE] >>
=============================================================================
