----------------------------- MODULE StoreOrder -----------------------------
(***************************************************************************)
(* The order in which the tracks of one GoP are laid out in a stored       *)
(* stream.                                                                 *)
(***************************************************************************)
EXTENDS Integers, Sequences

LOCAL INSTANCE SequencesExt

\* The keys of a BTreeMap<u32, _> (GopSegment::tracks).
ByNumber(tracks) == SetToSortSeq(tracks, <)

\* The decimal digits of a track id, most significant first.
Digits[n \in Nat] == IF n < 10 THEN <<n>> ELSE Append(Digits[n \div 10], n % 10)

\* Strings compare at the first place they differ; a prefix comes first.
StringBefore(m, n) ==
  LET a == Digits[m]
      b == Digits[n]
      differ == {i \in DOMAIN a \cap DOMAIN b : a[i] # b[i]}
  IN  IF differ = {} THEN Len(a) < Len(b)
      ELSE \E i \in differ : (\A j \in differ : i <= j) /\ a[i] < b[i]

\* sort.Strings over the keys of Event.Tracks (parseEvents, go/runtime.go).
ByString(tracks) == SetToSortSeq(tracks, StringBefore)
=============================================================================
