---------------------------- MODULE RepeatWindows ----------------------------
(***************************************************************************)
(* The repeat policy every planner shares (src/src/route.rs and            *)
(* src/src/bridge.rs): which tracks count as a repeat of one another, and  *)
(* how far apart two repeats must stand in a route.                        *)
(*                                                                         *)
(* A track is a record                                                     *)
(*   [artist |-> key, repeatKeys |-> set of keys, album |-> key],          *)
(* a route a sequence of track indices, `tracks` the function from index   *)
(* to record, and `w` the record [artist, album, track] of the three       *)
(* windows (0 switches a window off).                                      *)
(***************************************************************************)
EXTENDS Integers, Sequences, FiniteSets, SequencesExt

CONSTANTS
  NoKey,            \* the empty string: a track without artist or album
  VariousArtists    \* the compilation pseudo artist

ASSUME KeysAssumption == NoKey # VariousArtists

Larger(a, b) == IF a >= b THEN a ELSE b

SaturatingSub(a, b) == IF a >= b THEN a - b ELSE 0

Gap(i, j) == IF i >= j THEN i - j ELSE j - i

-----------------------------------------------------------------------------
\* Explicit repeat keys decide when both tracks have them; otherwise the plain
\* artist decides, and a compilation or unnamed artist never repeats.
ArtistsRepeat(left, right) ==
  IF left.repeatKeys = {} \/ right.repeatKeys = {}
  THEN /\ VariousArtists \notin {left.artist, right.artist}
       /\ left.artist # NoKey
       /\ left.artist = right.artist
  ELSE left.repeatKeys \cap right.repeatKeys # {}

AlbumsRepeat(left, right) == left.album # NoKey /\ left.album = right.album

\* The three windows, seen from one pair of route members `a` and `b` that
\* stand `distance` positions apart.
ArtistAndAlbumApart(tracks, w, a, b, distance) ==
  /\ ArtistsRepeat(tracks[a], tracks[b]) => distance > w.artist
  /\ AlbumsRepeat(tracks[a], tracks[b]) => distance > w.album

SameTrackApart(w, a, b, distance) == a = b => distance > w.track

\* A window of 0 is off; two different positions are at least 1 apart, so the
\* explicit `window > 0` tests of the code need no conjunct of their own.
PairSafe(tracks, w, a, b, distance) ==
  /\ ArtistAndAlbumApart(tracks, w, a, b, distance)
  /\ SameTrackApart(w, a, b, distance)

RepeatWindowsSafeAt(route, tracks, w, position) ==
  \A other \in DOMAIN route \ {position} :
    ArtistAndAlbumApart(tracks, w, route[position], route[other],
                        Gap(position, other))

PositionRepeatSafe(route, tracks, w, position) ==
  /\ RepeatWindowsSafeAt(route, tracks, w, position)
  /\ \A other \in DOMAIN route \ {position} :
       SameTrackApart(w, route[position], route[other], Gap(position, other))

\* The widest window that applies to a pair, 0 when none does.
RequiredWindow(tracks, w, a, b) ==
  Larger(IF ArtistsRepeat(tracks[a], tracks[b]) THEN w.artist ELSE 0,
         Larger(IF AlbumsRepeat(tracks[a], tracks[b]) THEN w.album ELSE 0,
                IF a = b THEN w.track ELSE 0))

-----------------------------------------------------------------------------
\* The additions a source route needs, as a recurrence over its members: the
\* total before a member is what the member before it, or any earlier member it
\* repeats, leaves it with.  RepeatSpacing has the loops that compute it.
RepeatSpacingTotals(source, tracks, w) ==
  LET Window(l, r) == RequiredWindow(tracks, w, source[l], source[r])
      total[r \in 1..Len(source)] ==
        IF r = 1 THEN 0
        ELSE Max({total[r - 1]} \cup
                 {total[l] + SaturatingSub(Window(l, r) + 1, r - l) :
                    l \in {m \in 1..(r - 1) : Window(m, r) > 0}})
  IN total

MinimumRepeatSpacing(source, tracks, w) ==
  IF source = <<>> THEN 0
  ELSE RepeatSpacingTotals(source, tracks, w)[Len(source)]
=============================================================================
