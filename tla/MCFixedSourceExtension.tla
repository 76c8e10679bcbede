------------------------ MODULE MCFixedSourceExtension ------------------------
(* Three sources and three candidates; artists collide within and across the  *)
(* two, one track credits two artists.                                        *)
EXTENDS FixedSourceExtension

Track(artist, keys, album) ==
  [artist |-> artist, repeatKeys |-> keys, album |-> album]

\* Tracks by artist; a two-letter artist stands for a joint credit.
Credits(a) == IF a = "ab" THEN {"a", "b"} ELSE IF a = "va" THEN {} ELSE {a}
Tracks(artists, albums) ==
  [i \in DOMAIN artists |->
     Track(IF artists[i] = "va" THEN VariousArtists ELSE artists[i],
           Credits(artists[i]), albums[i])]

OwnAlbums == [i \in 1..6 |-> i]
SharedAlbums == <<1, 2, 2, 1, 2, 3>>
NoAlbums == <<NoKey, NoKey, NoKey, 4, 5, 6>>

BaseJob ==
  [tracks |-> Tracks(<<"a", "b", "a", "c", "a", "b">>, OwnAlbums),
   source |-> <<1, 2, 3>>, route |-> <<2, 1, 3>>, ranked |-> <<4, 5, 6>>,
   target |-> 5, maximum |-> NoMaximum, preserve |-> FALSE,
   windows |-> [artist |-> 1, album |-> 0, track |-> 0],
   shortlist |-> 256, varied |-> FALSE, guided |-> FALSE,
   shares |-> <<>>, support |-> <<>>,
   durations |-> [c \in {4, 5, 6} |-> 0], duration |-> {}]

ArtistPatterns ==
  {s \o c : s \in {<<"a", "a", "b">>, <<"a", "b", "c">>, <<"a", "a", "a">>,
                   <<"a", "ab", "va">>},
            c \in {<<"a", "b", "c">>, <<"c", "a", "a">>, <<"ab", "b", "d">>,
                   <<"d", "e", "f">>}}

\* Targets by number of tracks, in both routing modes.
CountJobs ==
  {[BaseJob EXCEPT !.tracks = Tracks(artists, albums),
                   !.windows = [artist |-> w[1], album |-> w[2], track |-> 0],
                   !.target = t[1], !.maximum = t[2], !.preserve = p] :
     artists \in ArtistPatterns, albums \in {OwnAlbums, SharedAlbums},
     w \in {<<1, 1>>, <<2, 0>>}, p \in BOOLEAN,
     t \in {<<4, NoMaximum>>, <<4, 3>>, <<5, NoMaximum>>, <<3, 2>>}}

\* Pools smaller than the ranking, reordered, with and without target shares.
PoolJobs ==
  {[BaseJob EXCEPT !.tracks = Tracks(artists, OwnAlbums), !.target = 5,
                   !.shortlist = s, !.varied = v[1], !.guided = v[2],
                   !.shares = v[3], !.support = [ch \in DOMAIN v[3] |-> {6}]] :
     artists \in ArtistPatterns, s \in {1, 2},
     v \in {<<TRUE, FALSE, <<>>>>, <<FALSE, TRUE, <<>>>>,
            <<FALSE, TRUE, <<30>>>>, <<TRUE, TRUE, <<0, 100>>>>}}

\* Targets by duration.
TimedJobs ==
  {[BaseJob EXCEPT !.tracks = Tracks(artists, albums), !.preserve = p,
                   !.durations = [c \in {4, 5, 6} |-> d[c - 3]],
                   !.duration = {[source |-> r[1], minimum |-> r[2],
                                  maximum |-> r[3]]}] :
     artists \in ArtistPatterns, albums \in {OwnAlbums, SharedAlbums},
     d \in {<<1, 2, 2>>, <<0, 1, 3>>, <<6, 2, 1>>, <<0, 0, 0>>}, p \in BOOLEAN,
     r \in {<<2, 4, 5>>, <<3, 3, 7>>, <<2, 6, 9>>, <<5, 3, 4>>}}

NamedJobs == CountJobs \cup PoolJobs \cup TimedJobs

\* Three sources whose album is not known.
UnnamedJobs ==
  {[BaseJob EXCEPT !.tracks = Tracks(<<"a", "b", "c", "d", "e", "f">>, NoAlbums),
                   !.windows = [artist |-> 0, album |-> 1, track |-> 0],
                   !.target = t, !.preserve = p] :
     t \in {4, 5}, p \in BOOLEAN}
=============================================================================
