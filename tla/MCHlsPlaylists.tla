--------------------------- MODULE MCHlsPlaylists ---------------------------
\* Three slots for three videos: the table fills up and a neighbour is evicted.
\* Two sessions, so that an answer can be to an earlier request of its session or
\* to one of another.  A master playlist lists one playlist, or three places with
\* the same one first and last.
EXTENDS HlsPlaylists

CONSTANTS a, b
NamesAreAlike == Permutations(Uuids) \cup Permutations(Sessions)
MCTables == {<<a>>, <<b, a, b>>}

=============================================================================
