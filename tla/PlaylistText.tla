---------------------------- MODULE PlaylistText ----------------------------
\* The texts of a video's playlists (libxmirror/lib/airplay_video.c), from the
\* master playlist the client publishes to what the media player reads: the
\* choice of one audio language, the table of media playlists, the store they
\* are kept in, and the expansion of YouTube's condensed form.
\*
\* A master playlist is a sequence of lines; a line names a media playlist by
\* its path (a sequence of segments), and an audio line that YouTube dubbed its
\* language.  A media playlist is a sequence of symbols, a tag or a character.
EXTENDS Integers, Sequences, SequencesExt, FiniteSets, FiniteSetsExt, Folds

CONSTANTS
    Masters,    \* the master playlists a client may publish
    Medias,     \* the media playlists, as the client means them
    Preferred   \* the users' lists of languages (-lang): sequences of codes

VARIABLES
    lang,       \* the list of the user, which the session copies
    language,   \* language_name of the session, or <<>>
    original,   \* the master playlist the client published, or <<>>
    stored,     \* master_playlist, as the media player will read it
    meant,      \* what the client publishes under each path
    items       \* media_data_store: one record for each uri of the table

playlistVars == <<lang, language, original, stored, meant, items>>

\* Where the first i of from..Len(s) with Test(i) is; Len(s) + 1 if there is none
From(s, from, Test(_)) ==
    LET found == {i \in from..Len(s) : Test(i)}
    IN IF found = {} THEN Len(s) + 1 ELSE Min(found)

-----------------------------------------------------------------------------
\* The languages of a master playlist

IsDubbed(line) == line.dubbed

Dubbed(m) == SelectSeq(m, IsDubbed)

\* The entries are listed once for each quality, in the same order of languages.
\* The last one is not counted, so a single entry would divide by zero.
LanguageCount(entries) ==
    LET copies == Cardinality({i \in 1..(Len(entries) - 1) : entries[i].code = entries[1].code})
    IN Len(entries) \div copies

\* What master_playlist_process_language asserts of the entries
IsRegular(m) ==
    LET entries == Dubbed(m)
        count == LanguageCount(entries)
    IN entries # <<>> =>
         /\ Len(entries) > 1
         /\ \A i \in (count + 1)..Len(entries) : entries[i].code = entries[i - count].code
         /\ \E i \in 1..(Len(m) - Len(entries) + 1) : SubSeq(m, i, i + Len(entries) - 1) = entries

\* The language the session asked for by its name, or the one marked default
Fallback(entries, count) ==
    Max({i \in 1..count : IF language # <<>> THEN entries[i].name = language
                                              ELSE entries[i].default})

\* The first of the user's languages that is offered: two letters are compared
Matching(entries, count, wish) == {i \in 1..count : entries[i].code[1] = wish}

Chosen(entries, count) ==
    LET offered == {w \in 1..Len(lang) : Matching(entries, count, lang[w]) # {}}
    IN IF offered = {} THEN entries[Fallback(entries, count)]
       ELSE entries[Min(Matching(entries, count, lang[Min(offered)]))]

Choice(m) == Chosen(Dubbed(m), LanguageCount(Dubbed(m)))

\* select_master_playlist_language: the other languages' lines go
OfOneLanguage(m) ==
    IF Dubbed(m) = <<>> THEN m
    ELSE LET code == Choice(m).code
             Stays(line) == line.dubbed => line.code = code
         IN SelectSeq(m, Stays)

-----------------------------------------------------------------------------
\* The table of media playlists and their store

HasUri(line) == line.path # <<>>

\* create_media_uri_table: every uri with the prefix, up to its "m3u8"
UriTable(m) == [i \in 1..Len(SelectSeq(m, HasUri)) |-> SelectSeq(m, HasUri)[i].path]

\* create_media_data_store: each uri under its own number, with nothing stored
StoreOf(table) ==
    [i \in 1..Len(table) |-> [path |-> table[i], num |-> i, text |-> <<>>,
                              about |-> [count |-> 0, duration |-> 0, endlist |-> FALSE]]]

\* adjust_master_playlist: the client's prefix becomes the server's own
Adjusted(m) == [i \in 1..Len(m) |-> [m[i] EXCEPT !.local = HasUri(m[i])]]

IsExtInf(t) == t[1] = "#EXTINF"
IsTag(t) == t[1] \in {"#EXTM3U", "#EXTINF", "#EXT-X-ENDLIST", "#YT-EXT-CONDENSED-URL"}

\* analyze_media_playlist: the chunks, their duration, and whether the list ends
Analysis(text) ==
    LET chunks == SelectSeq(text, IsExtInf)
    IN [count |-> Len(chunks),
        duration |-> FoldLeft(LAMBDA sum, t : sum + t[2], 0, chunks),
        endlist |-> chunks # <<>> /\ <<"#EXT-X-ENDLIST">> \in ToSet(text)]

\* store_media_playlist: a playlist listed before is kept once, under the first
\* of its numbers
NumberOf(table, num) ==
    From(table, 1, LAMBDA i : i = num \/ table[i].path = table[num].path)

StoreMedia(num, text) ==
    IF NumberOf(items, num) # num
    THEN items' = [items EXCEPT ![num].num = NumberOf(items, num)]
    ELSE items' = [items EXCEPT ![num].text = text, ![num].about = Analysis(text)]

\* get_media_playlist: the first uri that contains the url the player asks for,
\* which begins with the "/" of a segment and ends, like every uri, in "m3u8"
HasUrl(path, url) == IsSuffix(url, path)

ItemFor(url) ==
    LET i == From(items, 1, LAMBDA k : HasUrl(items[k].path, url))
    IN IF i > Len(items) THEN <<>> ELSE <<items[items[i].num]>>

-----------------------------------------------------------------------------
\* The condensed form: a header with BASE-URI, PARAMS and PREFIX, and chunks that
\* are the prefix and the values of the parameters, separated by "/"

Slash == <<"/">>
OccursAt(s, part, i) == i + Len(part) - 1 <= Len(s) /\ SubSeq(s, i, i + Len(part) - 1) = part

\* Mutant: the separator is kept as well.
InsertKeep(text, params, done, k) ==
    LET end == From(text, done.old,
                    LAMBDA i : IF k = Len(params) THEN IsTag(text[i]) ELSE text[i] = Slash)
    IN [new |-> done.new \o <<Slash>> \o params[k] \o <<Slash>> \o SubSeq(text, done.old, end - 1),
        old |-> end]

\* One parameter is written before its slice.  The last slice reaches to the
\* next line, any other to the next separator, which goes.
Insert(text, params, done, k) ==
    LET isLast == k = Len(params)
        end == From(text, done.old, LAMBDA i : IF isLast THEN IsTag(text[i]) ELSE text[i] = Slash)
    IN [new |-> done.new \o <<Slash>> \o params[k] \o <<Slash>> \o SubSeq(text, done.old, end - 1),
        old |-> IF isLast THEN end ELSE end + 1]

\* One chunk, from its #EXTINF: as many symbols are copied as lie before the
\* prefix, which the base uri replaces.
Expand(text, header, done, chunk) ==
    LET start == From(text, chunk, LAMBDA i : OccursAt(text, header.prefix, i))
        length == start - chunk
        opened == [new |-> done.new \o SubSeq(text, done.old, done.old + length - 1) \o header.base,
                   old |-> done.old + length + Len(header.prefix)]
    IN FoldLeft(LAMBDA d, k : Insert(text, header.params, d, k),
                opened, [k \in 1..Len(header.params) |-> k])

\* adjust_yt_condensed_playlist
Uncondensed(text) ==
    IF text[2][1] # "#YT-EXT-CONDENSED-URL" THEN text
    ELSE LET header == text[2][2]
             chunks == SetToSortSeq({i \in 1..Len(text) : IsExtInf(text[i])}, <)
             head == SubSeq(text, 1, chunks[1] - 1)
             whole == FoldLeft(LAMBDA d, i : Expand(text, header, d, i),
                               [new |-> head, old |-> chunks[1]], chunks)
         IN whole.new \o SubSeq(text, whole.old, Len(text))

\* The size the code allocates for it beforehand; a separator and every symbol
\* is one character here
Allotted(text) ==
    IF text[2][1] # "#YT-EXT-CONDENSED-URL" THEN Len(text)
    ELSE LET header == text[2][2]
             params == FoldLeft(LAMBDA sum, p : sum + Len(p) + 1, -1, header.params)
         IN Len(text) + Analysis(text).count * (Len(header.base) + params)

-----------------------------------------------------------------------------
\* The client

\* What a media playlist reads, condensed or not
ChunkLine(p, c) ==
    IF p.condensed
    THEN p.header.prefix \o FoldLeft(LAMBDA s, k : IF k = 1 THEN c.slices[1]
                                                    ELSE s \o <<Slash>> \o c.slices[k],
                                     <<>>, [k \in 1..Len(c.slices) |-> k])
    ELSE p.header.base \o FoldLeft(LAMBDA s, k : s \o <<Slash>> \o p.header.params[k] \o <<Slash>>
                                                    \o c.slices[k],
                                   <<>>, [k \in 1..Len(c.slices) |-> k])

Chunks(p) ==
    FoldLeft(LAMBDA s, c : s \o <<<<"#EXTINF", c.seconds>>>> \o ChunkLine(p, c), <<>>, p.chunks)

Header(p, isCondensed) ==
    IF isCondensed THEN <<<<"#EXTM3U">>, <<"#YT-EXT-CONDENSED-URL", p.header>>>> ELSE <<<<"#EXTM3U">>>>

Text(p) ==
    Header(p, p.condensed) \o Chunks(p) \o (IF p.ended THEN <<<<"#EXT-X-ENDLIST">>>> ELSE <<>>)

\* What the player is meant to read: the same chunks in full under the header
InFull(p) ==
    Header(p, p.condensed) \o Chunks([p EXCEPT !.condensed = FALSE])
        \o (IF p.ended THEN <<<<"#EXT-X-ENDLIST">>>> ELSE <<>>)

\* http_handler_hls: what the media player reads when it asks for a url
PlayerReads(url) == IF ItemFor(url) = <<>> THEN <<>> ELSE Uncondensed(ItemFor(url)[1].text)

Names(m) == {line.name : line \in {l \in ToSet(m) : l.dubbed}}

ASSUME PlaylistAssumption ==
    /\ \A m \in Masters : IsRegular(m) /\ \E i \in 1..Len(m) : HasUri(m[i])
    /\ \A p \in Medias : /\ p.chunks # <<>>
                         /\ \A c \in ToSet(p.chunks) : Len(c.slices) = Len(p.header.params)

PlaylistInit ==
    /\ lang \in Preferred
    /\ language = <<>>
    /\ original = <<>>
    /\ stored = <<>>
    /\ meant = <<>>
    /\ items = <<>>

SetLanguage(name) == language' = name

\* A setProperty selects one of the languages before the master playlist comes
SelectLanguage ==
    /\ original = <<>> /\ language = <<>>
    /\ \E m \in Masters :
         \E name \in Names(m) :
            /\ \A other \in Masters : Dubbed(other) = <<>> \/ name \in Names(other)
            /\ SetLanguage(name)
    /\ UNCHANGED <<lang, original, stored, meant, items>>

\* The FCUP answer with the master playlist
ReceiveMaster ==
    /\ original = <<>>
    /\ \E m \in Masters :
         /\ original' = m
         /\ SetLanguage(IF Dubbed(m) = <<>> THEN language ELSE Choice(m).name)
         /\ stored' = Adjusted(OfOneLanguage(m))
         /\ items' = StoreOf(UriTable(OfOneLanguage(m)))
    /\ UNCHANGED <<lang, meant>>

\* The FCUP answers with the media playlists, in the order of the table
Missing == From(items, 1, LAMBDA i : items[i].text = <<>> /\ items[i].num = i)

ReceiveMedia ==
    /\ Missing <= Len(items)
    /\ LET path == items[Missing].path
       IN \E p \in Medias :
            /\ path \in DOMAIN meant => p = meant[path]
            /\ meant' = [q \in DOMAIN meant \union {path} |-> IF q = path THEN p ELSE meant[q]]
            /\ StoreMedia(Missing, Text(p))
    /\ UNCHANGED <<lang, language, original, stored>>

PlaylistNext == SelectLanguage \/ ReceiveMaster \/ ReceiveMedia

PlaylistSpec == PlaylistInit /\ [][PlaylistNext]_playlistVars

-----------------------------------------------------------------------------
\* The master playlist the player reads offers one language of audio, in every
\* quality: the first of the user's languages that is offered, else the one the
\* client selected, else the client's default; and all that is not dubbed.
OneLanguageIsLeft ==
    LET entries == Dubbed(original)
        Offers(wish) == \E i \in 1..Len(entries) : entries[i].code[1] = wish
        left == {line.code : line \in {l \in ToSet(stored) : l.dubbed}}
    IN stored # <<>> =>
         /\ {l.path : l \in {k \in ToSet(stored) : ~k.dubbed}}
              = {l.path : l \in {k \in ToSet(original) : ~k.dubbed}}
         /\ entries # <<>> =>
              /\ Cardinality(left) = 1
              /\ \A w \in 1..Len(lang) :
                   Offers(lang[w]) /\ (\A v \in 1..(w - 1) : ~Offers(lang[v]))
                     => \A code \in left : code[1] = lang[w]
              /\ \A code \in left :
                   {l.path : l \in {k \in ToSet(stored) : k.dubbed}}
                     = {l.path : l \in {k \in ToSet(original) : k.dubbed /\ k.code = code}}

\* Once the video plays, every uri the master playlist gives the player leads to
\* the playlist the client published under it, in full, in the space allotted to
\* it, and with its number of chunks and its duration.
PlayerReadsWhatIsMeant ==
    (stored # <<>> /\ Missing > Len(items)) =>
        \A line \in ToSet(stored) :
            HasUri(line) =>
                /\ line.local
                /\ ItemFor(line.path) # <<>>
                /\ LET found == ItemFor(line.path)[1]
                       p == meant[line.path]
                   IN /\ PlayerReads(line.path) = InFull(p)
                      /\ Len(InFull(p)) = Allotted(found.text)
                      /\ found.about.count = Len(p.chunks)
                      /\ found.about.duration = FoldLeft(LAMBDA s, c : s + c.seconds, 0, p.chunks)

PlaylistsAreTrue == OneLanguageIsLeft /\ PlayerReadsWhatIsMeant

=============================================================================
