--------------------------- MODULE MCPlaylistText ---------------------------
\* A video with three dubbings in two qualities, one of plain renditions, and one
\* that lists a playlist twice; condensed and full media playlists.
EXTENDS PlaylistText

Line(path) == [dubbed |-> FALSE, code |-> <<>>, name |-> <<>>, default |-> FALSE,
               path |-> path, local |-> FALSE]
Audio(code, name, default, path) ==
    [dubbed |-> TRUE, code |-> code, name |-> <<name>>, default |-> default,
     path |-> path, local |-> FALSE]

English == <<"en", "US">>
Brazilian == <<"pt", "BR">>
Portuguese == <<"pt", "PT">>

DubbedMaster ==
    <<Line(<<>>),
      Audio(English, "English", TRUE, <<"low", "en">>), Audio(Brazilian, "Brasil", FALSE, <<"low", "br">>),
      Audio(Portuguese, "Portugal", FALSE, <<"low", "pt">>),
      Audio(English, "English", TRUE, <<"high", "en">>), Audio(Brazilian, "Brasil", FALSE, <<"high", "br">>),
      Audio(Portuguese, "Portugal", FALSE, <<"high", "pt">>),
      Line(<<"video">>)>>
PlainMaster == <<Line(<<>>), Line(<<"high", "en">>), Line(<<"en", "b">>), Line(<<"video">>)>>
TwiceMaster == <<Line(<<"b">>), Line(<<"a">>), Line(<<"b">>)>>
SampleMasters == {DubbedMaster, PlainMaster, TwiceMaster}

\* PREFIX is two characters long, as the size of the expansion presumes
SampleHeader == [base |-> <<<<"u">>>>, params |-> <<<<<<"p">>, <<"q">>>>, <<<<"r">>>>>>,
                 prefix |-> <<<<"~">>, <<"~">>>>]
SampleMedias ==
    {[condensed |-> c, header |-> SampleHeader, ended |-> c,
      chunks |-> IF c THEN <<[seconds |-> 2, slices |-> <<<<<<"1">>>>, <<<<"2">>, <<"3">>>>>>],
                             [seconds |-> 3, slices |-> <<<<<<"4">>>>, <<<<"5">>>>>>]>>
                      ELSE <<[seconds |-> 4, slices |-> <<<<<<"6">>>>, <<<<"7">>>>>>]>>] : c \in BOOLEAN}
SamplePreferred == {<<>>, <<"fr", "pt">>, <<"pt", "en">>, <<"en", "pt">>}

=============================================================================
