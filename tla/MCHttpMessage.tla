--------------------------- MODULE MCHttpMessage ----------------------------
\* A request with three headers, of several characters and of none, and one that names a header
\* twice and has a body; the buffer is shorter than either.  A protocol has three
\* characters.
EXTENDS HttpMessage

SampleCharacters ==
    {"/", "u", "v", "w", "H", "R", "0", "1", "2", "3", "4", "5", "a", "b", "c", "d", "x", "y",
     "T", "S", "p", "s", "m", "n"}
SampleNumerals == [n \in 0..2 |-> <<<<"0", "1", "2">>[n + 1]>>]

SampleRequests ==
    {[url |-> <<"u", "v">>, protocol |-> <<"H", "1", "0">>,
      headers |-> <<<<"a", "b">>, <<"1", "2">>, <<"c">>, <<>>, <<"d">>, <<"3">>>>, body |-> <<>>],
     [url |-> <<"w">>, protocol |-> <<"R", "1", "1">>,
      headers |-> <<<<"a">>, <<"4">>, <<"a">>, <<"5">>>>, body |-> <<"x", "y">>]}
SampleAnswers ==
    {[headers |-> <<<<ContentType, <<"p">>>>>>, body |-> <<>>, disconnect |-> FALSE],
     [headers |-> <<<<<<"S">>, <<"s">>>>>>, body |-> <<>>, disconnect |-> TRUE],
     [headers |-> <<<<<<"S">>, <<"s">>>>, <<ContentType, <<"p">>>>>>, body |-> <<"m", "n">>, disconnect |-> FALSE]}

=============================================================================
