--------------------------- MODULE MCMirrorShape ----------------------------
\* A wide and a tall picture, two monitors, and places saved on a third and on a taller one.
EXTENDS MirrorShape

SamplePictures == {<<2, 1>>, <<1, 2>>}
SampleMonitors == {<<0, 0, 16, 10>>, <<16, 0, 24, 12>>}
SampleOld == {<<30, 0, 38, 6>>, <<17, 2, 23, 20>>}
SampleTarget == <<16, 0, 24, 12>>
SampleFrame == <<2, 2>>
SampleLeast == <<2, 2>>
SamplePlaces == {<<2, 2, 12, 8>>}
SampleDrags == {<<"topleft", -2, 2>>, <<"right", 2, 0>>}

=============================================================================
