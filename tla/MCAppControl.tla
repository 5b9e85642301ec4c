---------------------------- MODULE MCAppControl ----------------------------
\* Three worker objects are enough: the window's, the one it has just stopped
\* and one more that has ended and is not yet deleted.
EXTENDS AppControl

=============================================================================
