------------------------------ MODULE MCServer ------------------------------
\* The server with two slots, enough for a client that replaces another, for
\* a table that is full and for media beside a mirroring client.
EXTENDS Server

=============================================================================
