---------------------------- MODULE MCClientAuth ----------------------------
\* Two clients, in every mode; three PINs, so that one made for the first
\* client is replaced, taken and left over.
EXTENDS ClientAuth, TLC

ClientsAreAlike == Permutations(Clients)

=============================================================================
