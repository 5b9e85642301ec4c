------------------------------ MODULE MCEngine ------------------------------
\* The engine with every option that adds behaviour switched on, two
\* connections and a feedback limit of one second.
EXTENDS Engine

=============================================================================
