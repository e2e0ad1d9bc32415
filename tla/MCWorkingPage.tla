--------------------------- MODULE MCWorkingPage ---------------------------
EXTENDS WorkingPage
MCRom == [p \in Page |-> "a"]
=============================================================================
