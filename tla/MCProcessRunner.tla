--------------------------- MODULE MCProcessRunner ---------------------------
EXTENDS ProcessRunner
MCChunks == {1, 2}
=============================================================================
