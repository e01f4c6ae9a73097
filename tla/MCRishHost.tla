---------------------------- MODULE MCRishHost ----------------------------
\* Instances of RishHost.
EXTENDS RishHost

\* A command with redirected streams, one with only its errors on a terminal, one
\* that is fed from a pipe, and an interactive shell.
MCModes == {{}, {"err"}, {"out", "err"}, Streams}
=============================================================================
