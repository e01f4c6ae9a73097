-------------------------- MODULE MCRishTerminal --------------------------
\* Instances of RishTerminal.
EXTENDS RishTerminal

\* A command with redirected streams, one that is fed from a pipe, an interactive shell.
MCModes == {{}, {"out", "err"}, Streams}

\* A command whose errors alone are redirected.
MCRedirected == {{"in", "out"}}
=============================================================================
