---------------------------- MODULE MCNpmInstall ----------------------------
\* Two versions, four installs of which three may fail.
EXTENDS NpmInstall

CONSTANTS v1, v2
=============================================================================
