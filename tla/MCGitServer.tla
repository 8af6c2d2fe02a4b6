----------------------------- MODULE MCGitServer -----------------------------
EXTENDS GitServer
=============================================================================
