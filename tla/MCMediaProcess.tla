---------------------------- MODULE MCMediaProcess ----------------------------
\* Values for model checking MediaProcess.
EXTENDS MediaProcess
=============================================================================
