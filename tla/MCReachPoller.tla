---------------------------- MODULE MCReachPoller ----------------------------
EXTENDS ReachPoller
=============================================================================
