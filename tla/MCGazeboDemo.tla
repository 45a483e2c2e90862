---------------------------- MODULE MCGazeboDemo ----------------------------
EXTENDS GazeboDemo

CONSTANTS pose, remote

Tasks == <<pose, remote>>
Numbers == <<4, 7>>
=============================================================================
