----------------------------- MODULE MCSensorDemo ---------------------------
EXTENDS SensorDemo

CONSTANTS person, pose, none

Tasks == <<person, pose>>
=============================================================================
