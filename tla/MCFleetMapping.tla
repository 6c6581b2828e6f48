----------------------------- MODULE MCFleetMapping -----------------------------
\* The instances of FleetMapping that TLC checks; the .cfg files give the
\* constants their values.
EXTENDS FleetMapping

\* The mapping comes to an end, and its end accounts for each device LD still lists
\* (onLoaderTimeout(), closeRun()).
MappingIsTold == EndTellsAll /\ MappingEnds
=============================================================================
