--------------------------- MODULE MCSerialSession ---------------------------
\* The instances of SerialSession that TLC checks; the .cfg files give the
\* constants their values.
EXTENDS SerialSession

\* The session drives its port as SerialConnection says; a search ends by itself, a device
\* that stays is had back and one that stays away is noticed (tryReconnect()).
LinkRecovers == IsPort /\ SearchEnds /\ ComesBackByItself /\ AbsenceNoticed
=============================================================================
