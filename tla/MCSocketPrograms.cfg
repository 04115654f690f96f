SPECIFICATION Spec
INVARIANTS NoMisuse CleanExit ReportTrue
PROPERTIES ClientFinishes PeerEndNoticed
CHECK_DEADLOCK FALSE
