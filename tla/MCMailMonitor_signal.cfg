CONSTANT MaxMails = 1
SPECIFICATION FairSpec
CHECK_DEADLOCK FALSE
PROPERTY SignalStopsService
