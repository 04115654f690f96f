CONSTANTS
    MaxMails = 2
    Recipients = 2
    MaxSockets = 2
SPECIFICATION ServiceSpec
CHECK_DEADLOCK FALSE
INVARIANTS NoSleepOnMail DrainsBeforeExit TrueMeansSent NoTroubleDelivered
PROPERTY MailIsSent
