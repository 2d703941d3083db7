\* SDG&E's export credits of January.
\* A walk stops at the end of its last year.
CHECK_DEADLOCK FALSE
CONSTANTS
    Parts = {"netBilling"}
    CreditedByDay = {"sdge"}
    CreditedByHour = {}
SPECIFICATION PartsSpec
INVARIANTS
    CreditsTheDay
