\* Every rate on every day of its years, and the calendar they are told in.
\* A walk stops at the end of its last year.
CHECK_DEADLOCK FALSE
CONSTANTS
    Parts = {"calendar", "west", "east", "plains", "illinois", "netBilling"}
    CreditedByDay = {"sce", "pge"}
    CreditedByHour = {"sce", "pge"}
SPECIFICATION PartsSpec
INVARIANTS
    TariffsInv
