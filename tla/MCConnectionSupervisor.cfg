\* Four inputs: one that starts a probe, one during it and two more queued
\* behind them; two leases; the four delays of RETRY_DELAYS_MS.
SPECIFICATION FairSpec
CONSTANTS
    MaxInputs = 4
    MaxLeases = 2
    MaxRung = 4
INVARIANTS
    QuietMatchesIntent
    LeaseEndsWithAttempt
    LadderHolds
PROPERTIES
    GenerationsAreFresh
    DisconnectHonoured
    WantedIsTried
\* Without inputs an idle or connected environment stays as it is.
CHECK_DEADLOCK FALSE
