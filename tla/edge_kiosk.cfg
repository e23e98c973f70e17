\* The web kiosk: a scan every two ticks, up to two faces in a frame.
\* The system stops once the capture thread and stop() have ended.
CONSTANTS
    Interval = 2
    MaxCrops = 2
SPECIFICATION FairSpec
INVARIANTS
    TypeOK
    VerifyingIsInFlight
    SuccessIsOfLastRequest
PROPERTIES
    NoJobAfterShutdown
    Resolved
    StopReleasesCamera
CHECK_DEADLOCK FALSE
