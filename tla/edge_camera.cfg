\* The web kiosk whose camera works again when it is asked: one that cannot be
\* opened at the start is never asked again.
CONSTANTS
    Interval = 2
    MaxCrops = 2
SPECIFICATION CameraSpec
PROPERTIES
    CameraRecovers
CHECK_DEADLOCK FALSE
