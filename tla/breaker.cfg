\* Three callers racing on one breaker: enough for a probe, a second probe
\* and a call admitted before the breaker opened to overlap.
CONSTANTS
    Callers = {c1, c2, c3}
    Threshold = 2
    Recovery = 2
    MaxAttempts = 2
    Never = Never
SPECIFICATION FairSpec
INVARIANTS
    TypeOK
    Coherent
PROPERTIES
    Sheds
    WindowCutOnlyBySuccess
    OpenIsTriedAgain
