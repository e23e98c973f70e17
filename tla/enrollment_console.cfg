\* Two people and two sessions can be mixed up; two posts can race.
CONSTANTS
    Staff = {e1, e2}
    Sessions = {s1, s2}
    Posts = {p1, p2}
    Min = 2
    Target = 2
    MaxSearches = 1
    None = None
SPECIFICATION FairSpec
INVARIANTS
    TypeOK
    FaceIsOfSession
    BadgeIsTrue
    OneSubmission
PROPERTY ButtonsComeBack
