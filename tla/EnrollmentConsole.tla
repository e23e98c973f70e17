------------------------- MODULE EnrollmentConsole -------------------------
(***************************************************************************)
(* The page where an administrator enrolls faces: FaceEnrollmentPage.jsx   *)
(* (search, choice of a person, enrollment session) and the panel it shows *)
(* for a session, EnrollmentCapture.jsx (live, samples, submission).     *)
(*                                                                         *)
(* A handler runs to its `await` and, when the answer is there, from it to *)
(* the end; in between the administrator may do anything the page allows.  *)
(* React keeps one panel as long as the page has a session, also when it   *)
(* becomes another session; the setters of what is no longer mounted have  *)
(* no effect, but the panel's onComplete still reaches the page.           *)
(*                                                                         *)
(* Each element of Sessions is one press of "Scan face" and the session it *)
(* creates; each element of Posts is one press of "Save enrollment".       *)
(* Samples are known by the person named above the picture they were taken *)
(* from.  Left out: messages; the camera stream, but for the state the     *)
(* "Capture" button depends on; employees who lose their face meanwhile.   *)
(***************************************************************************)
EXTENDS Naturals, Sequences

CONSTANTS Staff,        \* employees the searches find
          Sessions,     \* presses of "Scan face"
          Posts,        \* presses of "Save enrollment"
          Min,          \* MIN_SAMPLE_COUNT
          Target,       \* TARGET_SAMPLE_COUNT
          MaxSearches,  \* bound: searches under way
          None          \* nobody, no session

ASSUME ConsoleAssumption ==
    /\ None \notin Staff \cup Sessions
    /\ Min \in Nat \ {0} /\ Target \in Nat /\ Min <= Target
    /\ MaxSearches \in Nat

VARIABLES
    searching,  \* how many searches are under way
    listed,     \* results are not empty
    selected,   \* selectedStaff, None for nobody
    badge,      \* selectedStaff.has_face_embedding
    session,    \* session of the panel, None while there is no panel
    status,     \* of the page: "creating-session", or another one; which of the others it
                \*   is decides about messages only
    samples,    \* of the panel
    live,       \* cameraState of the panel is "live": until then, or for ever when it
                \*   is blocked, the panel takes no samples
    submit,     \* submitState of the panel
    owner,      \* whom each session was created for
    made,       \* creation of each session: unused, creating, over (also if refused)
    post,       \* each submission: how far, until it is over of which session, with whose faces,
                \*   and what is still mounted of where it was made
    enrolled,   \* backend: employees with a face
    hasty       \* history: what was done while it touched a request under way

search == <<searching, listed>>
choice == <<selected, badge>>
panel == <<samples, live, submit>>
vars == <<search, choice, session, status, panel, owner, made, post, enrolled, hasty>>

Fresh == [state |-> "unused", session |-> None, faces |-> {}, mounted |-> "none"]

\* A submission that is over for the page and for the backend.
Over == [Fresh EXCEPT !.state = "over"]

Init ==
    /\ searching = 0
    /\ listed = FALSE
    /\ selected = None
    /\ badge = FALSE
    /\ session = None
    /\ status = "other"
    /\ samples = <<>>
    /\ live = FALSE
    /\ submit = "ready"
    /\ owner = [s \in Sessions |-> None]
    /\ made = [s \in Sessions |-> "unused"]
    /\ post = [p \in Posts |-> Fresh]
    /\ enrolled = {}
    /\ hasty = {}

-----------------------------------------------------------------------------
Creating == {s \in Sessions : made[s] = "creating"}
UnderWay == {p \in Posts : post[p].state \in {"sent", "stored"}}

\* Given up by the page, of which the backend knows nothing.
Lost == {p \in Posts : post[p].state = "lost"}
Pending == UnderWay \cup Lost

\* A panel that is taken away, and the next one that is shown, start afresh.
NewPanel ==
    /\ samples' = <<>>
    /\ live' = FALSE
    /\ submit' = "ready"

\* What is left of the place of a submission once its panel is gone.
Unmounted(q) == IF q.mounted = "panel" THEN [q EXCEPT !.mounted = "page"] ELSE q

\* setSession(null)
NoSession ==
    /\ session' = None
    /\ NewPanel
    /\ post' = [p \in Posts |-> Unmounted(post[p])]

-----------------------------------------------------------------------------
\* The search.

\* The query becomes too short: the results are cleared.  A query that is long
\* enough may be typed at any time and changes nothing before its timeout, so
\* neither the query nor the timeout is part of the state.
ClearQuery ==
    /\ listed' = FALSE
    /\ status' = "other"
    /\ UNCHANGED <<searching, choice, session, panel, owner, made, post, enrolled, hasty>>

\* searchStaff, at the end of the timeout
SearchStaff ==
    /\ searching < MaxSearches
    /\ searching' = searching + 1
    /\ status' = "other"
    /\ UNCHANGED <<listed, choice, session, panel, owner, made, post, enrolled, hasty>>

SearchAnswered ==
    /\ searching > 0
    /\ searching' = searching - 1
    /\ listed' \in BOOLEAN
    /\ status' = "other"
    /\ UNCHANGED <<choice, session, panel, owner, made, post, enrolled, hasty>>

-----------------------------------------------------------------------------
\* The choice of a person and the session.

\* A request under way will be answered to this page.
Awaited == Creating # {} \/ \E p \in UnderWay : post[p].mounted # "none"

Hurry(what, touched) == hasty' = IF touched THEN hasty \cup {what} ELSE hasty

\* Mutant: the panel stays when another person is selected.
SelectKeepsSession(e) ==
    /\ listed
    /\ selected' = e
    /\ badge' \in BOOLEAN /\ (badge' => e \in enrolled)
    /\ Hurry("select", e # selected /\ Awaited)
    /\ UNCHANGED <<search, session, panel, post, status, owner, made, enrolled>>

\* selectStaff, from results of now or of some time ago.
Select(e) ==
    /\ listed
    /\ selected' = e
    /\ badge' \in BOOLEAN /\ (badge' => e \in enrolled)
    /\ NoSession
    /\ Hurry("select", e # selected /\ Awaited)
    /\ UNCHANGED <<search, status, owner, made, enrolled>>

\* startEnrollment; its button is disabled in the status it sets.
Scan(s) ==
    /\ selected # None
    /\ status # "creating-session"
    /\ made[s] = "unused"
    /\ made' = [made EXCEPT ![s] = "creating"]
    /\ owner' = [owner EXCEPT ![s] = selected]
    /\ status' = "creating-session"
    /\ UNCHANGED <<search, choice, session, panel, post, enrolled, hasty>>

\* The session is shown, in the panel that is there already or in a new one.
ScanSucceeds(s) ==
    /\ made[s] = "creating"
    /\ made' = [made EXCEPT ![s] = "over"]
    /\ session' = s
    /\ status' = "other"
    /\ IF session = None THEN NewPanel ELSE UNCHANGED panel
    /\ UNCHANGED <<search, choice, owner, post, enrolled, hasty>>

\* Mutant: a refusal leaves the status.
ScanFailsSilently(s) ==
    /\ made[s] = "creating"
    /\ made' = [made EXCEPT ![s] = "over"]
    /\ UNCHANGED <<search, choice, session, status, panel, owner, post, enrolled, hasty>>

ScanFails(s) ==
    /\ made[s] = "creating"
    /\ made' = [made EXCEPT ![s] = "over"]
    /\ status' = "other"
    /\ UNCHANGED <<search, choice, session, panel, owner, post, enrolled, hasty>>

\* onCancel of the panel
Close ==
    /\ session # None
    /\ NoSession
    /\ UNCHANGED <<search, choice, status, owner, made, enrolled, hasty>>

-----------------------------------------------------------------------------
\* The panel.

\* startCamera, permitted
CameraStarts ==
    /\ session # None
    /\ ~live
    /\ live' = TRUE
    /\ UNCHANGED <<search, choice, session, status, samples, submit, owner, made, post,
                   enrolled, hasty>>

\* Mutant: samples are added without end.
CaptureKeepsAll ==
    /\ session # None
    /\ live
    /\ samples' = Append(samples, owner[session])
    /\ submit' = "ready"
    /\ Hurry("capture", submit = "submitting")
    /\ UNCHANGED <<search, choice, session, status, live, owner, made, post, enrolled>>

\* captureSample keeps the last ones; either way the panel leaves "submitting".
Capture ==
    /\ session # None
    /\ live
    /\ \/ /\ samples' = Append(IF Len(samples) < Target THEN samples ELSE Tail(samples),
                               owner[session])
          /\ submit' = "ready"
       \/ submit' = "error" /\ UNCHANGED samples
    /\ Hurry("capture", submit = "submitting")
    /\ UNCHANGED <<search, choice, session, status, live, owner, made, post, enrolled>>

Clear ==
    /\ session # None
    /\ samples # <<>>
    /\ samples' = <<>>
    /\ UNCHANGED <<search, choice, session, status, live, submit, owner, made, post,
                   enrolled, hasty>>

\* The people on the samples that are sent.
Faces == {samples[i] : i \in 1 .. Len(samples)}

\* Mutant: the button does not look at what is under way.
SubmitAgain(p) ==
    /\ session # None
    /\ Len(samples) >= Min
    /\ post[p].state = "unused"
    /\ post' = [post EXCEPT ![p] = [state |-> "sent", session |-> session,
                                    faces |-> Faces, mounted |-> "panel"]]
    /\ submit' = "submitting"
    /\ UNCHANGED <<search, choice, session, status, samples, live, owner, made,
                   enrolled, hasty>>

\* submitEnrollment, canSubmit
Submit(p) ==
    /\ session # None
    /\ Len(samples) >= Min
    /\ submit # "submitting"
    /\ post[p].state = "unused"
    /\ post' = [post EXCEPT ![p] = [state |-> "sent", session |-> session,
                                    faces |-> Faces, mounted |-> "panel"]]
    /\ submit' = "submitting"
    /\ UNCHANGED <<search, choice, session, status, samples, live, owner, made,
                   enrolled, hasty>>

\* The backend stores the face of the session's employee (FaceEnrollment), also where
\* the page has given up waiting.
Store(p) ==
    /\ \/ post[p].state = "sent" /\ post' = [post EXCEPT ![p].state = "stored"]
       \/ post[p].state = "lost" /\ post' = [post EXCEPT ![p] = Over]
    /\ enrolled' = enrolled \cup {owner[post[p].session]}
    /\ UNCHANGED <<search, choice, session, status, panel, owner, made, hasty>>

\* completeEnrollment, unless the page is gone: the panel is taken away,
\* whosever it is, and the person selected now is shown as enrolled.
PostSucceeds(p) ==
    /\ post[p].state = "stored"
    /\ IF post[p].mounted # "none"
       THEN /\ session' = None
            /\ NewPanel
            /\ post' = [[q \in Posts |-> Unmounted(post[q])] EXCEPT ![p] = Over]
            /\ badge' = (badge \/ selected # None)
            /\ status' = "other"
       ELSE /\ post' = [post EXCEPT ![p] = Over]
            /\ UNCHANGED <<session, panel, badge, status>>
    /\ UNCHANGED <<search, selected, owner, made, enrolled, hasty>>

\* Mutant: response.ok is not looked at.
PostFailsAsDone(p) ==
    /\ p \in UnderWay
    /\ session' = None
    /\ NewPanel
    /\ post' = [[q \in Posts |-> Unmounted(post[q])] EXCEPT ![p] = Over]
    /\ badge' = (badge \/ selected # None)
    /\ status' = "other"
    /\ UNCHANGED <<search, selected, owner, made, enrolled, hasty>>

\* The backend answers with an error, or no answer comes: a timeout of the gateway
\* or a connection that breaks says nothing about what the backend still does.
PostFails(p) ==
    /\ p \in UnderWay
    /\ \/ post' = [post EXCEPT ![p] = Over]
       \/ post[p].state = "sent" /\ post' = [post EXCEPT ![p].state = "lost", ![p].mounted = "none"]
    /\ submit' = IF post[p].mounted = "panel" THEN "error" ELSE submit
    /\ UNCHANGED <<search, choice, session, status, samples, live, owner, made,
                   enrolled, hasty>>

\* Another section of the dashboard is opened, or an answer is a 401 and logs
\* the administrator out: the page is mounted anew, what is under way is
\* answered to nobody.
Leave ==
    /\ searching' = 0
    /\ listed' = FALSE
    /\ selected' = None
    /\ badge' = FALSE
    /\ session' = None
    /\ status' = "other"
    /\ NewPanel
    /\ made' = [s \in Sessions |-> IF made[s] = "creating" THEN "over" ELSE made[s]]
    /\ post' = [p \in Posts |-> [post[p] EXCEPT !.mounted = "none"]]
    /\ UNCHANGED <<owner, enrolled, hasty>>

-----------------------------------------------------------------------------
Answered ==
    \/ SearchAnswered
    \/ \E s \in Sessions : ScanSucceeds(s) \/ ScanFails(s)
    \/ \E p \in Posts : PostSucceeds(p) \/ PostFails(p)

Next ==
    \/ ClearQuery
    \/ SearchStaff
    \/ \E e \in Staff : Select(e)
    \/ \E s \in Sessions : Scan(s)
    \/ Close
    \/ CameraStarts
    \/ Capture
    \/ Clear
    \/ \E p \in Posts : Submit(p) \/ Store(p)
    \/ Answered
    \/ Leave

Spec == Init /\ [][Next]_vars

\* Every request is answered, the administrator may do as he likes.
FairSpec ==
    /\ Spec
    /\ \A s \in Sessions : WF_vars(ScanSucceeds(s) \/ ScanFails(s))
    /\ \A p \in Posts : WF_vars(PostSucceeds(p) \/ PostFails(p))
-----------------------------------------------------------------------------
TypeOK ==
    /\ searching \in 0 .. MaxSearches
    /\ listed \in BOOLEAN
    /\ selected \in Staff \cup {None}
    /\ badge \in BOOLEAN
    /\ session \in Sessions \cup {None}
    /\ status \in {"creating-session", "other"}
    /\ samples \in Seq(Staff) /\ Len(samples) <= Target
    /\ live \in BOOLEAN
    /\ submit \in {"ready", "submitting", "error"}
    /\ owner \in [Sessions -> Staff \cup {None}]
    /\ made \in [Sessions -> {"unused", "creating", "over"}]
    /\ post \in [Posts -> [state : {"unused", "sent", "stored", "lost", "over"},
                           session : Sessions \cup {None}, faces : SUBSET Staff,
                           mounted : {"none", "page", "panel"}]]
    /\ enrolled \subseteq Staff
    /\ hasty \subseteq {"select", "capture"}

\* Samples go to the person they were taken for, although the panel outlives
\* a change of its session: the one way to store a face for somebody else is
\* to select another person while a request is under way.
FaceIsOfSession ==
    \A p \in Pending : "select" \notin hasty => post[p].faces = {owner[post[p].session]}

\* Nobody is shown as enrolled without a face, under the same condition: the
\* answer to a submission marks whoever is selected when it arrives.
BadgeIsTrue ==
    badge /\ "select" \notin hasty => selected \in enrolled

\* The page submits a session, whose token is to be spent once (FaceEnrollment),
\* again only after the former submission has failed for it: two that the backend has
\* at the same time go back to a sample captured during the submission, or to an
\* answer that was lost (EnrollmentCapture.jsx:124-127).
OneSubmission ==
    \A p, q \in Pending :
        p # q /\ post[p].session = post[q].session => "capture" \in hasty \/ {p, q} \cap Lost # {}

\* A button is disabled only with a request under way whose answer will enable
\* it, whatever other handlers made of the status and the panel meanwhile.
ButtonsAwaited ==
    /\ status = "creating-session" => Creating # {}
    /\ submit = "submitting" => \E p \in UnderWay : post[p].mounted = "panel"

\* The two buttons that are disabled while a request is under way come back.
ButtonsComeBack ==
    /\ status = "creating-session" ~> status # "creating-session"
    /\ submit = "submitting" ~> submit # "submitting"
=============================================================================
