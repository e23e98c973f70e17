------------------------------ MODULE Dashboard ------------------------------
(***************************************************************************)
(* The admin dashboard (frontend-admin/src/pages/Dashboard.jsx): the       *)
(* session, the two lists it shows, and the handlers that change them.     *)
(* Every handler runs up to an await and goes on when the answer is there, *)
(* with the token and the filter of the render it was started from; any    *)
(* number of them is under way at once, and answers come in any order.     *)
(* Answers that nobody waits for any more are handled all the same.        *)
(* A list is abstracted to the filter it was asked for and to the state of *)
(* the directory the server read, counted from 1; 0 is no list. The message, the error text and    *)
(* the fields of the forms, which no handler reads, are left out.          *)
(***************************************************************************)
EXTENDS Naturals, FiniteSets

CONSTANTS MaxFlight,  \* bound: requests under way at once
          MaxActs     \* bound: what the user does, and sessions that expire

ASSUME DashboardAssumption == MaxFlight \in Nat /\ MaxActs \in Nat

VARIABLES token,     \* the session, 0 when signed out; localStorage holds it too
          includeInactive,
          seen,      \* the token and the filter of the render whose effect ran last
          shown,     \* the lists
          status, section,
          editing,   \* lists of which a row is being edited
          flight,    \* slot -> the request and the handler that waits for it
          data,      \* the state of the directory: 1, and one more for every change
          sessions, expired,   \* sessions the server has opened, and those over
          acts,
          acked,     \* history: list -> the last change to it the user was told of
          doubt      \* history: lists last asked for with another request for
                     \* them under way, with another filter, or in vain

server == <<data, sessions, expired>>
vars == <<token, includeInactive, seen, shown, status, section, editing,
          flight, data, sessions, expired, acts, acked, doubt>>

Lists == {"employees", "departments"}
Blank == [k \in Lists |-> [all |-> FALSE, at |-> 0]]
Free == [op |-> "free"]
Slots == 1..MaxFlight
Unmounted == [token |-> 0, all |-> FALSE, mounted |-> FALSE]
Rendered == [token |-> token, all |-> includeInactive, mounted |-> TRUE]

(* A request of the render r; "then" is what its handler does after a list. *)
Ask(op, of, edit, then, r) ==
    [op |-> op, of |-> of, edit |-> edit, then |-> then, all |-> r.all,
     token |-> r.token, answer |-> "none", at |-> 0]

Init ==
    /\ token \in {0, 1} /\ sessions = token /\ expired = {}
    /\ includeInactive = FALSE /\ seen = Unmounted /\ shown = Blank
    /\ status = "ready" /\ section = "directory" /\ editing = {}
    /\ flight = [s \in Slots |-> Free]
    /\ data = 1 /\ acts = 0
    /\ acked = [k \in Lists |-> 0] /\ doubt = {}

-----------------------------------------------------------------------------
(* Renders and lists. *)

Listing(k, slots) == \E s \in slots : flight[s].op = "list" /\ flight[s].of = k

(* The lists in doubt once k is asked for, with the filter all, from slot s. *)
Asked(k, all, s) ==
    IF Listing(k, Slots \ {s}) \/ (k = "employees" /\ all # includeInactive)
    THEN doubt \cup {k} ELSE doubt \ {k}

(* Slots are names only: a request takes the first that is free. *)
Vacant(s) == flight[s] = Free /\ \A t \in 1..(s - 1) : flight[t] # Free

(* Mutant: the effect depends on the token only. *)
EffectDueToken == ~seen.mounted \/ seen.token # token

(* The effect runs after a render whose token or filter is not the last one's. *)
EffectDue == seen # Rendered

Effect ==
    /\ EffectDue
    /\ seen' = Rendered
    /\ IF token = 0
       THEN UNCHANGED <<status, flight, doubt>>
       ELSE /\ status' = "loading"
            /\ \E s, t \in Slots :
                  /\ Vacant(s) /\ flight[t] = Free /\ s < t
                  /\ \A u \in (s + 1)..(t - 1) : flight[u] # Free
                  /\ flight' = [flight EXCEPT
                        ![s] = Ask("list", "employees", FALSE, "nothing", Rendered),
                        ![t] = Ask("list", "departments", FALSE, "nothing", Rendered)]
            /\ doubt' = {k \in Lists : Listing(k, Slots)}
    /\ UNCHANGED <<token, includeInactive, shown, section, editing, server, acts, acked>>

-----------------------------------------------------------------------------
(* The user, who acts on the page as it was rendered last. *)

Act == acts < MaxActs /\ acts' = acts + 1
Quietly == ~EffectDue /\ UNCHANGED <<seen, server, acked, doubt>>
User == Act /\ Quietly
Admin == User /\ token # 0

Start(op, of, edit) ==
    \E s \in Slots :
       /\ Vacant(s)
       /\ flight' = [flight EXCEPT ![s] = Ask(op, of, edit, "nothing", Rendered)]

handleLogin ==
    /\ User /\ token = 0
    /\ Start("login", "none", FALSE)
    /\ status' = "loading"
    /\ UNCHANGED <<token, includeInactive, shown, section, editing>>

(* Mutant: the section stays as well. *)
SignOutInPlace ==
    /\ token' = 0 /\ shown' = Blank /\ editing' = {}
    /\ UNCHANGED <<section, includeInactive>>

(* What handleLogout does: the filter stays, and so do the requests. *)
SignOut ==
    /\ token' = 0 /\ shown' = Blank /\ editing' = {} /\ section' = "directory"
    /\ UNCHANGED includeInactive

handleLogout ==
    /\ Admin /\ section = "directory"
    /\ SignOut /\ status' = "ready"
    /\ UNCHANGED flight

ToggleInactive ==
    /\ Admin /\ section = "directory"
    /\ includeInactive' = ~includeInactive
    /\ UNCHANGED <<token, shown, status, section, editing, flight>>

(* create, update, deactivate and restore; an update is of the row edited. *)
Submit(k, edit) ==
    /\ Admin /\ section = "directory" /\ (edit => k \in editing)
    /\ Start("change", k, edit)
    /\ status' = "loading"
    /\ UNCHANGED <<token, includeInactive, shown, section, editing>>

StartEdit(k) ==
    /\ Quietly /\ token # 0 /\ section = "directory" /\ shown[k].at > 0
    /\ editing' = editing \cup {k}
    /\ UNCHANGED <<token, includeInactive, shown, status, section, flight, acts>>

CancelEdit(k) ==
    /\ Quietly /\ token # 0 /\ section = "directory" /\ k \in editing
    /\ editing' = editing \ {k}
    /\ UNCHANGED <<token, includeInactive, shown, status, section, flight, acts>>

(* The other sections ask for what they show when they are opened. *)
Open(to) ==
    /\ Admin /\ section # to
    /\ section' = to
    /\ IF to = "directory" THEN UNCHANGED flight ELSE Start("panel", "none", FALSE)
    /\ UNCHANGED <<token, includeInactive, shown, status, editing>>

(* FaceEnrollmentPage saves a face, and calls back when it is told so. *)
Enroll ==
    /\ Admin /\ section = "enrollment"
    /\ Start("enroll", "employees", FALSE)
    /\ UNCHANGED <<token, includeInactive, shown, status, section, editing>>

(* The page is loaded again: the browser drops the requests under way. *)
Reload ==
    /\ Act
    /\ includeInactive' = FALSE /\ seen' = Unmounted /\ shown' = Blank
    /\ status' = "ready" /\ section' = "directory" /\ editing' = {}
    /\ flight' = [s \in Slots |-> Free]
    /\ UNCHANGED <<token, server, acked, doubt>>

-----------------------------------------------------------------------------
(* The admin API: it answers a request as of when it gets to it, and a change
   that was made may still be answered with an error, or its answer be lost.
   An expired session is refused, except where none is asked for: a face is
   saved on the token of its enrolment. *)

Answered(s, answer, at) ==
    flight' = [flight EXCEPT ![s].answer = answer, ![s].at = at]

Serve(s) ==
    LET r == flight[s] IN
    /\ r # Free /\ r.answer = "none"
    /\ \/ /\ r.op \notin {"login", "enroll"} /\ r.token \in expired
          /\ Answered(s, "denied", 0) /\ UNCHANGED <<data, sessions>>
       \/ /\ r.op = "login" /\ sessions' = sessions + 1
          /\ Answered(s, "ok", sessions + 1) /\ UNCHANGED data
       \/ /\ r.op \in {"list", "panel"} /\ r.token \notin expired
          /\ Answered(s, "ok", IF r.op = "list" THEN data ELSE 0)
          /\ UNCHANGED <<data, sessions>>
       \/ /\ r.op = "enroll" \/ (r.op = "change" /\ r.token \notin expired)
          /\ data' = data + 1
          /\ Answered(s, "ok", data + 1) \/ Answered(s, "failed", 0)
          /\ UNCHANGED sessions
       \/ /\ r.op # "panel"
          /\ Answered(s, "failed", 0) /\ UNCHANGED <<data, sessions>>
    /\ UNCHANGED <<token, includeInactive, seen, shown, status, section, editing, expired,
                   acts, acked, doubt>>

Expire ==
    /\ Act
    /\ \E t \in 1..sessions : t \notin expired /\ expired' = expired \cup {t}
    /\ UNCHANGED <<token, includeInactive, seen, shown, status, section, editing,
                   flight, data, sessions, acked, doubt>>

-----------------------------------------------------------------------------
(* The rest of a handler, once its answer is there. *)

Answer(s, op, answer) ==
    /\ flight[s].op = op /\ flight[s].answer = answer
    /\ UNCHANGED <<seen, server, acts>>
Stay == UNCHANGED <<token, includeInactive, shown, section, editing>>
Done(s) == flight' = [flight EXCEPT ![s] = Free]

LoggedIn(s) ==
    /\ Answer(s, "login", "ok")
    /\ token' = flight[s].at /\ status' = "loaded" /\ Done(s)
    /\ UNCHANGED <<includeInactive, shown, section, editing, acked, doubt>>

LoginFails(s) ==
    /\ Answer(s, "login", "failed")
    /\ status' = "error" /\ Done(s) /\ Stay
    /\ UNCHANGED <<acked, doubt>>

(* Mutant: the end of a handler is left to the list it awaits. *)
StatusOfList(r, base) == IF r.then = "employees" THEN "loading" ELSE base

(* fetchEmployees and fetchDepartments report what went wrong and return: a
   handler that awaits one goes on as if it had the list. *)
Status(r, base) ==
    IF r.then = "note" THEN "loaded" ELSE IF r.then = "employees" THEN "loading" ELSE base
GoOn(s, inVain) ==
    LET r == flight[s] IN
    IF r.then = "employees"
    THEN /\ flight' = [flight EXCEPT ![s] = Ask("list", "employees", FALSE, "note", r)]
         /\ doubt' = inVain \cup Asked("employees", r.all, s)
    ELSE Done(s) /\ doubt' = inVain \cup doubt

ListLoaded(s) ==
    LET r == flight[s] IN
    /\ Answer(s, "list", "ok")
    /\ shown' = [shown EXCEPT ![r.of] = [all |-> r.all, at |-> r.at]]
    /\ status' = Status(r, IF r.of = "employees" THEN "loaded" ELSE status)
    /\ GoOn(s, {})
    /\ UNCHANGED <<token, includeInactive, section, editing, acked>>

ListFails(s) ==
    /\ Answer(s, "list", "failed")
    /\ status' = Status(flight[s], "error") /\ Stay
    /\ GoOn(s, {flight[s].of})
    /\ UNCHANGED acked

ListDenied(s) ==
    /\ Answer(s, "list", "denied")
    /\ SignOut /\ status' = Status(flight[s], "ready")
    /\ GoOn(s, {flight[s].of})
    /\ UNCHANGED acked

(* The rest asks for the list the change was made in, and a department that
   was renamed for the employees as well, who keep the name they were given. *)
Concerned(r) == IF r.of = "departments" /\ r.edit THEN Lists ELSE {r.of}
Told(r) == [k \in Lists |-> IF k \in Concerned(r) /\ r.at > acked[k] THEN r.at ELSE acked[k]]

(* Mutant: only the list the change was made in is asked for again. *)
ThenOfOne(r) == IF r.op = "enroll" THEN "nothing" ELSE "note"

Then(r) ==
    IF r.op = "enroll" THEN "nothing"
    ELSE IF r.of = "departments" /\ r.edit THEN "employees" ELSE "note"

Changed(s) ==
    LET r == flight[s] IN
    /\ r.op \in {"change", "enroll"} /\ Answer(s, r.op, "ok")
    /\ acked' = Told(r)
    /\ editing' = IF r.edit THEN editing \ {r.of} ELSE editing
    /\ flight' = [flight EXCEPT ![s] = Ask("list", r.of, FALSE, Then(r), r)]
    /\ doubt' = Asked(r.of, r.all, s)
    /\ status' = IF r.of = "employees" THEN "loading" ELSE status
    /\ UNCHANGED <<token, includeInactive, shown, section>>

ChangeFails(s) ==
    /\ Answer(s, "change", "failed")
    /\ status' = "error" /\ Done(s) /\ Stay
    /\ UNCHANGED <<acked, doubt>>

(* A section keeps its own errors, but a 401 ends the session, even when the
   section it was for is closed. *)
SectionAnswered(s) ==
    /\ \/ Answer(s, "panel", "ok") \/ Answer(s, "enroll", "failed")
    /\ Done(s) /\ Stay
    /\ UNCHANGED <<status, acked, doubt>>

Denied(s) ==
    /\ Answer(s, "change", "denied") \/ Answer(s, "panel", "denied")
    /\ SignOut /\ status' = "ready" /\ Done(s)
    /\ UNCHANGED <<acked, doubt>>

-----------------------------------------------------------------------------
Sections == {"directory", "enrollment", "logs"}

UserActs ==
    \/ handleLogin \/ handleLogout \/ ToggleInactive \/ Enroll \/ Reload
    \/ \E k \in Lists :
          StartEdit(k) \/ CancelEdit(k) \/ \E edit \in BOOLEAN : Submit(k, edit)
    \/ \E to \in Sections : Open(to)

Resume(s) ==
    \/ LoggedIn(s) \/ LoginFails(s) \/ ListLoaded(s) \/ ListFails(s) \/ ListDenied(s)
    \/ Changed(s) \/ ChangeFails(s) \/ SectionAnswered(s) \/ Denied(s)

Next == Effect \/ UserActs \/ Expire \/ \E s \in Slots : Serve(s) \/ Resume(s)

(* A request is answered and its handler goes on. No fairness for the user. *)
Fairness == \A s \in Slots : WF_vars(Serve(s) \/ Resume(s))

Spec == Init /\ [][Next]_vars /\ Fairness

-----------------------------------------------------------------------------
Requests ==
    [op : {"login", "list", "change", "enroll", "panel"}, of : Lists \cup {"none"},
     edit : BOOLEAN, then : {"nothing", "note", "employees"}, all : BOOLEAN,
     token : Nat, answer : {"none", "ok", "failed", "denied"}, at : Nat]

(* Type invariant; signed out, the page is at the directory and edits no row,
   which is how the next session finds it. *)
TypeOK ==
    /\ token \in 0..sessions /\ includeInactive \in BOOLEAN
    /\ seen \in [token : 0..sessions, all : BOOLEAN, mounted : BOOLEAN]
    /\ shown \in [Lists -> [all : BOOLEAN, at : 0..data]]
    /\ status \in {"ready", "loading", "loaded", "error"}
    /\ section \in Sections /\ editing \subseteq Lists
    /\ token = 0 => section = "directory" /\ editing = {}
    /\ flight \in [Slots -> Requests \cup {Free}]
    /\ data \in Nat /\ sessions \in Nat /\ expired \subseteq 1..sessions /\ acts \in Nat
    /\ acked \in [Lists -> 0..data] /\ doubt \subseteq Lists

Quiet == \A s \in Slots : flight[s] = Free

(* When nothing is under way, a list of which the last request was made alone,
   for the filter of the page, and not in vain, has that filter and every
   change the user was told of, whatever saves, filters, sign-ins and late
   answers came before (useEffect of [token, includeInactive], and the
   refetches of the handlers, Dashboard.jsx:50-380). *)
SettledIsCurrent ==
    Quiet /\ ~EffectDue /\ token # 0 =>
        \A k \in Lists \ doubt :
           /\ shown[k].at >= acked[k]
           /\ k = "employees" => shown[k].all = includeInactive

(* A page that says that it loads stops saying so: every handler that sets the
   status goes on to set another one, on every path (Dashboard.jsx:64-368). *)
LoadingEnds == (status = "loading") ~> (status # "loading")
=============================================================================
