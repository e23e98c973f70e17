------------------------- MODULE DepartmentRegistry -------------------------
(***************************************************************************)
(* Departments and the employees assigned to them: the handlers of         *)
(* backend/app/api/endpoints_admin.py over DepartmentRegistryService       *)
(* (department_registry.py) and EmployeeRegistryService                    *)
(* (employee_registry.py).  employees.department repeats the name of the   *)
(* department the row refers to, or is a free text without one.            *)
(*                                                                         *)
(* As in FaceEnrollment a handler is a sequence of SELECTs and commits of  *)
(* a request of its own, at READ COMMITTED; one action is one of them.     *)
(* A commit writes only the columns that differ from what the request had  *)
(* loaded, and a second row with a name or an employee code violates a     *)
(* unique index (PostgreSQL and SQLAlchemy, external).                     *)
(*                                                                         *)
(* Left out: department codes, unique like the names and never changed;    *)
(* full names; face embeddings (FaceEnrollment).                           *)
(***************************************************************************)
EXTENDS Naturals, FiniteSets

CONSTANTS Requests,     \* HTTP requests, each handled once
          Departments,  \* department ids
          Employees,    \* employee codes
          Names,        \* department names
          Texts,        \* other texts an employee's department may be
          First,        \* the department and the employee registered at first,
          Starter,      \*   and the department's name
          FirstName,
          None          \* no row, no department, no text

ASSUME RegistryAssumption ==
    /\ First \in Departments /\ Starter \in Employees /\ FirstName \in Names
    /\ None \notin Departments \cup Names \cup Texts
    /\ "unresolved" \notin Names \cup Texts

VARIABLES
    dName,       \* departments.name, None while the row is absent
    dActive,     \* departments.active
    dDeleted,    \* departments.deleted_at is set
    registered,  \* employees.employee_code
    active,      \* employees.active
    dept,        \* employees.department_id
    text,        \* employees.department
    audit,       \* requests whose audit event is committed
    pc,          \* next step of each request
    job,         \* what the request asks for
    loaded,      \* the row as the request's SELECT returned it
    plan,        \* department and text an employee row is to have
    answer,      \* HTTP status sent, 0 before that
    everNamed,   \* history: the names each department has had
    torn,        \* history: employees two updates were under way on at once
    stale        \* history: requests whose check another's commit has outdated

departments == <<dName, dActive, dDeleted, everNamed>>
employees == <<registered, active, dept, text>>
vars == <<departments, employees, audit, pc, job, loaded, plan, answer, torn, stale>>

NoWish == [kind |-> "keep", value |-> None]

\* What is asked of an employee's department: an id, a text together with no
\* id, a text alone, or nothing.
Wishes == [kind : {"id"}, value : Departments]
            \cup [kind : {"free", "text"}, value : Texts \cup {None}]
            \cup {NoWish}

EmployeeOps == {"hire", "move", "leave", "return"}
NoJob == [op |-> "none", on |-> None, name |-> None, wish |-> NoWish]
Jobs == [op : {"create"}, on : {None}, name : Names, wish : {NoWish}]
          \cup [op : {"rename"}, on : Departments, name : Names, wish : {NoWish}]
          \cup [op : {"delete", "restore"}, on : Departments, name : {None}, wish : {NoWish}]
          \cup [op : EmployeeOps, on : Employees, name : {None}, wish : Wishes]
          \cup {NoJob}

Assignments == [dept : Departments \cup {None}, text : Names \cup Texts \cup {None}]
Loads == [active : BOOLEAN, deleted : BOOLEAN, name : Names \cup {None},
          dept : Departments \cup {None}, text : Names \cup Texts \cup {None}]
NoLoad == [active |-> FALSE, deleted |-> FALSE, name |-> None, dept |-> None, text |-> None]

Places == {"idle", "find", "count", "resolve", "write", "audit", "done"}

Init ==
    /\ dName = [d \in Departments |-> IF d = First THEN FirstName ELSE None]
    /\ dActive = [d \in Departments |-> d = First]
    /\ dDeleted = [d \in Departments |-> d # First]
    /\ registered = {Starter}
    /\ active = [e \in Employees |-> e = Starter]
    /\ dept = [e \in Employees |-> IF e = Starter THEN First ELSE None]
    /\ text = [e \in Employees |-> IF e = Starter THEN FirstName ELSE None]
    /\ audit = {}
    /\ pc = [r \in Requests |-> "idle"]
    /\ job = [r \in Requests |-> NoJob]
    /\ loaded = [r \in Requests |-> NoLoad]
    /\ plan = [r \in Requests |-> [dept |-> None, text |-> None]]
    /\ answer = [r \in Requests |-> 0]
    /\ everNamed = [d \in Departments |-> IF d = First THEN {FirstName} ELSE {}]
    /\ torn = {}
    /\ stale = {}

-----------------------------------------------------------------------------
InFlight == {r \in Requests : pc[r] \notin {"idle", "done"}}

Goto(r, place) == /\ pc' = [pc EXCEPT ![r] = place]
                  /\ UNCHANGED answer

Reply(r, code) == /\ pc' = [pc EXCEPT ![r] = "done"]
                  /\ answer' = [answer EXCEPT ![r] = code]

\* A commit was applied: on to the audit, or its acknowledgement is lost.
Committed(r) == Goto(r, "audit") \/ Reply(r, 500)

On(r) == job[r].on

\* Updates of e under way; deletions of d that have counted its staff, and
\* assignments to d resolved, with nothing written yet.
Moves(e) == {q \in InFlight : job[q].op = "move" /\ On(q) = e}
Deletions(d) == {q \in Requests : pc[q] = "write" /\ job[q].op = "delete" /\ On(q) = d}
Assignings(d) == {q \in Requests : /\ pc[q] = "write" /\ job[q].op \in {"hire", "move"}
                                   /\ plan[q].dept = d}

Arrive(r, op, on, name, wish) ==
    /\ pc[r] = "idle"
    /\ job' = [job EXCEPT ![r] = [op |-> op, on |-> on, name |-> name, wish |-> wish]]
    /\ torn' = IF op = "move" /\ Moves(on) # {} THEN torn \cup {on} ELSE torn
    /\ UNCHANGED stale

LoadDepartment(r, d) ==
    loaded' = [loaded EXCEPT ![r] =
        [active |-> dActive[d], deleted |-> dDeleted[d], name |-> dName[d],
         dept |-> None, text |-> None]]

LoadEmployee(r, e) ==
    loaded' = [loaded EXCEPT ![r] =
        [active |-> active[e], deleted |-> FALSE, name |-> None,
         dept |-> dept[e], text |-> text[e]]]

Present(d) == dName[d] # None
Open(d) == Present(d) /\ dActive[d]
Taken(d, name) == \E c \in Departments \ {d} : dName[c] = name

-----------------------------------------------------------------------------
\* Departments.

\* create_department: look for the name.
CreateFind(r, name) ==
    /\ Arrive(r, "create", None, name, NoWish)
    /\ IF Taken(None, name) THEN Reply(r, 409) ELSE Goto(r, "write")
    /\ UNCHANGED <<departments, employees, audit, loaded, plan>>

\* Mutant: no unique index behind the lookup.
CreateWriteNoIndex(r, d) ==
    /\ pc[r] = "write" /\ job[r].op = "create"
    /\ ~Present(d)
    /\ dName' = [dName EXCEPT ![d] = job[r].name]
    /\ dActive' = [dActive EXCEPT ![d] = TRUE]
    /\ dDeleted' = [dDeleted EXCEPT ![d] = FALSE]
    /\ everNamed' = [everNamed EXCEPT ![d] = @ \cup {job[r].name}]
    /\ Committed(r)
    /\ UNCHANGED <<employees, audit, job, loaded, plan, torn, stale>>

\* INSERT, under an id of its own.
CreateWrite(r, d) ==
    /\ pc[r] = "write" /\ job[r].op = "create"
    /\ ~Present(d)
    /\ IF Taken(d, job[r].name)
       THEN Reply(r, 500) /\ UNCHANGED departments
       ELSE /\ dName' = [dName EXCEPT ![d] = job[r].name]
            /\ dActive' = [dActive EXCEPT ![d] = TRUE]
            /\ dDeleted' = [dDeleted EXCEPT ![d] = FALSE]
            /\ everNamed' = [everNamed EXCEPT ![d] = @ \cup {job[r].name}]
            /\ Committed(r)
    /\ UNCHANGED <<employees, audit, job, loaded, plan, torn, stale>>

\* update_department
RenameLoad(r, d, name) ==
    /\ Arrive(r, "rename", d, name, NoWish)
    /\ LoadDepartment(r, d)
    /\ IF Open(d) THEN Goto(r, "find") ELSE Reply(r, 404)
    /\ UNCHANGED <<departments, employees, audit, plan>>

RenameFind(r) ==
    /\ pc[r] = "find"
    /\ IF Taken(On(r), job[r].name) THEN Reply(r, 400) ELSE Goto(r, "write")
    /\ UNCHANGED <<departments, employees, audit, job, loaded, plan, torn, stale>>

RenameWrite(r) ==
    /\ pc[r] = "write" /\ job[r].op = "rename"
    /\ IF loaded[r].name = job[r].name
       THEN Committed(r) /\ UNCHANGED departments
       ELSE IF Taken(On(r), job[r].name)
       THEN Reply(r, 500) /\ UNCHANGED departments
       ELSE /\ dName' = [dName EXCEPT ![On(r)] = job[r].name]
            /\ everNamed' = [everNamed EXCEPT ![On(r)] = @ \cup {job[r].name}]
            /\ Committed(r)
            /\ UNCHANGED <<dActive, dDeleted>>
    /\ UNCHANGED <<employees, audit, job, loaded, plan, torn, stale>>

\* delete_department
DeleteLoad(r, d) ==
    /\ Arrive(r, "delete", d, None, NoWish)
    /\ LoadDepartment(r, d)
    /\ IF Open(d) THEN Goto(r, "count") ELSE Reply(r, 404)
    /\ UNCHANGED <<departments, employees, audit, plan>>

Staff(d) == {e \in registered : active[e] /\ dept[e] = d}

\* Mutant: deactivated without a look at the staff.
DeleteCountSkipped(r) ==
    /\ pc[r] = "count"
    /\ Goto(r, "write")
    /\ UNCHANGED <<departments, employees, audit, job, loaded, plan, torn, stale>>

DeleteCount(r) ==
    /\ pc[r] = "count"
    /\ IF Staff(On(r)) # {} THEN Reply(r, 409) ELSE Goto(r, "write")
    /\ UNCHANGED <<departments, employees, audit, job, loaded, plan, torn, stale>>

DeleteWrite(r) ==
    /\ pc[r] = "write" /\ job[r].op = "delete"
    /\ dActive' = IF loaded[r].active THEN [dActive EXCEPT ![On(r)] = FALSE] ELSE dActive
    /\ dDeleted' = [dDeleted EXCEPT ![On(r)] = TRUE]
    /\ stale' = stale \cup Assignings(On(r))
    /\ Committed(r)
    /\ UNCHANGED <<dName, everNamed, employees, audit, job, loaded, plan, torn>>

\* restore_department
RestoreLoad(r, d) ==
    /\ Arrive(r, "restore", d, None, NoWish)
    /\ LoadDepartment(r, d)
    /\ IF Present(d) THEN Goto(r, "write") ELSE Reply(r, 404)
    /\ UNCHANGED <<departments, employees, audit, plan>>

\* Mutant: restoring leaves the deletion date.
RestoreWriteKeepsDate(r) ==
    /\ pc[r] = "write" /\ job[r].op = "restore"
    /\ dActive' = IF loaded[r].active THEN dActive ELSE [dActive EXCEPT ![On(r)] = TRUE]
    /\ Committed(r)
    /\ UNCHANGED <<dName, dDeleted, everNamed, employees, audit, job, loaded, plan, torn, stale>>

RestoreWrite(r) ==
    /\ pc[r] = "write" /\ job[r].op = "restore"
    /\ dActive' = IF loaded[r].active THEN dActive ELSE [dActive EXCEPT ![On(r)] = TRUE]
    /\ dDeleted' = IF loaded[r].deleted THEN [dDeleted EXCEPT ![On(r)] = FALSE] ELSE dDeleted
    /\ Committed(r)
    /\ UNCHANGED <<dName, everNamed, employees, audit, job, loaded, plan, torn, stale>>

-----------------------------------------------------------------------------
\* Employees.

\* _resolve_department, for a department id and a text; Unresolved is its
\* ValueError.
Unresolved == [dept |-> None, text |-> "unresolved"]
Resolved(d, t) == IF d = None THEN [dept |-> None, text |-> t]
                  ELSE IF Open(d) THEN [dept |-> d, text |-> dName[d]]
                  ELSE Unresolved

\* Mutant: a text alone is taken over as it is.
WishedTextWins(wish, now) ==
    CASE wish.kind = "keep" -> now
      [] wish.kind = "id" -> Resolved(wish.value, None)
      [] wish.kind = "free" -> Resolved(None, wish.value)
      [] wish.kind = "text" -> [now EXCEPT !.text = wish.value]

\* What update_employee makes of a wish; a text alone leaves the id, which then
\* outweighs the text.
Wished(wish, now) ==
    CASE wish.kind = "keep" -> now
      [] wish.kind = "id" -> Resolved(wish.value, None)
      [] wish.kind = "free" -> Resolved(None, wish.value)
      [] wish.kind = "text" -> Resolved(now.dept, wish.value)

\* create_employee: the department is looked up before the code.
HireResolve(r, e, wish) ==
    /\ wish.kind \in {"id", "free"}
    /\ Arrive(r, "hire", e, None, wish)
    /\ LET a == Wished(wish, NoLoad) IN
       IF a = Unresolved
       THEN Reply(r, 400) /\ UNCHANGED plan
       ELSE plan' = [plan EXCEPT ![r] = a] /\ Goto(r, "write")
    /\ UNCHANGED <<departments, employees, audit, loaded>>

HireWrite(r) ==
    /\ pc[r] = "write" /\ job[r].op = "hire"
    /\ IF On(r) \in registered
       THEN (\E code \in {409, 500} : Reply(r, code)) /\ UNCHANGED <<employees, stale>>
       ELSE /\ registered' = registered \cup {On(r)}
            /\ active' = [active EXCEPT ![On(r)] = TRUE]
            /\ dept' = [dept EXCEPT ![On(r)] = plan[r].dept]
            /\ text' = [text EXCEPT ![On(r)] = plan[r].text]
            /\ stale' = stale \cup Deletions(plan[r].dept)
            /\ Committed(r)
    /\ UNCHANGED <<departments, audit, job, loaded, plan, torn>>

\* update_employee
MoveLoad(r, e, wish) ==
    /\ Arrive(r, "move", e, None, wish)
    /\ LoadEmployee(r, e)
    /\ IF e \in registered /\ active[e] THEN Goto(r, "resolve") ELSE Reply(r, 404)
    /\ UNCHANGED <<departments, employees, audit, plan>>

\* Mutant: the ValueError of _resolve_department is lost.
MoveResolveUnchecked(r) ==
    /\ pc[r] = "resolve"
    /\ plan' = [plan EXCEPT ![r] =
        Wished(job[r].wish, [dept |-> loaded[r].dept, text |-> loaded[r].text])]
    /\ Goto(r, "write")
    /\ UNCHANGED <<departments, employees, audit, job, loaded, torn, stale>>

MoveResolve(r) ==
    /\ pc[r] = "resolve"
    /\ LET a == Wished(job[r].wish, [dept |-> loaded[r].dept, text |-> loaded[r].text]) IN
       IF a = Unresolved
       THEN Reply(r, 400) /\ UNCHANGED plan
       ELSE plan' = [plan EXCEPT ![r] = a] /\ Goto(r, "write")
    /\ UNCHANGED <<departments, employees, audit, job, loaded, torn, stale>>

MoveWrite(r) ==
    /\ pc[r] = "write" /\ job[r].op = "move"
    /\ dept' = IF plan[r].dept = loaded[r].dept THEN dept
               ELSE [dept EXCEPT ![On(r)] = plan[r].dept]
    /\ text' = IF plan[r].text = loaded[r].text THEN text
               ELSE [text EXCEPT ![On(r)] = plan[r].text]
    /\ stale' = IF active[On(r)] THEN stale \cup Deletions(dept'[On(r)]) ELSE stale
    /\ Committed(r)
    /\ UNCHANGED <<departments, registered, active, audit, job, loaded, plan, torn>>

\* delete_employee and restore_employee, as far as departments see them: the
\* row keeps its department.
StandingLoad(r, e, op) ==
    /\ Arrive(r, op, e, None, NoWish)
    /\ LoadEmployee(r, e)
    /\ IF e \in registered THEN Goto(r, "write") ELSE Reply(r, 404)
    /\ UNCHANGED <<departments, employees, audit, plan>>

StandingWrite(r, op, standing) ==
    /\ pc[r] = "write" /\ job[r].op = op
    /\ active' = IF loaded[r].active = standing THEN active
                 ELSE [active EXCEPT ![On(r)] = standing]
    /\ stale' = IF active'[On(r)] THEN stale \cup Deletions(dept[On(r)]) ELSE stale
    /\ Committed(r)
    /\ UNCHANGED <<departments, registered, dept, text, audit, job, loaded, plan, torn>>

LeaveWrite(r) == StandingWrite(r, "leave", FALSE)
ReturnWrite(r) == StandingWrite(r, "return", TRUE)

-----------------------------------------------------------------------------
\* _record_audit, in a commit of its own.
AuditWrite(r) ==
    /\ pc[r] = "audit"
    /\ audit' = audit \cup {r}
    /\ Reply(r, 200) \/ Reply(r, 500)
    /\ UNCHANGED <<departments, employees, job, loaded, plan, torn, stale>>

\* A blank name (400); a failed SELECT or commit, the death of the pod (500).
Fail(r) ==
    /\ r \in InFlight
    /\ \E code \in {400, 500} : Reply(r, code)
    /\ UNCHANGED <<departments, employees, audit, job, loaded, plan, torn, stale>>

Begin(r) ==
    \/ \E name \in Names : CreateFind(r, name)
    \/ \E d \in Departments, name \in Names : RenameLoad(r, d, name)
    \/ \E d \in Departments : DeleteLoad(r, d) \/ RestoreLoad(r, d)
    \/ \E e \in Employees, wish \in Wishes : HireResolve(r, e, wish) \/ MoveLoad(r, e, wish)
    \/ \E e \in Employees, op \in {"leave", "return"} : StandingLoad(r, e, op)

Continue(r) ==
    \/ \E d \in Departments : CreateWrite(r, d)
    \/ RenameFind(r)
    \/ RenameWrite(r)
    \/ DeleteCount(r)
    \/ DeleteWrite(r)
    \/ RestoreWrite(r)
    \/ HireWrite(r)
    \/ MoveResolve(r)
    \/ MoveWrite(r)
    \/ LeaveWrite(r)
    \/ ReturnWrite(r)
    \/ AuditWrite(r)
    \/ Fail(r)

Next == \E r \in Requests : Begin(r) \/ Continue(r)

Spec == Init /\ [][Next]_vars
-----------------------------------------------------------------------------
TypeOK ==
    /\ dName \in [Departments -> Names \cup {None}]
    /\ dActive \in [Departments -> BOOLEAN]
    /\ dDeleted \in [Departments -> BOOLEAN]
    /\ registered \subseteq Employees
    /\ active \in [Employees -> BOOLEAN]
    /\ dept \in [Employees -> Departments \cup {None}]
    /\ text \in [Employees -> Names \cup Texts \cup {None}]
    /\ audit \subseteq Requests
    /\ pc \in [Requests -> Places]
    /\ job \in [Requests -> Jobs]
    /\ loaded \in [Requests -> Loads]
    /\ plan \in [Requests -> Assignments]
    /\ answer \in [Requests -> {0, 200, 400, 404, 409, 500}]
    /\ everNamed \in [Departments -> SUBSET Names]
    /\ torn \subseteq Employees
    /\ stale \subseteq Requests

\* departments.active and departments.deleted_at tell the same story under any
\* overlap, although each handler writes only the columns that differ from what
\* it loaded: unlike that of employees, delete_department takes active rows only.
DepartmentConsistent == \A d \in Departments : dActive[d] <=> ~dDeleted[d]

\* No two departments have one name, deactivated ones included, whatever the
\* lookups of racing requests returned.
NamesUnique ==
    \A c, d \in Departments : Present(c) /\ dName[c] = dName[d] => c = d

\* An active employee assigned to a department that is not.
Stranded(e) == e \in registered /\ active[e] /\ dept[e] # None /\ ~Open(dept[e])

\* "department has active employees" keeps a department in use from being
\* deactivated, and nobody is assigned to a deactivated one: only the return of
\* a former employee strands anybody, whatever overlaps, or the commit of a
\* request that another one has overtaken between its check and that commit.
StrandedByReturnOrRace ==
    [][\A e \in Employees : Stranded(e)' /\ ~Stranded(e) =>
        \/ e \in registered /\ ~active[e]
        \/ \E r \in stale : pc[r] = "write" /\ pc'[r] # "write"]_vars

\* The department shown with an employee has been the name of the department
\* the employee is assigned to, now or before a rename, unless two updates of
\* this employee were once under way at the same time.
TextIsOfDepartment ==
    \A e \in Employees \ torn : dept[e] # None => text[e] \in everNamed[dept[e]]

\* DELETE /departments/{id} answers 409 "department has active employees"
\* (test_admin_api.py:113): an active employee's department is active.
NobodyStranded == \A e \in Employees : ~Stranded(e)
=============================================================================
