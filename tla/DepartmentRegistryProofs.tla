---------------------- MODULE DepartmentRegistryProofs ----------------------
(***************************************************************************)
(* The invariants of DepartmentRegistry for any number of requests,        *)
(* departments, employees and names, under any overlap: first the tables   *)
(* alone, then the tables against what the requests under way have read.   *)
(* The model runs reach neither the race of two deactivations with a       *)
(* restoration nor a third department.                                     *)
(***************************************************************************)
EXTENDS DepartmentRegistry, TLAPS

\* A request stands only where its operation can take it, with a job for the
\* kind of row its operation is about.
Placed ==
    \A r \in Requests :
        /\ pc[r] = "find" => job[r].op = "rename"
        /\ pc[r] = "count" => job[r].op = "delete"
        /\ pc[r] = "resolve" => job[r].op = "move"

\* What a handler has loaded of the department it is to write.
LoadedActive ==
    \A r \in InFlight :
        /\ job[r].op = "delete" => loaded[r].active
        /\ job[r].op = "restore" => (loaded[r].active <=> ~loaded[r].deleted)

IInv == TypeOK /\ Placed /\ LoadedActive /\ DepartmentConsistent /\ NamesUnique

\* At first there is one department, active, and no request.
LEMMA InitInv == Init => IInv
<1> SUFFICES ASSUME Init PROVE IInv
  OBVIOUS
<1> USE RegistryAssumption
<1>1. TypeOK
  <2>1. job \in [Requests -> Jobs]
    BY DEF Init, Jobs
  <2>2. pc \in [Requests -> Places]
    BY DEF Init, Places
  <2>3. loaded \in [Requests -> Loads] /\ plan \in [Requests -> Assignments]
    BY DEF Init, Loads, NoLoad, Assignments
  <2>4. dActive \in [Departments -> BOOLEAN] /\ dDeleted \in [Departments -> BOOLEAN]
    BY DEF Init
  <2>5. active \in [Employees -> BOOLEAN]
    BY DEF Init
  <2>6. dName \in [Departments -> Names \cup {None}]
          /\ everNamed \in [Departments -> SUBSET Names]
    BY DEF Init
  <2>7. dept \in [Employees -> Departments \cup {None}]
          /\ text \in [Employees -> Names \cup Texts \cup {None}]
    BY DEF Init
  <2>8. answer \in [Requests -> {0, 200, 400, 404, 409, 500}]
    BY DEF Init
  <2>9. registered \subseteq Employees /\ audit \subseteq Requests
          /\ torn \subseteq Employees /\ stale \subseteq Requests
    BY DEF Init
  <2> QED
    BY <2>1, <2>2, <2>3, <2>4, <2>5, <2>6, <2>7, <2>8, <2>9 DEF TypeOK
<1>2. Placed /\ LoadedActive
  BY DEF Init, Placed, LoadedActive, InFlight
<1>3. DepartmentConsistent /\ NamesUnique
  BY DEF Init, DepartmentConsistent, NamesUnique, Present
<1> QED
  BY <1>1, <1>2, <1>3 DEF IInv

\* Where a request goes and what it is answered.
Codes == {0, 200, 400, 404, 409, 500}
Moved == pc' \in [Requests -> Places] /\ answer' \in [Requests -> Codes]

\* A move within a handler keeps the types of the places and answers.
LEMMA MoveType ==
  ASSUME TypeOK, NEW r \in Requests, NEW place \in Places, NEW code \in Codes,
         Goto(r, place) \/ Committed(r) \/ Reply(r, code)
  PROVE  Moved
<1>1. pc' = [pc EXCEPT ![r] = place] \/ pc' = [pc EXCEPT ![r] = "audit"]
        \/ pc' = [pc EXCEPT ![r] = "done"]
  BY DEF Goto, Committed, Reply
<1>2. answer' = answer \/ answer' = [answer EXCEPT ![r] = code]
        \/ answer' = [answer EXCEPT ![r] = 500]
  BY DEF Goto, Committed, Reply
<1>3. pc \in [Requests -> Places] /\ answer \in [Requests -> Codes]
  BY DEF TypeOK, Codes
<1>4. pc' \in [Requests -> Places]
  BY <1>1, <1>3 DEF Places
<1>5. answer' \in [Requests -> Codes]
  BY <1>2, <1>3 DEF Codes
<1> QED
  BY <1>4, <1>5 DEF Moved

\* The job of an operation is about a row of its kind.
LEMMA JobType ==
  ASSUME NEW j \in Jobs
  PROVE  /\ j.op \in {"rename", "delete", "restore"} => j.on \in Departments
         /\ j.op \in EmployeeOps => j.on \in Employees /\ j.wish \in Wishes
         /\ j.op \in {"create", "rename"} => j.name \in Names
<1>1. CASE j \in [op : {"create"}, on : {None}, name : Names, wish : {NoWish}]
  BY <1>1 DEF EmployeeOps
<1>2. CASE j \in [op : {"rename"}, on : Departments, name : Names, wish : {NoWish}]
  BY <1>2 DEF EmployeeOps
<1>3. CASE j \in [op : {"delete", "restore"}, on : Departments, name : {None}, wish : {NoWish}]
  BY <1>3 DEF EmployeeOps
<1>4. CASE j \in [op : EmployeeOps, on : Employees, name : {None}, wish : Wishes]
  BY <1>4 DEF EmployeeOps
<1>5. CASE j = NoJob
  BY <1>5 DEF NoJob, EmployeeOps
<1> QED
  BY <1>1, <1>2, <1>3, <1>4, <1>5 DEF Jobs

\* What is resolved for an employee is an assignment, unless it is refused.
LEMMA WishedType ==
  ASSUME TypeOK, NEW wish \in Wishes,
         NEW now \in Assignments
  PROVE  Wished(wish, now) \in Assignments \cup {Unresolved}
<1>1. ASSUME NEW d \in Departments \cup {None}, NEW t \in Names \cup Texts \cup {None}
      PROVE  Resolved(d, t) \in Assignments \cup {Unresolved}
  BY DEF Resolved, Open, Present, Assignments, TypeOK
<1>2. now.dept \in Departments \cup {None}
  BY DEF Assignments
<1>3. CASE wish \in [kind : {"id"}, value : Departments]
  BY <1>1, <1>3 DEF Wished
<1>4. CASE wish \in [kind : {"free", "text"}, value : Texts \cup {None}]
  <2>1. wish.kind \in {"free", "text"} /\ wish.value \in Names \cup Texts \cup {None}
    BY <1>4
  <2> QED
    BY <1>1, <1>2, <2>1 DEF Wished
<1>5. CASE wish = NoWish
  BY <1>5 DEF Wished, NoWish
<1> QED
  BY <1>3, <1>4, <1>5 DEF Wishes

\* A request that arrives is given a job.
LEMMA BeginType ==
  ASSUME TypeOK, NEW r \in Requests, Begin(r)
  PROVE  /\ job' \in [Requests -> Jobs]
         /\ UNCHANGED <<departments, employees, audit>>
         /\ torn' \subseteq Employees /\ UNCHANGED stale
<1>1. ASSUME NEW op, NEW on, NEW name, NEW wish, Arrive(r, op, on, name, wish),
             [op |-> op, on |-> on, name |-> name, wish |-> wish] \in Jobs,
             op = "move" => on \in Employees
      PROVE  job' \in [Requests -> Jobs] /\ torn' \subseteq Employees
  BY <1>1 DEF Arrive, TypeOK
<1>2. ASSUME NEW name \in Names, CreateFind(r, name)
      PROVE  job' \in [Requests -> Jobs] /\ torn' \subseteq Employees
  <2>1. [op |-> "create", on |-> None, name |-> name, wish |-> NoWish] \in Jobs
    BY DEF Jobs
  <2> QED
    BY <1>1, <1>2, <2>1 DEF CreateFind
<1>3. ASSUME NEW d \in Departments, NEW name \in Names, RenameLoad(r, d, name)
      PROVE  job' \in [Requests -> Jobs] /\ torn' \subseteq Employees
  <2>1. [op |-> "rename", on |-> d, name |-> name, wish |-> NoWish] \in Jobs
    BY DEF Jobs
  <2> QED
    BY <1>1, <1>3, <2>1 DEF RenameLoad
<1>4. ASSUME NEW d \in Departments, DeleteLoad(r, d) \/ RestoreLoad(r, d)
      PROVE  job' \in [Requests -> Jobs] /\ torn' \subseteq Employees
  <2>1. \A op \in {"delete", "restore"} :
           [op |-> op, on |-> d, name |-> None, wish |-> NoWish] \in Jobs
    BY DEF Jobs
  <2> QED
    BY <1>1, <1>4, <2>1 DEF DeleteLoad, RestoreLoad
<1>5. \A e \in Employees, wish \in Wishes, op \in EmployeeOps :
         [op |-> op, on |-> e, name |-> None, wish |-> wish] \in Jobs
  BY DEF Jobs
<1>6. ASSUME NEW e \in Employees, NEW wish \in Wishes, HireResolve(r, e, wish) \/ MoveLoad(r, e, wish)
      PROVE  job' \in [Requests -> Jobs] /\ torn' \subseteq Employees
  BY <1>1, <1>5, <1>6 DEF HireResolve, MoveLoad, EmployeeOps
<1>7. ASSUME NEW e \in Employees, NEW op \in {"leave", "return"}, StandingLoad(r, e, op)
      PROVE  job' \in [Requests -> Jobs] /\ torn' \subseteq Employees
  <2>1. NoWish \in Wishes
    BY DEF Wishes
  <2> QED
    BY <1>1, <1>5, <1>7, <2>1 DEF StandingLoad, EmployeeOps
<1>8. UNCHANGED <<departments, employees, audit, stale>>
  BY DEF Begin, CreateFind, RenameLoad, DeleteLoad, RestoreLoad, HireResolve, MoveLoad, StandingLoad,
         Arrive
<1> QED
  BY <1>2, <1>3, <1>4, <1>6, <1>7, <1>8 DEF Begin

\* Switching one flag of a table leaves a table of flags.
LEMMA FlagType ==
  ASSUME NEW S, NEW f \in [S -> BOOLEAN], NEW g, NEW x,
         g = f \/ g = [f EXCEPT ![x] = TRUE] \/ g = [f EXCEPT ![x] = FALSE]
  PROVE  g \in [S -> BOOLEAN]
  OBVIOUS

\* Whoever is outdated is a request.
LEMMA StaleType ==
  ASSUME TypeOK, NEW d, stale' \in {stale, stale \cup Deletions(d), stale \cup Assignings(d)}
  PROVE  stale' \subseteq Requests
  BY DEF TypeOK, Deletions, Assignings

\* Every step of a handler keeps the types.
LEMMA TypeStep == TypeOK /\ Placed /\ [Next]_vars => TypeOK'
<1> SUFFICES ASSUME TypeOK, Placed, [Next]_vars PROVE TypeOK'
  OBVIOUS
<1> USE RegistryAssumption
<1>1. CASE UNCHANGED vars
  BY <1>1 DEF vars, TypeOK, departments, employees
<1>2. ASSUME NEW r \in Requests, Begin(r) PROVE TypeOK'
  <2>1. Moved
    BY <1>2, MoveType DEF Begin, CreateFind, RenameLoad, DeleteLoad, RestoreLoad,
                          HireResolve, MoveLoad, StandingLoad, Places, Codes
  <2>2. loaded' \in [Requests -> Loads]
    <3>1. ASSUME NEW d \in Departments, LoadDepartment(r, d) PROVE loaded' \in [Requests -> Loads]
      <4> DEFINE row == [active |-> dActive[d], deleted |-> dDeleted[d], name |-> dName[d],
                         dept |-> None, text |-> None]
      <4>1. dActive[d] \in BOOLEAN /\ dDeleted[d] \in BOOLEAN
        BY DEF TypeOK
      <4>2. row \in Loads
        BY <4>1 DEF Loads, TypeOK
      <4>3. loaded' = [loaded EXCEPT ![r] = row]
        BY <3>1 DEF LoadDepartment
      <4> QED
        BY <4>2, <4>3 DEF TypeOK
    <3>2. ASSUME NEW e \in Employees, LoadEmployee(r, e) PROVE loaded' \in [Requests -> Loads]
      <4> DEFINE row == [active |-> active[e], deleted |-> FALSE, name |-> None,
                         dept |-> dept[e], text |-> text[e]]
      <4>1. active[e] \in BOOLEAN
        BY DEF TypeOK
      <4>2. row \in Loads
        BY <4>1 DEF Loads, TypeOK
      <4>3. loaded' = [loaded EXCEPT ![r] = row]
        BY <3>2 DEF LoadEmployee
      <4> QED
        BY <4>2, <4>3 DEF TypeOK
    <3>3. UNCHANGED loaded => loaded' \in [Requests -> Loads]
      BY DEF TypeOK
    <3> QED
      BY <1>2, <3>1, <3>2, <3>3 DEF Begin, CreateFind, RenameLoad, DeleteLoad, RestoreLoad,
                                    HireResolve, MoveLoad, StandingLoad
  <2>3. plan' \in [Requests -> Assignments]
    <3>1. CASE UNCHANGED plan
      BY <3>1 DEF TypeOK
    <3>2. ASSUME NEW e \in Employees, NEW wish \in Wishes, HireResolve(r, e, wish), ~UNCHANGED plan
          PROVE  plan' \in [Requests -> Assignments]
      <4>1. wish.kind \in {"id", "free"}
              /\ plan' = [plan EXCEPT ![r] = Wished(wish, NoLoad)]
              /\ Wished(wish, NoLoad) # Unresolved
        BY <3>2 DEF HireResolve
      <4>2. Wished(wish, NoLoad) = Wished(wish, [dept |-> None, text |-> None])
        BY <4>1 DEF Wished
      <4>3. Wished(wish, NoLoad) \in Assignments
        BY <4>1, <4>2, WishedType DEF Assignments
      <4> QED
        BY <4>1, <4>3 DEF TypeOK
    <3> QED
      BY <1>2, <3>1, <3>2 DEF Begin, CreateFind, RenameLoad, DeleteLoad, RestoreLoad,
                              MoveLoad, StandingLoad
  <2> QED
    BY <1>2, <2>1, <2>2, <2>3, BeginType DEF Moved, Codes, TypeOK, departments, employees
<1>3. ASSUME NEW r \in Requests, Continue(r) PROVE TypeOK'
  <2> USE StaleType
  <2>1. ASSUME NEW d \in Departments, CreateWrite(r, d) PROVE TypeOK'
    <3>1. Moved
      BY <2>1, MoveType DEF CreateWrite, Places, Codes
    <3>2. job[r].name \in Names
      BY <2>1, JobType DEF CreateWrite, TypeOK
    <3>3. dName' \in [Departments -> Names \cup {None}] /\ everNamed' \in [Departments -> SUBSET Names]
      BY <2>1, <3>2 DEF CreateWrite, TypeOK, departments
    <3>4. dActive' \in [Departments -> BOOLEAN] /\ dDeleted' \in [Departments -> BOOLEAN]
      <4>1. /\ dActive' = dActive \/ dActive' = [dActive EXCEPT ![d] = TRUE]
            /\ dDeleted' = dDeleted \/ dDeleted' = [dDeleted EXCEPT ![d] = FALSE]
        BY <2>1 DEF CreateWrite, departments
      <4> QED
        BY <4>1, FlagType DEF TypeOK
    <3> QED
      BY <2>1, <3>1, <3>3, <3>4 DEF CreateWrite, Moved, Codes, TypeOK, employees
  <2>2. CASE RenameFind(r) \/ DeleteCount(r) \/ Fail(r)
    <3>1. Moved
      BY <2>2, MoveType DEF RenameFind, DeleteCount, Fail, Places, Codes
    <3> QED
      BY <2>2, <3>1 DEF RenameFind, DeleteCount, Fail, Moved, Codes, TypeOK, departments, employees
  <2>3. CASE RenameWrite(r)
    <3>1. Moved
      BY <2>3, MoveType DEF RenameWrite, Places, Codes
    <3>2. job[r].name \in Names /\ On(r) \in Departments
      BY <2>3, JobType DEF RenameWrite, TypeOK, On
    <3>3. dName' \in [Departments -> Names \cup {None}] /\ everNamed' \in [Departments -> SUBSET Names]
      BY <2>3, <3>2 DEF RenameWrite, TypeOK, departments
    <3>4. UNCHANGED <<dActive, dDeleted>>
      BY <2>3 DEF RenameWrite, departments
    <3> QED
      BY <2>3, <3>1, <3>3, <3>4 DEF RenameWrite, Moved, Codes, TypeOK, employees
  <2>4. CASE DeleteWrite(r) \/ RestoreWrite(r)
    <3>1. Moved
      BY <2>4, MoveType DEF DeleteWrite, RestoreWrite, Places, Codes
    <3>2. dActive' \in [Departments -> BOOLEAN] /\ dDeleted' \in [Departments -> BOOLEAN]
      <4>1. /\ \/ dActive' = dActive
               \/ dActive' = [dActive EXCEPT ![On(r)] = FALSE]
               \/ dActive' = [dActive EXCEPT ![On(r)] = TRUE]
            /\ \/ dDeleted' = dDeleted
               \/ dDeleted' = [dDeleted EXCEPT ![On(r)] = TRUE]
               \/ dDeleted' = [dDeleted EXCEPT ![On(r)] = FALSE]
        BY <2>4 DEF DeleteWrite, RestoreWrite
      <4> QED
        BY <4>1, FlagType DEF TypeOK
    <3> QED
      BY <2>4, <3>1, <3>2 DEF DeleteWrite, RestoreWrite, Moved, Codes, TypeOK, employees
  <2>5. CASE HireWrite(r) \/ MoveWrite(r)
    <3>1. Moved
      BY <2>5, MoveType DEF HireWrite, MoveWrite, Places, Codes
    <3>2. On(r) \in Employees
      BY <2>5, JobType DEF HireWrite, MoveWrite, TypeOK, On, EmployeeOps
    <3>3. registered' \subseteq Employees /\ active' \in [Employees -> BOOLEAN]
      <4>1. active' = active \/ active' = [active EXCEPT ![On(r)] = TRUE]
        BY <2>5 DEF HireWrite, MoveWrite, employees
      <4>2. active' \in [Employees -> BOOLEAN]
        BY <4>1, FlagType DEF TypeOK
      <4> QED
        BY <2>5, <3>2, <4>2 DEF HireWrite, MoveWrite, TypeOK, employees
    <3>4. plan[r].dept \in Departments \cup {None} /\ plan[r].text \in Names \cup Texts \cup {None}
      BY DEF TypeOK, Assignments
    <3>5. dept' \in [Employees -> Departments \cup {None}]
      BY <2>5, <3>4 DEF HireWrite, MoveWrite, TypeOK, employees
    <3>6. text' \in [Employees -> Names \cup Texts \cup {None}]
      BY <2>5, <3>4 DEF HireWrite, MoveWrite, TypeOK, employees
    <3> QED
      BY <2>5, <3>1, <3>3, <3>5, <3>6 DEF HireWrite, MoveWrite, Moved, Codes, TypeOK, departments
  <2>6. CASE MoveResolve(r)
    <3> DEFINE a == Wished(job[r].wish, [dept |-> loaded[r].dept, text |-> loaded[r].text])
    <3>1. Moved
      BY <2>6, MoveType DEF MoveResolve, Places, Codes
    <3>2. job[r].wish \in Wishes
      BY <2>6, JobType DEF MoveResolve, Placed, EmployeeOps, TypeOK
    <3>3. [dept |-> loaded[r].dept, text |-> loaded[r].text] \in Assignments
      BY DEF TypeOK, Loads, Assignments
    <3>4. a \in Assignments \cup {Unresolved}
      BY <3>2, <3>3, WishedType
    <3>5. plan' = plan \/ (a # Unresolved /\ plan' = [plan EXCEPT ![r] = a])
      BY <2>6 DEF MoveResolve
    <3>6. plan' \in [Requests -> Assignments]
      BY <3>4, <3>5 DEF TypeOK
    <3> QED
      BY <2>6, <3>1, <3>6 DEF MoveResolve, Moved, Codes, TypeOK, departments, employees
  <2>7. CASE LeaveWrite(r) \/ ReturnWrite(r)
    <3>1. Moved
      BY <2>7, MoveType DEF LeaveWrite, ReturnWrite, StandingWrite, Places, Codes
    <3>2. active' \in [Employees -> BOOLEAN]
      <4>1. \/ active' = active
            \/ active' = [active EXCEPT ![On(r)] = FALSE]
            \/ active' = [active EXCEPT ![On(r)] = TRUE]
        BY <2>7 DEF LeaveWrite, ReturnWrite, StandingWrite
      <4> QED
        BY <4>1, FlagType DEF TypeOK
    <3> QED
      BY <2>7, <3>1, <3>2
         DEF LeaveWrite, ReturnWrite, StandingWrite, Moved, Codes, TypeOK, departments
  <2>8. CASE AuditWrite(r)
    <3>1. Moved
      BY <2>8, MoveType DEF AuditWrite, Places, Codes
    <3> QED
      BY <2>8, <3>1 DEF AuditWrite, Moved, Codes, TypeOK, departments, employees
  <2> QED
    BY <1>3, <2>1, <2>2, <2>3, <2>4, <2>5, <2>6, <2>7, <2>8 DEF Continue
<1> QED
  BY <1>1, <1>2, <1>3 DEF Next

\* A request moves nobody else and touches nobody else's job, load or plan.
LEMMA OwnSteps ==
  ASSUME TypeOK, NEW r \in Requests, Begin(r) \/ Continue(r)
  PROVE  \A q \in Requests \ {r} :
             pc'[q] = pc[q] /\ job'[q] = job[q] /\ loaded'[q] = loaded[q] /\ plan'[q] = plan[q]
<1>1. CASE Begin(r)
  BY <1>1 DEF Begin, CreateFind, RenameLoad, DeleteLoad, RestoreLoad, HireResolve, MoveLoad,
              StandingLoad, Arrive, LoadDepartment, LoadEmployee, Goto, Reply, TypeOK
<1>2. CASE Continue(r)
  BY <1>2 DEF Continue, CreateWrite, RenameFind, RenameWrite, DeleteCount, DeleteWrite,
              RestoreWrite, HireWrite, MoveResolve, MoveWrite, LeaveWrite, ReturnWrite,
              StandingWrite, AuditWrite, Fail, Committed, Goto, Reply, TypeOK
<1> QED
  BY <1>1, <1>2

\* Within a handler the job and what was loaded stay as they are.
LEMMA KeepsJob ==
  ASSUME NEW r \in Requests, Continue(r)
  PROVE  UNCHANGED <<job, loaded, torn>> /\ r \in InFlight
<1>1. UNCHANGED <<job, loaded, torn>>
  BY DEF Continue, CreateWrite, RenameFind, RenameWrite, DeleteCount, DeleteWrite,
         RestoreWrite, HireWrite, MoveResolve, MoveWrite, LeaveWrite, ReturnWrite,
         StandingWrite, AuditWrite, Fail
<1>2. r \in InFlight
  BY DEF Continue, CreateWrite, RenameFind, RenameWrite, DeleteCount, DeleteWrite,
         RestoreWrite, HireWrite, MoveResolve, MoveWrite, LeaveWrite, ReturnWrite,
         StandingWrite, AuditWrite, Fail, InFlight
<1> QED
  BY <1>1, <1>2

\* Lookups come before the write, and belong to one operation each.
LEMMA PlacedStep == IInv /\ [Next]_vars => Placed'
<1> SUFFICES ASSUME IInv, [Next]_vars PROVE Placed'
  OBVIOUS
<1> USE DEF IInv, Placed
<1>1. CASE UNCHANGED vars
  BY <1>1 DEF vars
<1>2. ASSUME NEW r \in Requests, Begin(r) PROVE Placed'
  <2>1. /\ pc'[r] = "find" => job'[r].op = "rename"
        /\ pc'[r] = "count" => job'[r].op = "delete"
        /\ pc'[r] = "resolve" => job'[r].op = "move"
    BY <1>2 DEF Begin, CreateFind, RenameLoad, DeleteLoad, RestoreLoad, HireResolve, MoveLoad,
                StandingLoad, Arrive, Goto, Reply, TypeOK
  <2> QED
    BY <1>2, <2>1, OwnSteps
<1>3. ASSUME NEW r \in Requests, Continue(r) PROVE Placed'
  <2>1. pc'[r] \notin {"find", "count", "resolve"}
    BY <1>3 DEF Continue, CreateWrite, RenameFind, RenameWrite, DeleteCount, DeleteWrite,
                RestoreWrite, HireWrite, MoveResolve, MoveWrite, LeaveWrite, ReturnWrite,
                StandingWrite, AuditWrite, Fail, Committed, Goto, Reply, TypeOK
  <2> QED
    BY <1>3, <2>1, OwnSteps
<1> QED
  BY <1>1, <1>2, <1>3 DEF Next

\* delete_department goes on only with an active row, and what either handler
\* loaded was consistent.
LEMMA LoadedActiveStep == IInv /\ [Next]_vars => LoadedActive'
<1> SUFFICES ASSUME IInv, [Next]_vars PROVE LoadedActive'
  OBVIOUS
<1> USE DEF IInv, LoadedActive, InFlight
<1>1. CASE UNCHANGED vars
  BY <1>1 DEF vars
<1>2. ASSUME NEW r \in Requests, Begin(r) PROVE LoadedActive'
  <2>1. ASSUME NEW d \in Departments, DeleteLoad(r, d), pc'[r] # "done"
        PROVE  loaded'[r].active /\ job'[r].op = "delete"
    BY <2>1 DEF DeleteLoad, LoadDepartment, Open, Arrive, Reply, TypeOK
  <2>2. ASSUME NEW d \in Departments, RestoreLoad(r, d)
        PROVE  (loaded'[r].active <=> ~loaded'[r].deleted) /\ job'[r].op = "restore"
    BY <2>2 DEF RestoreLoad, LoadDepartment, Arrive, TypeOK, DepartmentConsistent
  <2>3. \/ job'[r].op \notin {"delete", "restore"}
        \/ \E d \in Departments : DeleteLoad(r, d) \/ RestoreLoad(r, d)
    BY <1>2 DEF Begin, CreateFind, RenameLoad, HireResolve, MoveLoad, StandingLoad, Arrive, TypeOK
  <2>4. pc'[r] # "done" =>
          /\ job'[r].op = "delete" => loaded'[r].active
          /\ job'[r].op = "restore" => (loaded'[r].active <=> ~loaded'[r].deleted)
    BY <2>1, <2>2, <2>3
  <2> QED
    BY <1>2, <2>4, OwnSteps
<1>3. ASSUME NEW r \in Requests, Continue(r) PROVE LoadedActive'
  BY <1>3, KeepsJob, OwnSteps
<1> QED
  BY <1>1, <1>2, <1>3 DEF Next

\* Each handler writes both columns or, finding them as they should be, neither.
LEMMA ConsistentStep == IInv /\ [Next]_vars => DepartmentConsistent'
<1> SUFFICES ASSUME IInv, [Next]_vars PROVE DepartmentConsistent'
  OBVIOUS
<1> USE DEF IInv, DepartmentConsistent
<1>1. CASE UNCHANGED <<dActive, dDeleted>>
  BY <1>1
<1>2. ASSUME NEW r \in Requests, NEW d \in Departments, CreateWrite(r, d)
      PROVE  DepartmentConsistent'
  BY <1>2 DEF CreateWrite, TypeOK, departments
<1>3. ASSUME NEW r \in Requests, DeleteWrite(r) PROVE DepartmentConsistent'
  <2>1. loaded[r].active
    BY <1>3 DEF LoadedActive, InFlight, DeleteWrite
  <2> QED
    BY <1>3, <2>1 DEF DeleteWrite, TypeOK
<1>4. ASSUME NEW r \in Requests, RestoreWrite(r) PROVE DepartmentConsistent'
  <2>1. loaded[r].active <=> ~loaded[r].deleted
    BY <1>4 DEF LoadedActive, InFlight, RestoreWrite
  <2> QED
    BY <1>4, <2>1 DEF RestoreWrite, TypeOK
<1>5. [Next]_vars => \/ UNCHANGED <<dActive, dDeleted>>
                     \/ \E r \in Requests : \/ \E d \in Departments : CreateWrite(r, d)
                                            \/ DeleteWrite(r) \/ RestoreWrite(r)
  <2>1. ASSUME NEW r \in Requests, Begin(r) PROVE UNCHANGED <<dActive, dDeleted>>
    BY <2>1, BeginType DEF departments
  <2>2. ASSUME NEW r \in Requests, Continue(r)
        PROVE  \/ UNCHANGED <<dActive, dDeleted>>
               \/ \E d \in Departments : CreateWrite(r, d)
               \/ DeleteWrite(r) \/ RestoreWrite(r)
    BY <2>2 DEF Continue, RenameFind, RenameWrite, DeleteCount, HireWrite, MoveResolve, MoveWrite,
                LeaveWrite, ReturnWrite, StandingWrite, AuditWrite, Fail, departments
  <2> QED
    BY <2>1, <2>2 DEF Next, vars, departments
<1> QED
  BY <1>1, <1>2, <1>3, <1>4, <1>5

\* The unique index decides, not the lookup.
LEMMA UniqueStep == IInv /\ [Next]_vars => NamesUnique'
<1> SUFFICES ASSUME IInv, [Next]_vars PROVE NamesUnique'
  OBVIOUS
<1> USE DEF IInv, NamesUnique, Present
<1>1. CASE UNCHANGED dName
  BY <1>1
<1>2. ASSUME NEW d \in Departments, NEW name, ~Taken(d, name), dName' = [dName EXCEPT ![d] = name]
      PROVE  NamesUnique'
  BY <1>2 DEF Taken, TypeOK
<1>3. ASSUME NEW r \in Requests, Begin(r) \/ Continue(r)
      PROVE  \/ UNCHANGED dName
             \/ \E d \in Departments : /\ ~Taken(d, job[r].name)
                                       /\ dName' = [dName EXCEPT ![d] = job[r].name]
  <2>1. CASE Begin(r)
    BY <2>1, BeginType DEF departments
  <2>2. ASSUME NEW d \in Departments, CreateWrite(r, d), ~UNCHANGED dName
        PROVE  ~Taken(d, job[r].name) /\ dName' = [dName EXCEPT ![d] = job[r].name]
    BY <2>2 DEF CreateWrite, departments
  <2>3. CASE RenameWrite(r) /\ ~UNCHANGED dName
    <3>1. On(r) \in Departments
      BY <2>3, JobType DEF RenameWrite, TypeOK, On
    <3> QED
      BY <2>3, <3>1 DEF RenameWrite, departments
  <2>4. CASE Continue(r) /\ ~RenameWrite(r) /\ ~\E d \in Departments : CreateWrite(r, d)
    BY <2>4 DEF Continue, RenameFind, DeleteCount, DeleteWrite, RestoreWrite, HireWrite,
                MoveResolve, MoveWrite, LeaveWrite, ReturnWrite, StandingWrite, AuditWrite,
                Fail, departments
  <2> QED
    BY <1>3, <2>1, <2>2, <2>3, <2>4
<1> QED
  BY <1>1, <1>2, <1>3 DEF Next, vars, departments

\* The invariant of any overlap is inductive.
LEMMA StepInv == IInv /\ [Next]_vars => IInv'
  BY TypeStep, PlacedStep, LoadedActiveStep, ConsistentStep, UniqueStep DEF IInv

\* Every variable keeps its type under any overlap of requests.
THEOREM TypeCorrect == Spec => []TypeOK
  BY InitInv, StepInv, PTL DEF Spec, IInv

\* departments.active and departments.deleted_at never contradict each other,
\* however many deactivations and restorations of one department race.
THEOREM FlagsAgree == Spec => []DepartmentConsistent
  BY InitInv, StepInv, PTL DEF Spec, IInv

\* No two departments have one name, whatever racing lookups returned.
THEOREM NamesAreUnique == Spec => []NamesUnique
  BY InitInv, StepInv, PTL DEF Spec, IInv

-----------------------------------------------------------------------------
\* What a request has read, against the tables as other requests leave them.

\* One update at a time is under way on an employee that is not torn.
MovesAlone == \A e \in Employees \ torn : \A q, r \in Moves(e) : q = r

\* A department has had the name it has.
NamesKnown == \A d \in Departments : Present(d) => dName[d] \in everNamed[d]

\* The text a request is to write is a name of the department it writes, if it
\* has read the row as it still is; it has, unless the employee is torn.
PlannedText(r) == plan[r].dept # None => plan[r].text \in everNamed[plan[r].dept]

Drafts ==
    \A r \in Requests :
        /\ pc[r] = "write" /\ job[r].op = "hire" => PlannedText(r)
        /\ pc[r] \in {"resolve", "write"} /\ job[r].op = "move" =>
            /\ On(r) \in registered
            /\ On(r) \notin torn =>
                /\ loaded[r].dept = dept[On(r)] /\ loaded[r].text = text[On(r)]
                /\ pc[r] = "write" => PlannedText(r)

\* A request that is not outdated may write what it has checked: a department
\* to deactivate has no staff, one newly assigned is in use.
Checked(r) ==
    pc[r] = "write" =>
        /\ job[r].op = "delete" => Staff(On(r)) = {}
        /\ job[r].op \in {"hire", "move"} /\ plan[r].dept # None =>
            \/ job[r].op = "move" /\ plan[r].dept = loaded[r].dept
            \/ Open(plan[r].dept)

SInv == /\ IInv
        /\ MovesAlone
        /\ NamesKnown
        /\ Drafts
        /\ \A r \in Requests \ stale : Checked(r)
        /\ TextIsOfDepartment

\* The first employee carries the name of the first department.
LEMMA InitSInv == Init => SInv
<1> SUFFICES ASSUME Init PROVE SInv
  OBVIOUS
<1> USE RegistryAssumption
<1>1. IInv
  BY InitInv
<1>2. MovesAlone /\ Drafts /\ \A r \in Requests : Checked(r)
  BY DEF Init, MovesAlone, Moves, InFlight, Drafts, Checked
<1>3. NamesKnown /\ TextIsOfDepartment
  BY DEF Init, NamesKnown, TextIsOfDepartment, Present
<1> QED
  BY <1>1, <1>2, <1>3 DEF SInv

\* An arrival tears the employee another update is under way on.
LEMMA ArrivalTears ==
  ASSUME TypeOK, NEW r \in Requests, Begin(r)
  PROVE  /\ torn \subseteq torn'
         /\ job'[r].op = "move" /\ Moves(job'[r].on) # {} => job'[r].on \in torn'
  BY DEF Begin, CreateFind, RenameLoad, DeleteLoad, RestoreLoad, HireResolve, MoveLoad,
         StandingLoad, Arrive, TypeOK

\* What is torn or outdated stays so.
LEMMA HistoryGrows ==
  ASSUME TypeOK, NEW r \in Requests, Begin(r) \/ Continue(r)
  PROVE  torn \subseteq torn' /\ stale \subseteq stale'
<1>1. CASE Begin(r)
  BY <1>1, BeginType, ArrivalTears
<1>2. CASE Continue(r)
  BY <1>2 DEF Continue, CreateWrite, RenameFind, RenameWrite, DeleteCount, DeleteWrite,
              RestoreWrite, HireWrite, MoveResolve, MoveWrite, LeaveWrite, ReturnWrite,
              StandingWrite, AuditWrite, Fail
<1> QED
  BY <1>1, <1>2

\* So at most one update is under way on an employee that is not.
LEMMA AloneStep == TypeOK /\ MovesAlone /\ [Next]_vars => MovesAlone'
<1> SUFFICES ASSUME TypeOK, MovesAlone, [Next]_vars PROVE MovesAlone'
  OBVIOUS
<1> USE DEF MovesAlone, Moves, InFlight, On
<1>1. CASE UNCHANGED vars
  BY <1>1 DEF vars
<1>2. ASSUME NEW r \in Requests, Begin(r) PROVE MovesAlone'
  <2> SUFFICES ASSUME NEW e \in Employees, e \notin torn',
                      NEW p \in Requests, NEW q \in Requests, p # q,
                      pc'[p] \notin {"idle", "done"}, job'[p].op = "move", job'[p].on = e,
                      pc'[q] \notin {"idle", "done"}, job'[q].op = "move", job'[q].on = e
               PROVE  FALSE
    OBVIOUS
  <2>1. CASE p # r /\ q # r
    BY <1>2, <2>1, ArrivalTears, OwnSteps
  <2>2. CASE p = r \/ q = r
    BY <1>2, <2>2, ArrivalTears, OwnSteps
  <2> QED
    BY <2>1, <2>2
<1>3. ASSUME NEW r \in Requests, Continue(r) PROVE MovesAlone'
  BY <1>3, KeepsJob, OwnSteps
<1> QED
  BY <1>1, <1>2, <1>3 DEF Next

\* A department has one name at a time and none is forgotten.
LEMMA EverGrows ==
  ASSUME TypeOK, [Next]_vars
  PROVE  \A d \in Departments : everNamed[d] \subseteq everNamed'[d]
<1>1. ASSUME NEW r \in Requests, Continue(r)
      PROVE  \A d \in Departments : everNamed[d] \subseteq everNamed'[d]
  <2>1. CASE RenameWrite(r) \/ \E d \in Departments : CreateWrite(r, d)
    BY <2>1 DEF RenameWrite, CreateWrite, departments, TypeOK
  <2>2. CASE UNCHANGED everNamed
    BY <2>2
  <2> QED
    BY <1>1, <2>1, <2>2 DEF Continue, RenameFind, DeleteCount, DeleteWrite, RestoreWrite,
       HireWrite, MoveResolve, MoveWrite, LeaveWrite, ReturnWrite, StandingWrite, AuditWrite,
       Fail, departments
<1>2. ASSUME NEW r \in Requests, Begin(r)
      PROVE  \A d \in Departments : everNamed[d] \subseteq everNamed'[d]
  BY <1>2, BeginType DEF departments
<1> QED
  BY <1>1, <1>2 DEF Next, vars, departments

\* The history of names takes in every name that is written.
LEMMA KnownStep == TypeOK /\ NamesKnown /\ [Next]_vars => NamesKnown'
<1> SUFFICES ASSUME TypeOK, NamesKnown, [Next]_vars PROVE NamesKnown'
  OBVIOUS
<1> USE DEF NamesKnown, Present
<1>1. CASE UNCHANGED <<dName, everNamed>>
  BY <1>1
<1>2. ASSUME NEW d \in Departments, NEW name, dName' = [dName EXCEPT ![d] = name],
             everNamed' = [everNamed EXCEPT ![d] = @ \cup {name}]
      PROVE  NamesKnown'
  BY <1>2 DEF TypeOK
<1>3. ASSUME NEW r \in Requests, Begin(r) \/ Continue(r)
      PROVE  \/ UNCHANGED <<dName, everNamed>>
             \/ \E d \in Departments :
                   /\ dName' = [dName EXCEPT ![d] = job[r].name]
                   /\ everNamed' = [everNamed EXCEPT ![d] = @ \cup {job[r].name}]
  <2>1. CASE Begin(r)
    BY <2>1, BeginType DEF departments
  <2>2. CASE RenameWrite(r)
    <3>1. On(r) \in Departments
      BY <2>2, JobType DEF RenameWrite, TypeOK, On
    <3> QED
      BY <2>2, <3>1 DEF RenameWrite, departments
  <2>3. ASSUME NEW d \in Departments, CreateWrite(r, d)
        PROVE  \/ UNCHANGED <<dName, everNamed>>
               \/ /\ dName' = [dName EXCEPT ![d] = job[r].name]
                  /\ everNamed' = [everNamed EXCEPT ![d] = @ \cup {job[r].name}]
    BY <2>3 DEF CreateWrite, departments
  <2>4. CASE Continue(r) /\ ~RenameWrite(r) /\ ~\E d \in Departments : CreateWrite(r, d)
    BY <2>4 DEF Continue, RenameFind, DeleteCount, DeleteWrite, RestoreWrite, HireWrite,
                MoveResolve, MoveWrite, LeaveWrite, ReturnWrite, StandingWrite, AuditWrite,
                Fail, departments
  <2> QED
    BY <1>3, <2>1, <2>2, <2>3, <2>4
<1> QED
  BY <1>1, <1>2, <1>3 DEF Next, vars, departments

\* An assignment is kept, has no department, or names one in use.
LEMMA WishedFits ==
  ASSUME NEW wish \in Wishes, NEW now, now.dept = None \/ now.dept \in Departments,
         Wished(wish, now) # Unresolved
  PROVE  LET a == Wished(wish, now) IN
         \/ a = now
         \/ a.dept = None
         \/ a.dept \in Departments /\ Open(a.dept) /\ a.text = dName[a.dept]
<1>1. ASSUME NEW d, d = None \/ d \in Departments, NEW t, Resolved(d, t) # Unresolved
      PROVE  LET a == Resolved(d, t) IN
             a.dept = None
               \/ (a.dept \in Departments /\ Open(a.dept) /\ a.text = dName[a.dept])
  BY <1>1 DEF Resolved
<1>2. CASE wish \in [kind : {"id"}, value : Departments]
  BY <1>1, <1>2 DEF Wished
<1>3. CASE wish \in [kind : {"free", "text"}, value : Texts \cup {None}]
  BY <1>1, <1>3 DEF Wished
<1>4. CASE wish = NoWish
  BY <1>4 DEF Wished, NoWish
<1> QED
  BY <1>2, <1>3, <1>4 DEF Wishes

\* Who writes an employee's row: a hire, a move, a leave, a return.
LEMMA RowWriters ==
  ASSUME TypeOK, NEW r \in Requests, Begin(r) \/ Continue(r)
  PROVE  \/ UNCHANGED employees
         \/ HireWrite(r) \/ MoveWrite(r) \/ LeaveWrite(r) \/ ReturnWrite(r)
<1>1. CASE Begin(r)
  BY <1>1, BeginType
<1>2. CASE Continue(r)
  BY <1>2 DEF Continue, CreateWrite, RenameFind, RenameWrite, DeleteCount, DeleteWrite,
              RestoreWrite, MoveResolve, AuditWrite, Fail
<1> QED
  BY <1>1, <1>2

\* Another request's step leaves the row of an employee alone whose update is
\* under way, unless the employee is torn.
LEMMA RowStays ==
  ASSUME SInv, NEW r \in Requests, Begin(r) \/ Continue(r),
         NEW q \in Requests \ {r}, pc[q] \in {"resolve", "write"}, job[q].op = "move",
         On(q) \notin torn
  PROVE  dept'[On(q)] = dept[On(q)] /\ text'[On(q)] = text[On(q)]
<1> USE DEF SInv, IInv
<1>1. On(q) \in registered /\ On(q) \in Employees
  BY DEF Drafts, TypeOK
<1>2. CASE HireWrite(r)
  <2>1. On(r) # On(q) \/ UNCHANGED employees
    BY <1>1, <1>2 DEF HireWrite
  <2> QED
    BY <1>1, <1>2, <2>1 DEF HireWrite, TypeOK, employees
<1>3. CASE MoveWrite(r)
  <2>1. q \in Moves(On(q))
    BY DEF Moves, InFlight
  <2>2. r \in Moves(On(r))
    BY <1>3 DEF MoveWrite, Moves, InFlight
  <2>3. On(r) # On(q)
    BY <1>1, <2>1, <2>2 DEF MovesAlone
  <2> QED
    BY <1>1, <1>3, <2>3 DEF MoveWrite, TypeOK
<1>4. CASE LeaveWrite(r) \/ ReturnWrite(r)
  BY <1>4 DEF LeaveWrite, ReturnWrite, StandingWrite
<1>5. CASE UNCHANGED employees
  BY <1>5 DEF employees
<1> QED
  BY <1>2, <1>3, <1>4, <1>5, RowWriters

\* What a hire has resolved is a department in use, with its name.
LEMMA HirePlans ==
  ASSUME TypeOK, NamesKnown, NEW r \in Requests, Begin(r), pc'[r] = "write",
         job'[r].op = "hire", plan'[r].dept # None
  PROVE  Open(plan'[r].dept) /\ plan'[r].text \in everNamed[plan'[r].dept]
<1>1. PICK e \in Employees, wish \in Wishes : HireResolve(r, e, wish)
  BY DEF Begin, CreateFind, RenameLoad, DeleteLoad, RestoreLoad, MoveLoad, StandingLoad,
         Arrive, TypeOK
<1>2. /\ wish.kind \in {"id", "free"}
      /\ Wished(wish, NoLoad) # Unresolved
      /\ plan'[r] = Wished(wish, NoLoad)
  BY <1>1 DEF HireResolve, Reply, Arrive, TypeOK
<1>3. Wished(wish, NoLoad) = Wished(wish, [dept |-> None, text |-> None])
  BY <1>2 DEF Wished
<1>4. /\ plan'[r].dept \in Departments
      /\ Open(plan'[r].dept) /\ plan'[r].text = dName[plan'[r].dept]
  BY <1>2, <1>3, WishedFits
<1> QED
  BY <1>4 DEF NamesKnown, Open

\* What an update has resolved is what it had loaded or a department in use.
LEMMA MovePlans ==
  ASSUME SInv, NEW r \in Requests, MoveResolve(r), pc'[r] = "write", plan'[r].dept # None
  PROVE  /\ plan'[r].dept = loaded[r].dept \/ Open(plan'[r].dept)
         /\ On(r) \notin torn => plan'[r].text \in everNamed[plan'[r].dept]
<1> USE DEF SInv, IInv
<1> DEFINE now == [dept |-> loaded[r].dept, text |-> loaded[r].text]
<1> DEFINE a == Wished(job[r].wish, now)
<1>1. job[r].op = "move" /\ job[r].wish \in Wishes /\ On(r) \in Employees /\ pc[r] = "resolve"
  BY JobType DEF MoveResolve, Placed, EmployeeOps, TypeOK, On
<1>2. now.dept = None \/ now.dept \in Departments
  BY DEF TypeOK, Loads
<1>3. a # Unresolved /\ plan'[r] = a
  BY DEF MoveResolve, Reply, TypeOK
<1>4. \/ a = now
      \/ a.dept \in Departments /\ Open(a.dept) /\ a.text = dName[a.dept]
  BY <1>1, <1>2, <1>3, WishedFits
<1>5. CASE a = now
  BY <1>1, <1>3, <1>5 DEF Drafts, TextIsOfDepartment
<1>6. CASE a.dept \in Departments /\ Open(a.dept) /\ a.text = dName[a.dept]
  BY <1>3, <1>6 DEF NamesKnown, Open
<1> QED
  BY <1>4, <1>5, <1>6

\* After its write a request is through, so what is at "write" has just arrived
\* there, from a lookup.
LEMMA WriteComes ==
  ASSUME TypeOK, Placed, NEW r \in Requests, Continue(r), pc'[r] \in {"resolve", "write"}
  PROVE  /\ UNCHANGED <<departments, employees>>
         /\ pc'[r] = "write"
         /\ \/ RenameFind(r) /\ job[r].op = "rename"
            \/ DeleteCount(r) /\ job[r].op = "delete"
            \/ MoveResolve(r) /\ job[r].op = "move"
<1>1. RenameFind(r) \/ DeleteCount(r) \/ MoveResolve(r)
  BY DEF Continue, CreateWrite, RenameWrite, DeleteWrite, RestoreWrite, HireWrite, MoveWrite,
         LeaveWrite, ReturnWrite, StandingWrite, AuditWrite, Fail, Committed, Goto, Reply, TypeOK
<1> QED
  BY <1>1 DEF RenameFind, DeleteCount, MoveResolve, Placed, Goto, Reply, TypeOK

\* Drafts are made from the tables, and overtaken by other updates only.
LEMMA DraftsStep == SInv /\ [Next]_vars => Drafts'
<1> SUFFICES ASSUME SInv, [Next]_vars PROVE Drafts'
  OBVIOUS
<1> USE DEF SInv, IInv
<1>1. CASE UNCHANGED vars
  BY <1>1 DEF Drafts, PlannedText, On, vars, departments, employees
<1>2. \A d \in Departments : everNamed[d] \subseteq everNamed'[d]
  BY EverGrows
<1>3. ASSUME NEW r \in Requests, Begin(r) \/ Continue(r), NEW q \in Requests
      PROVE  /\ pc'[q] = "write" /\ job'[q].op = "hire" => PlannedText(q)'
             /\ pc'[q] \in {"resolve", "write"} /\ job'[q].op = "move" =>
                 /\ On(q)' \in registered'
                 /\ On(q)' \notin torn' =>
                     /\ loaded'[q].dept = dept'[On(q)'] /\ loaded'[q].text = text'[On(q)']
                     /\ pc'[q] = "write" => PlannedText(q)'
  <2>1. registered \subseteq registered' /\ torn \subseteq torn'
    <3>1. registered \subseteq registered'
      BY <1>3, RowWriters DEF HireWrite, MoveWrite, LeaveWrite, ReturnWrite, StandingWrite,
                              employees
    <3> QED
      BY <1>3, <3>1, HistoryGrows
  <2>2. CASE q # r
    <3>1. /\ pc'[q] = pc[q] /\ job'[q] = job[q] /\ loaded'[q] = loaded[q]
          /\ plan'[q] = plan[q] /\ On(q)' = On(q)
      BY <1>3, <2>2, OwnSteps DEF On
    <3>2. PlannedText(q) => PlannedText(q)'
      BY <1>2, <3>1 DEF PlannedText, TypeOK, Assignments
    <3>3. pc[q] \in {"resolve", "write"} /\ job[q].op = "move" /\ On(q) \notin torn =>
            dept'[On(q)] = dept[On(q)] /\ text'[On(q)] = text[On(q)]
      BY <1>3, <2>2, RowStays
    <3> QED
      BY <2>1, <3>1, <3>2, <3>3 DEF Drafts
  <2>3. CASE q = r /\ Begin(r)
    <3>1. UNCHANGED <<dept, text, registered, everNamed>>
      BY <2>3, BeginType DEF employees, departments
    <3>2. pc'[r] = "write" /\ job'[r].op = "hire" => PlannedText(r)'
      BY <2>3, <3>1, HirePlans DEF PlannedText
    <3>3. pc'[r] \in {"resolve", "write"} /\ job'[r].op = "move" =>
            /\ pc'[r] = "resolve" /\ job'[r].on \in registered
            /\ loaded'[r].dept = dept[job'[r].on]
            /\ loaded'[r].text = text[job'[r].on]
      BY <2>3 DEF Begin, CreateFind, RenameLoad, DeleteLoad, RestoreLoad, HireResolve, MoveLoad,
                  StandingLoad, LoadEmployee, Arrive, Goto, Reply, TypeOK
    <3> QED
      BY <2>3, <3>1, <3>2, <3>3 DEF On
  <2>4. CASE q = r /\ Continue(r) /\ pc'[r] \in {"resolve", "write"}
    <3>1. /\ UNCHANGED <<dept, text, registered, everNamed, job, loaded, torn>>
          /\ pc'[r] = "write" /\ job[r].op # "hire"
          /\ job[r].op = "move" => MoveResolve(r) /\ pc[r] = "resolve"
      BY <2>4, WriteComes, KeepsJob DEF employees, departments, MoveResolve
    <3>2. job[r].op = "move" /\ On(r) \notin torn => PlannedText(r)'
      BY <3>1, MovePlans DEF PlannedText
    <3> QED
      BY <2>4, <3>1, <3>2 DEF Drafts, On
  <2>5. CASE q = r /\ Continue(r) /\ pc'[r] \notin {"resolve", "write"}
    BY <2>5
  <2> QED
    BY <1>3, <2>2, <2>3, <2>4, <2>5
<1> QED
  BY <1>1, <1>3 DEF Next, Drafts

\* A department gains staff only by a commit that outdates its deletions.
LEMMA JoiningOutdates ==
  ASSUME TypeOK, NEW r \in Requests, Begin(r) \/ Continue(r), NEW d \in Departments,
         Staff(d) = {}, (Staff(d))' # {}
  PROVE  Deletions(d) \subseteq stale'
<1>1. PICK e \in registered' : active'[e] /\ dept'[e] = d
  BY DEF Staff
<1>2. ~(e \in registered /\ active[e] /\ dept[e] = d)
  BY DEF Staff
<1>3. CASE HireWrite(r)
  <2>1. ~ UNCHANGED employees
    BY <1>1, <1>2 DEF employees
  <2>2. /\ registered' = registered \cup {On(r)}
        /\ active' = [active EXCEPT ![On(r)] = TRUE]
        /\ dept' = [dept EXCEPT ![On(r)] = plan[r].dept]
        /\ stale' = stale \cup Deletions(plan[r].dept)
    BY <1>3, <2>1 DEF HireWrite, employees
  <2>3. e = On(r)
    BY <1>1, <1>2, <2>2 DEF TypeOK
  <2>4. e \in Employees
    BY <1>3, <2>3, JobType DEF HireWrite, TypeOK, EmployeeOps, On
  <2>5. dept'[e] = plan[r].dept
    BY <2>2, <2>3, <2>4 DEF TypeOK
  <2> QED
    BY <1>1, <2>2, <2>5
<1>4. CASE MoveWrite(r)
  <2>1. e = On(r) /\ active[e]
    BY <1>1, <1>2, <1>4 DEF MoveWrite, TypeOK
  <2>2. dept'[On(r)] = d
    BY <1>1, <2>1
  <2> QED
    BY <1>4, <2>1, <2>2 DEF MoveWrite
<1>5. CASE LeaveWrite(r) \/ ReturnWrite(r)
  <2>1. e = On(r) /\ dept[e] = d
    BY <1>1, <1>2, <1>5 DEF LeaveWrite, ReturnWrite, StandingWrite, TypeOK
  <2> QED
    BY <1>1, <1>5, <2>1 DEF LeaveWrite, ReturnWrite, StandingWrite
<1> QED
  BY <1>1, <1>2, <1>3, <1>4, <1>5, RowWriters DEF employees

\* A department goes out of use only by a commit that outdates those who are
\* about to assign somebody to it.
LEMMA ClosingOutdates ==
  ASSUME TypeOK, NEW r \in Requests, Begin(r) \/ Continue(r), NEW d \in Departments,
         Open(d), ~(Open(d))'
  PROVE  DeleteWrite(r) /\ On(r) = d /\ Assignings(d) \subseteq stale'
<1> USE DEF Open, Present
<1>1. CASE UNCHANGED departments
  BY <1>1 DEF departments
<1>2. ASSUME NEW c \in Departments, CreateWrite(r, c) PROVE FALSE
  BY <1>2 DEF CreateWrite, TypeOK, departments
<1>3. CASE RenameWrite(r)
  <2>1. job[r].name \in Names
    BY <1>3, JobType DEF RenameWrite, TypeOK
  <2> QED
    BY <1>3, <2>1, RegistryAssumption DEF RenameWrite, TypeOK, departments
<1>4. CASE RestoreWrite(r)
  BY <1>4 DEF RestoreWrite, TypeOK
<1>5. CASE DeleteWrite(r)
  <2>1. On(r) = d
    BY <1>5 DEF DeleteWrite, TypeOK
  <2> QED
    BY <1>5, <2>1 DEF DeleteWrite
<1>6. CASE Begin(r)
  BY <1>1, <1>6, BeginType
<1> QED
  BY <1>1, <1>2, <1>3, <1>4, <1>5, <1>6
     DEF Continue, RenameFind, DeleteCount, HireWrite, MoveResolve, MoveWrite, LeaveWrite,
         ReturnWrite, StandingWrite, AuditWrite, Fail

\* What a request has checked holds until it is outdated.
LEMMA CheckedStep == SInv /\ [Next]_vars => \A q \in Requests \ stale' : Checked(q)'
<1> SUFFICES ASSUME SInv, [Next]_vars, NEW q \in Requests, q \notin stale' PROVE Checked(q)'
  OBVIOUS
<1> USE DEF SInv, IInv
<1>1. CASE UNCHANGED vars
  BY <1>1 DEF Checked, On, Staff, Open, Present, vars, departments, employees
<1>2. ASSUME NEW r \in Requests, Begin(r) \/ Continue(r), q # r PROVE Checked(q)'
  <2>1. /\ pc'[q] = pc[q] /\ job'[q] = job[q] /\ loaded'[q] = loaded[q]
        /\ plan'[q] = plan[q] /\ On(q)' = On(q)
    BY <1>2, OwnSteps DEF On
  <2>2. Checked(q)
    BY <1>2, HistoryGrows
  <2>3. ASSUME pc[q] = "write", job[q].op = "delete" PROVE (Staff(On(q)))' = {}
    <3>1. On(q) \in Departments
      BY <2>3, JobType DEF TypeOK, On
    <3>2. PICK d \in Departments : d = On(q)
      BY <3>1
    <3>3. q \in Deletions(d) /\ Staff(d) = {}
      BY <2>2, <2>3, <3>2 DEF Deletions, Checked
    <3>4. (Staff(d))' = {}
      BY <1>2, <3>3, JoiningOutdates
    <3>5. (Staff(On(q)))' = (Staff(d))'
      BY <2>1, <3>2 DEF Staff
    <3> QED
      BY <3>4, <3>5
  <2>4. ASSUME pc[q] = "write", job[q].op \in {"hire", "move"}, plan[q].dept # None,
               Open(plan[q].dept)
        PROVE  (Open(plan[q].dept))'
    <3>1. PICK d \in Departments : d = plan[q].dept
      BY <2>4 DEF TypeOK, Assignments
    <3>2. q \in Assignings(d)
      BY <2>4, <3>1 DEF Assignings
    <3>3. (Open(d))'
      BY <1>2, <2>4, <3>1, <3>2, ClosingOutdates
    <3> QED
      BY <2>1, <3>1, <3>3 DEF Open, Present
  <2> QED
    BY <2>1, <2>2, <2>3, <2>4 DEF Checked
<1>3. ASSUME Begin(q) PROVE Checked(q)'
  <2>1. UNCHANGED departments
    BY <1>3, BeginType
  <2>2. pc'[q] = "write" => job'[q].op \notin {"delete", "move"}
    BY <1>3 DEF Begin, CreateFind, RenameLoad, DeleteLoad, RestoreLoad, HireResolve, MoveLoad,
                StandingLoad, Arrive, Goto, Reply, TypeOK
  <2>3. pc'[q] = "write" /\ job'[q].op = "hire" /\ plan'[q].dept # None => Open(plan'[q].dept)
    BY <1>3, HirePlans
  <2>4. Open(plan'[q].dept) => (Open(plan[q].dept))'
    BY <2>1 DEF Open, Present, departments
  <2> QED
    BY <2>2, <2>3, <2>4 DEF Checked
<1>4. ASSUME Continue(q), pc'[q] = "write" PROVE Checked(q)'
  <2>1. UNCHANGED <<departments, employees, job, loaded>>
    BY <1>4, WriteComes, KeepsJob
  <2>2. CASE DeleteCount(q) /\ job[q].op = "delete"
    <3>1. Staff(On(q)) = {}
      BY <1>4, <2>2 DEF DeleteCount, Reply, TypeOK
    <3>2. (Staff(On(q)))' = {}
      BY <2>1, <3>1 DEF Staff, On, employees
    <3> QED
      BY <2>1, <2>2, <3>2 DEF Checked
  <2>3. CASE MoveResolve(q) /\ job[q].op = "move"
    <3>1. plan'[q].dept # None => plan'[q].dept = loaded[q].dept \/ Open(plan'[q].dept)
      BY <1>4, <2>3, MovePlans
    <3>2. Open(plan'[q].dept) => (Open(plan[q].dept))'
      BY <2>1 DEF Open, Present, departments
    <3> QED
      BY <2>1, <2>3, <3>1, <3>2 DEF Checked
  <2>4. CASE job[q].op = "rename"
    BY <2>1, <2>4 DEF Checked
  <2> QED
    BY <1>4, <2>2, <2>3, <2>4, WriteComes
<1>5. pc'[q] # "write" => Checked(q)'
  BY DEF Checked
<1> QED
  BY <1>1, <1>2, <1>3, <1>4, <1>5 DEF Next

\* The text written with a department is one of its names.
LEMMA TextStep == SInv /\ [Next]_vars => TextIsOfDepartment'
<1> SUFFICES ASSUME SInv, [Next]_vars, NEW e \in Employees, e \notin torn',
                    (dept[e])' # None
             PROVE  (text[e])' \in (everNamed[dept[e]])'
  BY DEF TextIsOfDepartment
<1> USE DEF SInv, IInv
<1>1. \A d \in Departments : everNamed[d] \subseteq everNamed'[d]
  BY EverGrows
<1>2. dept'[e] \in Departments
  BY TypeStep DEF TypeOK
<1>3. e \notin torn
  BY HistoryGrows DEF Next, vars
<1>4. CASE dept'[e] = dept[e] /\ text'[e] = text[e]
  BY <1>1, <1>2, <1>3, <1>4 DEF TextIsOfDepartment
<1>5. CASE UNCHANGED employees
  BY <1>4, <1>5 DEF employees
<1>6. ASSUME NEW r \in Requests, HireWrite(r) PROVE (text[e])' \in (everNamed[dept[e]])'
  <2>1. CASE dept'[e] = plan[r].dept /\ text'[e] = plan[r].text
    BY <1>1, <1>2, <1>6, <2>1 DEF Drafts, PlannedText, HireWrite
  <2> QED
    BY <1>4, <1>6, <2>1 DEF HireWrite, employees, TypeOK
<1>7. ASSUME NEW r \in Requests, MoveWrite(r) PROVE (text[e])' \in (everNamed[dept[e]])'
  <2>1. CASE On(r) # e
    BY <1>4, <1>7, <2>1 DEF MoveWrite, TypeOK
  <2>2. CASE On(r) = e
    <3>1. loaded[r].dept = dept[e] /\ loaded[r].text = text[e] /\ PlannedText(r)
      BY <1>3, <1>7, <2>2 DEF Drafts, MoveWrite
    <3>2. dept'[e] = plan[r].dept /\ text'[e] = plan[r].text
      BY <1>7, <2>2, <3>1 DEF MoveWrite, TypeOK
    <3> QED
      BY <1>1, <1>2, <3>1, <3>2 DEF PlannedText
  <2> QED
    BY <2>1, <2>2
<1>8. ASSUME NEW r \in Requests, LeaveWrite(r) \/ ReturnWrite(r)
      PROVE  dept'[e] = dept[e] /\ text'[e] = text[e]
  BY <1>8 DEF LeaveWrite, ReturnWrite, StandingWrite
<1> QED
  BY <1>4, <1>5, <1>6, <1>7, <1>8, RowWriters DEF Next, vars

\* The invariant against what requests have read is inductive.
LEMMA SStep == SInv /\ [Next]_vars => SInv'
  BY StepInv, AloneStep, KnownStep, DraftsStep, CheckedStep, TextStep DEF SInv, IInv

\* A department leaves use only without staff, and a row is given only a
\* department in use, by requests that are not outdated.
LEMMA StrandStep ==
  ASSUME SInv, [Next]_vars, NEW e \in Employees, Stranded(e)', ~Stranded(e)
  PROVE  \/ e \in registered /\ ~active[e]
         \/ \E r \in stale : pc[r] = "write" /\ pc'[r] # "write"
<1> USE DEF SInv, IInv
<1>1. CASE UNCHANGED vars
  BY <1>1 DEF vars, Stranded, Open, Present, departments, employees
<1>2. ASSUME NEW r \in Requests, Begin(r) PROVE FALSE
  BY <1>2, BeginType DEF Stranded, Open, Present, departments, employees
<1>3. ASSUME NEW r \in Requests, Continue(r)
      PROVE  \/ e \in registered /\ ~active[e]
             \/ \E q \in stale : pc[q] = "write" /\ pc'[q] # "write"
  <2>1. DeleteWrite(r) \/ HireWrite(r) \/ MoveWrite(r) => pc[r] = "write" /\ pc'[r] # "write"
    BY DEF DeleteWrite, HireWrite, MoveWrite, Committed, Goto, Reply, TypeOK
  <2>2. CASE UNCHANGED employees
    <3>1. /\ e \in registered /\ active[e] /\ dept[e] # None
          /\ Open(dept[e]) /\ ~(Open(dept[e]))'
      BY <2>2 DEF Stranded, employees
    <3>2. PICK d \in Departments : d = dept[e]
      BY <3>1 DEF TypeOK
    <3>3. dept'[e] = d
      BY <2>2, <3>2 DEF employees
    <3>4. DeleteWrite(r) /\ On(r) = d
      BY <1>3, <3>1, <3>2, <3>3, ClosingOutdates DEF Open, Present
    <3>5. Staff(On(r)) # {}
      BY <3>1, <3>2, <3>4 DEF Staff
    <3> QED
      BY <2>1, <3>4, <3>5 DEF Checked, DeleteWrite
  <2>3. CASE HireWrite(r) /\ ~UNCHANGED employees
    <3>1. e = On(r) /\ dept'[e] = plan[r].dept
      BY <2>3 DEF HireWrite, Stranded, Open, Present, departments, TypeOK
    <3>2. plan[r].dept # None /\ ~Open(plan[r].dept)
      BY <2>3, <3>1 DEF HireWrite, Stranded, Open, Present, departments
    <3> QED
      BY <2>1, <2>3, <3>2 DEF Checked, HireWrite
  <2>4. CASE MoveWrite(r)
    <3>1. e = On(r) /\ dept'[e] = plan[r].dept /\ plan[r].dept # loaded[r].dept
      BY <2>4 DEF MoveWrite, Stranded, Open, Present, departments, TypeOK
    <3>2. plan[r].dept # None /\ ~Open(plan[r].dept)
      BY <2>4, <3>1 DEF MoveWrite, Stranded, Open, Present, departments
    <3> QED
      BY <2>1, <2>4, <3>1, <3>2 DEF Checked, MoveWrite
  <2>5. CASE LeaveWrite(r)
    BY <2>5 DEF LeaveWrite, StandingWrite, Stranded, Open, Present, departments, TypeOK
  <2>6. CASE ReturnWrite(r)
    BY <2>6 DEF ReturnWrite, StandingWrite, Stranded, Open, Present, departments, TypeOK
  <2> QED
    BY <1>3, <2>2, <2>3, <2>4, <2>5, <2>6, RowWriters
<1> QED
  BY <1>1, <1>2, <1>3 DEF Next

\* The department shown with an employee has been the name of the department
\* the employee is assigned to, unless two updates of the employee overlapped.
THEOREM TextsAreNames == Spec => []TextIsOfDepartment
  BY InitSInv, SStep, PTL DEF Spec, SInv

\* Whatever overlaps, only the return of a former employee or a request that was
\* overtaken between check and commit leaves an active employee in a department
\* that is not.
THEOREM NobodyElseIsStranded == Spec => StrandedByReturnOrRace
<1>1. SInv /\ [Next]_vars =>
        [\A e \in Employees : Stranded(e)' /\ ~Stranded(e) =>
            \/ e \in registered /\ ~active[e]
            \/ \E r \in stale : pc[r] = "write" /\ pc'[r] # "write"]_vars
  BY StrandStep
<1> QED
  BY <1>1, InitSInv, SStep, PTL DEF Spec, StrandedByReturnOrRace
=============================================================================
