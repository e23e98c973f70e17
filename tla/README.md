# A TLA+ model of face-detector-app

The repository is a face recognition access system: a FastAPI backend with
PostgreSQL (pgvector) and an object store, a React dashboard for
administrators, and an edge client that films a door and asks the backend who
is there. Its pull requests may have a cloud environment of their own, a sandbox,
that workflows build and destroy. These modules model the parts of it that keep state and meet
concurrency or failure, TLC checks them on small instances, and TLAPS proves
the invariants for every value of the constants.

All paths below are relative to the repository; `app/` is `backend/app/`.

## 1. Inventory

| Component | State | Operations | Interacts with | Hard behaviour |
|---|---|---|---|---|
| Circuit breaker and retries (`app/utils/resilience.py`) | `_state`, `_failure_count`, `_reopened_at` under a lock | `call`, `retry_operation` | wraps every commit, search and upload | the operation runs outside the lock: results of calls admitted in another state are recorded late |
| Employees and face enrollment (`endpoints_admin.py`, `employee_registry.py`, `vector_search_service.py`) | `employees.active`, `deleted_at`; `face_embeddings` | delete, restore, enroll, enroll samples | database, uploads, audit | several commits per handler, an `await` in the middle, up to 20 pods |
| Enrollment sessions (`enrollment_session_service.py`) | `enrollment_sessions.status`, `expires_at` | issue, status, complete | face enrollment | status read, then written without a condition; the session is spent one commit after the face is stored |
| Departments and assignments (`department_registry.py`, `employee_registry.py`) | `departments`, `employees.department(_id)` | create, rename, delete, restore; hire, move, leave, return | database, audit | check-then-act between SELECT and commit, redundant columns |
| Recognition (`endpoints_vision.py`, `recognition_service.py`) | `recognition_events`, snapshot objects | `recognize_face` | search, object store | deduplication by a unique index between pods, a window that turns while a request is under way |
| Snapshot store (`minio_service.py`) | objects by name | `upload_snapshot` | recognition | put over an existing name |
| Vector search (`vector_search_service.py`) | `face_embeddings`, possibly a read replica | upsert, delete, search | database | replica lag |
| Audit and recognition logs | `audit_events` | `record_event`, listings | admin API | its own commit after the change it reports |
| Database sessions (`db.py`) | connection pool | `get_db` | everything | pool exhaustion under `async` handlers that block the event loop |
| Authentication, settings, metrics, worker task | none | | | |
| Web kiosk (`edge-client/.../ui/web_kiosk.py`, `clients/backend.py`, `hardware/camera.py`) | page snapshot, capture loop, `_backend_future`, stop event | capture thread, executor, `stop()` | camera, detector, backend | three threads, a future read twice without a lock, timeouts |
| OpenCV kiosk (`edge-client/.../app.py`) | the same loop on one thread | | | |
| Enrollment page (`frontend-admin/src/features/enrollment`) | search results, selection, session, samples, submission | search, select, scan, capture, submit, close | admin API | the administrator acts while requests are under way |
| Dashboard (`frontend-admin/src/pages/Dashboard.jsx`) | token, filter, two lists, status, section, edited rows | login, logout, fetches, create, update, deactivate, restore | admin API | handlers split at every `await`, answers out of order, after logout or for another filter |
| Sandboxes of pull requests (`sandbox-auto-apply.yml`, `sandbox-auto-destroy.yml`, `sandbox-janitor.yml`, `infrastructure.yml`, `scripts/evaluate_sandbox_requirement.py`, `scripts/cleanup_sandbox_aws_orphans.py`) | labels, Terraform states, resources in the account, the concurrency group | policy decision, apply, deploy, validate, destroy, clean up | GitHub events, AWS | runs that are cancelled or ousted, labels that are stale, deletions that take their time, calls that fail midway |
| Other CI and release scripts, workflows, monitoring | files, cloud resources | | | sequential |

What makes each component correct:

- Breaker: calls are refused only after `failure_threshold` reported failures
  in a row, and for no longer than `recovery_timeout` without a trial; state,
  count and window agree; a broken dependency is tried again.
- Enrollment: a deactivated employee has no face to match; a confirmed face
  stays; a session is completed at most once and only with a stored face; the
  audit trail reports only what happened.
- Departments: names are unique, `active` and `deleted_at` agree, nobody active
  is assigned to a deactivated department, the stored text is the department's.
- Recognition: one event per employee and window, no answer without an event,
  every request answered, a snapshot behind every event.
- Enrollment page: a face is sent for the person it was taken of, nobody is
  shown as enrolled without a face, a session is submitted again only after its
  last submission has failed, buttons return.
- Dashboard: once it is quiet, it shows the chosen filter and every change it
  told the user of; it stops saying that it loads.
- Sandbox: without its label nothing of it is left; the gate is passed for the
  head that was validated; every sandbox goes at last.
- Kiosk: what the page says is true, every request is resolved, shutdown ends
  the capture and begins no new request, a camera that works is used.

`PROJECT.json` lists the components with their status, and under `hazards` the
places in the code where these can go wrong.

## 2. Modules

| Module | Models | State and actions |
|---|---|---|
| `LoadShedding` | what a breaker promises | streak of reported failures, age of the spell in which calls are turned away; enter, shed, succeed, fail, `Tick` |
| `CircuitBreaker` | `CircuitBreaker.call` with `retry_operation` | one action per critical section (`Admit`/`Probe`/`Reject`, `RecordSuccess`, `RecordFailure`), one per attempt outside the lock, `Tick` |
| `OneTimeSession` | what one enrollment session promises | its status and the completions that were confirmed |
| `FaceEnrollment` | delete, restore, enroll, issue, status, complete | one action per SELECT or commit of a handler, `Fail` between any two, `Elapse` for the clock |
| `SightingLog` | what the recognition log promises | the events, which only grow, and what each door was told; record, drop as a duplicate, give up |
| `Recognition` | `recognize_face`, `_save_event` | one action per call to search, store, flush, commit; `NextWindow` for the clock |
| `EdgeKiosk` | `WebKioskRuntime`, `send_crops_to_backend` | statement by statement where threads share something: the loop of the capture thread (`Test`, `Poll`, `ShowResult`, `ReadFrame`, `Detect`, ...), the worker, `stop()`, which may raise halfway, the end of the process, which kills the daemon thread; `Tick` |
| `DepartmentRegistry` | departments, and employees as far as their department goes | one action per SELECT or commit of a handler, `Fail` |
| `EnrollmentConsole` | `FaceEnrollmentPage.jsx` with its panel `EnrollmentCapture.jsx` | one action per handler up to its `await`, one per answer, `Store` for the backend, `Leave` for unmounting |
| `Dashboard` | `Dashboard.jsx` with the panels it renders | one action per handler up to its `await` and one per answer (`Changed`, `ListLoaded`, `ListDenied`, ...), `Effect` after a render, `Serve` and `Expire` for the server, `Reload` |
| `SandboxPolicy` | the decision of `evaluate_sandbox_requirement.py` | operators over a request: changed paths by pattern class, trusted labels, approvals |
| `SandboxTeardown` | one run of `cleanup_sandbox_aws_orphans.py`, the convergence check of `infrastructure.yml` | operators over the kinds of resources left, in the order of the passes; three kinds of security groups, by what refers to them |
| `SandboxLifecycle` | the workflows that apply, validate and destroy, composed with the two modules above | people's labels, pushes and closings; deliveries; the concurrency group; one action per step of Auto Apply, Auto Destroy and the destroy job; the janitor's two jobs; `Workload` for what is deployed, outside the group; `Settle` for AWS |
| `MCFaceEnrollment`, `MCDepartmentRegistry` | symmetry sets of the runs | |
| `*Proofs` | theorems about the module they extend | |

How the code became actions:

- **Handlers.** No transaction of the code spans two commits, and Starlette runs
  `def` handlers in a thread pool, `async` handlers on the event loop, in up to
  20 pods (README, the HPA table). A handler is therefore a sequence of steps,
  each one SELECT or one commit, and any other request may run in between. `pc`
  names the next step, `job` the request's arguments, `loaded`/`found`/`plan`
  what its ORM session remembers from an earlier step.
- **ORM.** A commit writes the columns that differ from what was loaded. That is
  why `DeleteWrite` in `FaceEnrollment` sets `active` only if the row was
  loaded as active, but sets `deleted_at` always (a new timestamp).
- **Database.** READ COMMITTED, unique indexes, an UPDATE of a vanished row
  raises and a DELETE of one does not: PostgreSQL and SQLAlchemy are modelled
  as the code uses them.
- **Failure.** `Fail` ends a request with a 500 between any two steps: an error
  the handler does not map, or the death of the pod. A commit may be applied and
  its acknowledgement lost (`Committed`). Clients repeat what failed: every
  request of a run may be the repetition of an earlier one.
- **Time.** Only comparisons with a deadline matter, so clocks are ages up to
  the deadline (`CircuitBreaker`, `EdgeKiosk`), a flag (`due`), or the number of
  the window (`bucket`).
- **Data.** Embeddings and images are the request that wrote them; names, codes,
  tokens and devices are model values.
- **React.** A handler runs to its `await` without interruption and reads the
  state of the render it was made in; the answer runs its rest. Setters of an
  unmounted component do nothing, but a panel's `onComplete` still reaches the
  page: `post[p].mounted` tells what is left. One panel serves several sessions
  in a row, samples included, unless there is none in between. In `Dashboard` a
  request carries the token and the filter of the render it was started from, as
  the closure of the handler does.
- **Lists.** What a list shows is the filter it was asked for and the number of
  changes the server had made when it read it, counted from 1 so that 0 is a
  list never loaded; that is all `SettledIsCurrent` compares. Completing an
  enrolment takes the session's token and no administrator's, so it alone is
  never refused for an expired login.
- **Workflows.** GitHub delivers an event some time after what it reports, with
  the pull request as it was then. `cancel-in-progress: true` is `CancelApply`, a
  shared group without it is `running` and `waiting`, where a newcomer takes the
  place of the one that waits. Events are delivered in the order they happened,
  but one that starts both workflows reaches them in either order: either Auto
  Apply is cancelled before Auto Destroy enters the group, or after it. Auto
  Destroy decides by the labels it looks up or, when that fails, by those of the
  event, and its dispatch may fail; the janitor selects in one job and dispatches
  in the next. Changes of labels made with the workflow's token start no runs. A status
  comment that fails leaves what a failing deployment leaves.
- **Cloud.** Resources are abstracted to their kinds, each held or not by others;
  some go at once, the rest begin to go (`leaving`) and `Settle` finishes it. A
  cut short apply leaves any roots and kinds behind, none included. What is
  deployed makes load balancers, volumes and security groups of its own
  (`Workload`) for as long as there is a root to run on, also while a destroy is
  at work. A kind that is made anew is no longer `leaving` (`Makes`). AWS refuses
  to delete a security group that a rule of another one refers to, and the
  script skips it: one that a group listed later refers to goes in the
  next pass, two that refer to each other never go.

Comments that begin with "Mutant:" mark a mistaken form of the action that
follows, kept to see that each property can fail; it is not part of `Next`.

## 3. Runs

| Run | Instance | What it shows |
|---|---|---|
| `breaker` | 3 callers, threshold 2, window 2 ticks, 2 attempts | state, count and window agree; `LoadShedding` is implemented, so that calls are turned away only after enough failures and in spells of at most `recovery_timeout`, although late failures set `_reopened_at` anew; only a late success cuts a window short; an open breaker is tried again |
| `enrollment_concurrent` | 4 overlapping requests, 1 employee | a completed session has a stored face, every audit event rests on the commit it reports (a deactivation's `embedding_revoked` is true but for the enrolments it overtook, which are the next run's), a confirmed face is lost only to a deactivation; a revocation leaves no face but one of an enrolment that was past its check; on a session that two requests never used at once, a refused completion stores nothing and the session is one-time. All under any overlap, failure and repetition |
| `enrollment_revoke_race` | 2 overlapping requests | **violated**: an enrolment overtakes a deactivation, which leaves a recognisable face behind |
| `enrollment_token_race` | 3 requests, 2 at a time | **violated**: a completion answered 410 has replaced the face |
| `recognition` | 3 pods, 3 requests, 2 windows, 1 employee, 1 object name | one event per window, a snapshot behind each event; `SightingLog` is implemented: events are never taken back, and every answer rests on one; nobody waits for ever |
| `edge_kiosk` | scan interval of 2 ticks, up to 2 faces | what the page shows is true (up to one statement at either end of a request), every request is resolved, `stop()` ends the loop, also where it raises itself; once it is done with the executor no request is begun, and the one being sent goes on through its crops only |
| `edge_camera` | the same, with a camera that recovers | **violated**: a camera that fails to open at the start is never tried again |
| `departments` | 3 overlapping requests, 2 departments, 1 employee, 2 names, 1 free text | flags agree, names are unique; only a return, or a commit whose check was outdated meanwhile, strands an employee; texts are names of the department unless two updates of the employee overlapped |
| `departments_return` | the same | **violated**: restore an employee whose department was deactivated meanwhile |
| `enrollment_console` | 2 people, 2 sessions, 2 submissions, 2 samples, 1 search at a time | whose face is sent for whom and who is shown as enrolled, as long as nobody is selected during a request; a session is submitted again only after its submission failed, as long as no sample is captured during one and no answer is lost (a lost answer enables Save while the backend is still at the first request; what the backend makes of two is `enrollment_token_race`); disabled buttons come back |
| `sandbox` | 1 pull request that touches infrastructure, 2 editors, 2 heads, 3 acts and faults, instances and volumes | nothing is left without its label, the gate is passed for the validated head, every sandbox goes at last |
| `dashboard` | 4 requests under way, 2 acts of the user or expiries, any number of edits begun and dropped | a settled page is current, and a page that loads stops saying so |

### Bounds, and why they are enough

- *Requests.* A race needs two requests, and one or two more to set it up: issue
  and complete twice is three (`enrollment_token_race`), issue, deactivate,
  complete and restore is four. With the same requests as a symmetry set, four
  is also what finishes in half a minute. Departments start with one department
  and one employee, a state two creations lead to, so that three requests are
  left for what matters. Two deactivations racing with a restoration need more
  requests than `departments` has: that `active` and `deleted_at` agree then is
  proved, not checked.
- *Employees.* Rows of different employees share nothing but the session table,
  so one employee is enough for every race on a row.
- *Object names, texts.* One name makes every pair of images collide, the worst
  case for `RecordedHasSnapshot`; one free text stands for all that are not
  names.
- *Windows.* Two windows let a request build its key before or after the turn,
  between any two steps of two others.
- *Breaker.* Three callers allow one late success, one late failure and one
  probe at once; a threshold of 2 distinguishes "one failure" from "enough"; a
  window of 2 ticks distinguishes a stale start of the window from a fresh one.
- *Kiosk.* Two faces make a loop over crops; an interval of 2 ticks lets a
  request outlast a scan or not.
- *Enrollment page.* Two people and two sessions are what can be mixed up, two
  submissions what can overlap. Two samples are required and kept (in the code
  three and five), so that a panel may hold samples of both people.
- *Sandbox.* Two editors because only the owner is trusted; two heads because a
  label is for this one or for another; one path class that is critical and
  heavy, since what the classes decide is proved for all of them. An instance
  holds a volume, keeps Terraform from the network and goes slowly, the volume
  goes at once, and the convergence check looks at neither while it is so: the
  kinds between which order matters. Security groups and the rest are left to
  the theorems, which hold for every set of kinds but `TornDown`: with groups that
  refer to each other it would fail (section 4). The labels people put on and take off
  are the two that ask for a sandbox and for its end; `sandbox-validated` put on
  by hand is covered by the theorem of `GateIsOfHead` alone. Three acts
  (`MaxActs` counts acts of people, completions of CI and faults together) are
  enough to ask for a sandbox, push and have something fail; one event in
  flight at a time still races with every run. 833,215 states.
- *Dashboard.* The effect needs two slots, so four allow two effects to overlap,
  or one with a save and its refetch; it waits for two free slots, which the code
  does not. Two acts are a toggle or a logout during a save. 938,595 states;
  the invariants are proved for any number of acts and slots.

`CHECK_DEADLOCK FALSE` stands where requests are handled once or acts are
bounded, so that runs end, and in the kiosk, which ends after `stop()`.
`breaker` never stops.

### Fairness

- `CircuitBreaker`: weak fairness of the clock and of calls. Recognition
  requests keep arriving, and each call either is admitted or tried; nothing is
  assumed of the operations under way, which may hang for ever.
- `Recognition`: weak fairness of each request's own steps, as a pod that runs
  executes them. It says nothing of a request that waits on the unique index
  (its step is disabled), and the death of a pod is never assumed.
- `EdgeKiosk`: weak fairness of what the capture thread does by itself, of the
  worker (HTTP calls have a timeout) and of the clock. Nothing is assumed of the
  device and the detector: `open`, `read` and the search for faces may never
  return, and the properties except a thread that is stuck there (`Hung`) or was
  killed with the process. `stop()` need not be called, nor go on. `CameraSpec`,
  used only to refute `CameraRecovers`, adds that device and detector return, and
  that a camera asked again and again delivers frames again and again (strong
  fairness).
- `EnrollmentConsole`: weak fairness of answers: `fetch` resolves or rejects.
  Nothing is assumed of the administrator or the camera.
- `Dashboard`: weak fairness of every slot's `Serve` and of the rest of its
  handler. The page's `fetch` has no timeout: that a server answers or the
  connection breaks is assumed. Nothing is assumed of the user.
- `SandboxLifecycle`: weak fairness of deliveries, of the evaluation of Auto
  Apply, of whatever executes in the concurrency group (jobs have timeouts), of
  AWS finishing a deletion it accepted, and of the janitor's two jobs, which run
  on a schedule. That the janitor does not fail for ever is an assumption: a TTL
  that is no number, or a pull request whose fork was deleted
  (`sandbox-janitor.yml:57,73`), would make it fail every hour. Nothing is assumed of people, of CI or of
  a deployment. An apply ends one way or the other and a destroy or a dispatch
  may fail; failures and what the deployment makes are bounded by `MaxActs`, since a destroy
  that fails for ever takes nothing away.
- `FaceEnrollment` and `DepartmentRegistry` have safety properties only.

## 4. Findings

Four statements of the repository's documents and tests disagree with what the
code does; `PROJECT.json` quotes them.

1. *Revoked faces* (`docs/api-contract.yml:168`): `enroll_employee_face` checks
   `active`, awaits the upload, and stores the embedding without a second look.
   A deactivation that is answered 200 in between removes nothing, and the face
   of the deactivated employee is matched from then on.
2. *Refused completions* (`docs/api-contract.yml:415,462`): two completions of
   one token both pass the pending test. The second stores its face, then finds
   the session completed and answers 410.
3. *Recovering camera* (`web_kiosk.py:372`): the capture thread returns for good
   when the camera cannot be opened at the start.
4. *Departments in use* (`tests/test_admin_api.py:113`): restoring an employee
   does not look at the department, which may have been deactivated in between.
   No overlap is needed.

Seen while modelling, where no document promises otherwise or no run was spent
on it:

- *Backend.* Sessions are not one-time under overlap (`get_session` writes
  `expired` over `completed`). Two updates of one employee may mix their columns,
  so that `department` and `department_id` belong to different departments. A
  half open breaker admits every caller, and late failures move a running
  recovery window back. The kiosk always names its images `face-<n>.jpg`
  (`recognition_service.py:54` makes the object's name of it), so the next face
  overwrites the image an earlier event links to.
- *Kiosk.* After the detector has raised, the page shows LIVE and `/healthz`
  answers 200 although nothing is captured any more. A verdict may be overwritten
  in the pass of the loop that shows it, before the page polls. `stop()` reads the
  future twice without a lock and raises when the capture thread gives it up in
  between: join and shutdown of the executor are left out (`web_kiosk.py:72`). A
  capture thread stuck in the device or the detector at the end of the process is
  killed without its `finally`, camera open.
- *Enrollment page.* Selecting another person while a session is being created
  shows that session later, in the panel that is open by then with the samples it
  holds; a submission's answer marks whoever is selected then; a capture during a
  submission enables its button again, and so does an answer that is lost, though the
  backend may be at work on the submission. The properties except exactly these
  (`hasty`, `Lost`). The camera may be permitted after the panel was closed
  (`EnrollmentCapture.jsx:49`), with nobody left to stop its stream.
- *Dashboard.* Late answers after a logout fill the lists again. A 401 of an old
  token, even for a panel that is closed, signs out a new session. A refetch that
  fails after a change leaves the status "loaded". The answer to a save closes
  whichever row is being edited by then. A filter toggled while a save is under
  way is overwritten by the refetch of the old one. `SettledIsCurrent` excepts
  the lists where requests overlapped or failed (`doubt`).
- *Sandbox, labels.* A commit that is older than its push makes a stale
  `sandbox-validated` count for it (`sandbox-auto-apply.yml:174` compares dates,
  `docs/sandbox-policy.md:78` speaks of the exact head). The job that puts the
  label on does not look whether the head is still the one it validated, nor
  whether the sandbox has been destroyed meanwhile. `GateIsOfHead` excepts a
  backdated commit and a push that is still to be delivered.
- *Sandbox, cancelled applies.* Any label event on the pull request cancels a
  Terraform apply under way, and an apply that fails or is cancelled leaves a
  sandbox without `sandbox-active`, which neither the janitor nor the quota sees
  (`docs/sandbox-policy.md:80`). `NothingUnlabelled` excepts it (`orphaned`). A
  label event that leads to nothing still takes the place of a destroy or an
  apply that waits. Auto Apply does not look whether the pull request is open.
- *Sandbox, cleanup.* Security groups whose rules refer to each other are skipped
  by every pass (`cleanup_sandbox_aws_orphans.py:385`), and the convergence check
  reports them: the destroy then fails each time and the label stays. A
  longer chain of groups than the one modelled takes a pass per link.
- *Sandbox, policy.* Paths that are critical and match no heavy pattern (the
  evaluator itself, `iam/**`, `network/**`, `auth/**`) are governed as "fast",
  although `docs/sandbox-policy.md:60` lists them. The mode "blocked" cannot be
  reached (`NeverModeBlocked`). The quota lists the other pull requests, then
  applies: two may pass at once (`sandbox-auto-apply.yml:334`).

## 5. Proofs

TLAPS checks these for every value of the constants, from the assumptions named
in the modules (`None` is not a row, thresholds are positive, and so on).

| Module | Theorems | Inductive invariant |
|---|---|---|
| `CircuitBreakerProofs` | types, `Coherent`, `HalfOpenIsProbed`, `WindowCutOnlyBySuccess`, `RecoveryIsTried` (the safety half of `OpenIsTriedAgain`), the refinement of `LoadShedding` | the three invariants with `Bounded` (while the breaker is open, its window and every call under way are at least as old as the opening) are inductive; `Coherent` tells the refinement how many failures stand behind a rejection, `Bounded` that the spell is not over |
| `FaceEnrollmentProofs` | types, `CompletedHasEnrolled`, `AuditIsTruthful`, `AcknowledgedFaceIsKept`; `RevocationHolds`, `RefusalHolds` and `OneTime`, the refinement of `OneTimeSession` by every session | none is inductive alone; `Placed` says which operation may be at which step, `StoredFirst` and `SessionFirst` which commits are behind a request at each step, `StoredIsKept` that a stored face is missing only after a delete that found it; for the last three `Revoking` (which enrolments can still bring a face back, and what a delete on its way knows of the row), `Alone` (an uncontested session is in the hands of one request), `Undisturbed` and `NotStored`: what that request has read still fits the session |
| `RecognitionProofs` | types, `OneEventPerWindow`, `AnswerIsRecorded`, `RecordedHasSnapshot`, the refinement of `SightingLog`, `NoCircularWait` (the safety half of `Answered`) | an open transaction belongs to a request at its commit, what is past the upload has an object under its name; `KeyBuilt` (from the flush on a request has a key exactly if it has a match) for the refinement, in which a commit is what records an event, acknowledged or not |
| `EdgeKioskProofs` | types, `VerifyingIsInFlight`, `SuccessIsOfLastRequest`, `NoJobAfterShutdown`, `CameraIsReleased` (the safety half of `StopReleasesCamera`) | the state of the future at each step of the thread against the texts of the page, and no job is queued once the executor is down; `CameraHeld` (at which steps of the thread the device is held) |
| `DepartmentRegistryProofs` | types, `DepartmentConsistent`, `NamesUnique`; `TextIsOfDepartment`, `StrandedByReturnOrRace` | `LoadedActive` (a deactivation goes on only with an active row, what was loaded was consistent) carries the first; `MovesAlone`, `NamesKnown` and `Drafts` the texts: what an update has planned still fits a row nobody else is updating; `Checked` the stranding: what a request that is not outdated has checked is still so |
| `EnrollmentConsoleProofs` | types, `FaceIsOfSession`, `BadgeIsTrue`, `OneSubmission`, `DisabledButtonsAreAwaited` (the safety half of `ButtonsComeBack`) | `OwnersOK` (a session has an owner and is shown only when it is created), `PanelInv` (a submission of the session shown was made in the panel shown, which waits for it), `StoredInv` (what the backend stored is the owner's), `PersonInv` (all that is shown or awaited is of the person selected) |
| `DashboardProofs` | types, `SettledIsCurrent`, `LoadingHasHandler` (the safety half of `LoadingEnds`) | `AnswersOK` and `SessionsOK` (no answer is newer than the server, a new session is nobody's), `ListInv` (a list that is not in doubt is asked for once at a time, with the page's filter, and misses no change unless it will be asked for again), `LoadingInv` |
| `SandboxProofs` | facts about the decision and the cleanup for every request and every set of kinds (`FailsWhenBlocked`, `EligibleIsAwaited`, `NeverModeBlocked`, `MoreFilesNeverRelax`, `TrustOnlyOpens`, `GroupsGoLast`: volumes, interfaces and groups nobody refers to are gone after one pass, referenced groups after a second, mutual ones never); types, `NothingUnlabelled`, `GateIsOfHead`, `UnmarkedOnlyWhenConverged` (the safety half of `TornDown`) | `TeardownInv` (what the destroy job has achieved at each step, the workload notwithstanding: after a cleanup all that takes its time and is no network's is on its way out, after a terraform destroy that succeeded no state and nothing in the network is left), `UnlabelledInv`, `HeadInv` (a head that an event or run carries is the current one, or a push is still to be delivered), `MarkInv` (what a trusted mark says) |

Each proof has the same shape: the initial states satisfy the invariant, each
action preserves it (one step per action, and per conjunct where it is
disturbed), the properties follow, and PTL puts them under `[]`. Action
properties follow from the invariant and one step. `contested` and `overtaken`
in `FaceEnrollment`, `torn` and `stale` in `DepartmentRegistry`, `hasty` in `EnrollmentConsole`,
`doubt` in `Dashboard` and `orphaned`, `backdated` and `markedLate` in
`SandboxLifecycle` are history variables: they name, in the property, the one
case in which the code does not keep it, so that the same specification serves
both.

`sinceOpened` in `CircuitBreaker` is one too, of what the code does not keep:
how long ago the breaker opened.

Every invariant and safety property of a passing run is proved. Only
model-checked are what happens eventually (`OpenIsTriedAgain`, `Answered`,
`Resolved`, `StopReleasesCamera`, `ButtonsComeBack`, `LoadingEnds`, `TornDown`),
since liveness under fairness is beyond the prover, and the four violations. Of
six of the seven the half that is safety (that the next call is let in, that nobody
waits in a circle, that an answer is still to come, that the camera is free once
the thread has ended, that a mark goes only with its sandbox) is a theorem, named
in the table. `AnswerIsRecorded` is proved
and in no run: `Logs` implies it.

## 6. Not modelled

- The similarity query, its replica and the in-memory store: recognition sees
  the match it returned. How far a replica lags is not in the code.
- Connection pool and event loop: who waits for whom is decided by SQLAlchemy
  and Starlette. Migrations.
- The page's polling of the kiosk; the messages, form fields and log filters of
  the dashboard, which no other handler reads; `EnrollmentSessionPage.jsx`, which
  no page renders.
- Choice of snapshot backend and URL signing; authentication beyond a token that
  expires or is refused (`Dashboard`);
  metrics and logs; the worker's placeholder task; listings, which only read.
- The OpenCV kiosk: the loop of the web kiosk on a single thread.
- Of the sandboxes: what the CI gates and the quota look at (they are a refusal
  that may happen, `Declines`), parameters, manual dispatches, other
  environments, and the cleaning inside the cluster before a destroy, except that
  it may fail. How a path matches a pattern is abstracted to its class.
- Other CI and release scripts, workflows, monitoring: sequential or declarative.

## 7. Plan

Done, in this order: breaker, enrollment and sessions, recognition, kiosk,
departments, enrollment page, sandboxes and dashboard, with theorems for each.
What could follow:

1. Two pull requests of one author, with the quota as a check of its own before
   the apply, in place of `Declines`.
2. The replica of the vector search, with "a revoked face is no longer matched
   once the replica has caught up" as its abstract specification.
3. Connection pool and event loop of one pod: whether everybody waits for
   everybody until the pool times out, and only until then.
4. The page's polling against the capture loop: verdicts nobody sees.
