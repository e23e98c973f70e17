------------------------- MODULE RecognitionProofs -------------------------
(***************************************************************************)
(* The safety of Recognition for any number of requests, pods, employees,  *)
(* object names and windows.                                               *)
(***************************************************************************)
EXTENDS Recognition, TLAPS

\* A row is uncommitted exactly while its request is about to commit it, and
\* committed only for requests that are over.
Placed ==
    /\ open = {r \in Requests : pc[r] = "commit"}
    /\ \A r \in recorded : pc[r] = "done"
    /\ \A r \in Requests : pc[r] # "done" => answer[r] = "none"

\* Only a match has a key, and only once it is being saved.
KeyOfMatch ==
    \A r \in Requests :
        key[r] # None => match[r] # None /\ pc[r] \in {"flush", "commit", "done"}

\* The image was put before the handler went on to save the event.
Uploaded ==
    \A r \in Requests :
        /\ pc[r] # "idle" => name[r] \in Names
        /\ pc[r] \in {"save", "flush", "commit"} => objects[name[r]] # None

IInv == /\ TypeOK
        /\ Placed
        /\ KeyOfMatch
        /\ Uploaded
        /\ OneEventPerWindow
        /\ AnswerIsRecorded
        /\ RecordedHasSnapshot

\* No request, no event, no object.
LEMMA InitInv == Init => IInv
  BY RecognitionAssumption
     DEF Init, IInv, TypeOK, Placed, KeyOfMatch, Uploaded, OneEventPerWindow,
         AnswerIsRecorded, RecordedHasSnapshot, SameKey

\* Every step of a request, and the clock, keep the types.
LEMMA TypeStep == TypeOK /\ Uploaded /\ [Next]_vars => TypeOK'
<1> SUFFICES ASSUME TypeOK, Uploaded, [Next]_vars PROVE TypeOK'
  OBVIOUS
<1> USE RecognitionAssumption DEF TypeOK, Keys, Goto, Reply
<1>1. CASE UNCHANGED vars
  BY <1>1 DEF vars
<1>2. CASE NextWindow
  BY <1>2 DEF NextWindow
<1>3. ASSUME NEW r \in Requests, NEW n \in Names, Receive(r, n) PROVE TypeOK'
  BY <1>3 DEF Receive
<1>4. ASSUME NEW r \in Requests, NEW m \in Employees \cup {None}, Search(r, m) PROVE TypeOK'
  BY <1>4 DEF Search
<1>5. ASSUME NEW r \in Requests, Upload(r) PROVE TypeOK'
  BY <1>5 DEF Upload
<1>6. ASSUME NEW r \in Requests, BuildKey(r) PROVE TypeOK'
  BY <1>6 DEF BuildKey
<1>7. ASSUME NEW r \in Requests, Flush(r) PROVE TypeOK'
  BY <1>7 DEF Flush, Status
<1>8. ASSUME NEW r \in Requests, Commit(r) PROVE TypeOK'
  BY <1>8 DEF Commit, Status
<1>9. ASSUME NEW r \in Requests, CommitFails(r) \/ Fail(r) PROVE TypeOK'
  BY <1>9 DEF CommitFails, Fail
<1> QED
  BY <1>1, <1>2, <1>3, <1>4, <1>5, <1>6, <1>7, <1>8, <1>9 DEF Next, Proceed

\* Where the requests are, and what their rows and images are by then.
LEMMA PlaceStep ==
  IInv /\ [Next]_vars => Placed' /\ KeyOfMatch' /\ Uploaded' /\ RecordedHasSnapshot'
<1> DEFINE Goal == Placed' /\ KeyOfMatch' /\ Uploaded' /\ RecordedHasSnapshot'
<1> SUFFICES ASSUME IInv, [Next]_vars PROVE Goal
  OBVIOUS
<1> USE RecognitionAssumption
    DEF IInv, TypeOK, Placed, KeyOfMatch, Uploaded, RecordedHasSnapshot, Goto, Reply
<1>1. CASE UNCHANGED vars
  BY <1>1 DEF vars
<1>2. CASE NextWindow
  BY <1>2 DEF NextWindow
<1>3. ASSUME NEW r \in Requests, NEW n \in Names, Receive(r, n) PROVE Goal
  BY <1>3 DEF Receive
<1>4. ASSUME NEW r \in Requests, NEW m \in Employees \cup {None}, Search(r, m) PROVE Goal
  BY <1>4 DEF Search
<1>5. ASSUME NEW r \in Requests, Upload(r) PROVE Goal
  BY <1>5 DEF Upload
<1>6. ASSUME NEW r \in Requests, BuildKey(r) PROVE Goal
  BY <1>6 DEF BuildKey
<1>7. ASSUME NEW r \in Requests, Flush(r) PROVE Goal
  BY <1>7 DEF Flush
<1>8. ASSUME NEW r \in Requests, Commit(r) PROVE Goal
  BY <1>8 DEF Commit
<1>9. ASSUME NEW r \in Requests, CommitFails(r) \/ Fail(r) PROVE Goal
  BY <1>9 DEF CommitFails, Fail, InFlight
<1> QED
  BY <1>1, <1>2, <1>3, <1>4, <1>5, <1>6, <1>7, <1>8, <1>9 DEF Next, Proceed

\* The index and the log.  Only Flush adds an uncommitted row, and it waits
\* for uncommitted rows of its key and gives way to a committed one.
LEMMA LogStep == IInv /\ [Next]_vars => OneEventPerWindow' /\ AnswerIsRecorded'
<1> DEFINE Goal == OneEventPerWindow' /\ AnswerIsRecorded'
<1> SUFFICES ASSUME IInv, [Next]_vars PROVE Goal
  OBVIOUS
<1> USE RecognitionAssumption
    DEF IInv, TypeOK, Placed, OneEventPerWindow, AnswerIsRecorded, SameKey, Goto, Reply
<1>1. CASE UNCHANGED vars
  BY <1>1 DEF vars
<1>2. CASE NextWindow
  BY <1>2 DEF NextWindow
<1>3. ASSUME NEW r \in Requests, NEW n \in Names, Receive(r, n) PROVE Goal
  BY <1>3 DEF Receive
<1>4. ASSUME NEW r \in Requests, NEW m \in Employees \cup {None}, Search(r, m) PROVE Goal
  BY <1>4 DEF Search
<1>5. ASSUME NEW r \in Requests, Upload(r) PROVE Goal
  BY <1>5 DEF Upload
<1>6. ASSUME NEW r \in Requests, BuildKey(r) PROVE Goal
  BY <1>6 DEF BuildKey
<1>7. ASSUME NEW r \in Requests, Flush(r) PROVE Goal
  BY <1>7 DEF Flush, Status, KeyOfMatch
<1>8. ASSUME NEW r \in Requests, Commit(r) PROVE Goal
  BY <1>8 DEF Commit, Status
<1>9. ASSUME NEW r \in Requests, CommitFails(r) \/ Fail(r) PROVE Goal
  BY <1>9 DEF CommitFails, Fail, InFlight
<1> QED
  BY <1>1, <1>2, <1>3, <1>4, <1>5, <1>6, <1>7, <1>8, <1>9 DEF Next, Proceed

\* The invariant is inductive.
LEMMA StepInv == IInv /\ [Next]_vars => IInv'
  BY TypeStep, PlaceStep, LogStep DEF IInv

-----------------------------------------------------------------------------
\* Every variable keeps its type.
THEOREM TypeCorrect == Spec => []TypeOK
  BY InitInv, StepInv, PTL DEF Spec, IInv

\* The unique index and the flush keep one event per employee and window.
THEOREM Deduplicated == Spec => []OneEventPerWindow
  BY InitInv, StepInv, PTL DEF Spec, IInv

\* Nobody is granted or rejected without an event that says so.
THEOREM AnswersAreLogged == Spec => []AnswerIsRecorded
  BY InitInv, StepInv, PTL DEF Spec, IInv

\* Events never point to a snapshot that was not stored.
THEOREM SnapshotsExist == Spec => []RecordedHasSnapshot
  BY InitInv, StepInv, PTL DEF Spec, IInv

-----------------------------------------------------------------------------
\* The refinement.  The log and the answers are disturbed only by the steps that
\* end a request: the others are invisible to the promise.
LEMMA InitRefines == Init => Abstract!Init
  BY DEF Init, Abstract!Init, Log

\* A key that is committed is the key of an event, and the other way round.
LEMMA LoggedKeys ==
  ASSUME NEW k PROVE Abstract!Logged(k) <=> \E q \in recorded : key[q] = k
<1>1. ASSUME NEW event \in Log, event.key = k PROVE \E q \in recorded : key[q] = k
  <2>1. PICK q \in recorded : event = [of |-> q, key |-> key[q]]
    BY DEF Log
  <2> QED
    BY <1>1, <2>1
<1>2. ASSUME NEW q \in recorded, key[q] = k PROVE \E event \in Log : event.key = k
  <2>1. [of |-> q, key |-> key[q]] \in Log
    BY DEF Log
  <2> QED
    BY <1>2, <2>1
<1> QED
  BY <1>1, <1>2 DEF Abstract!Logged

\* The verdict the handler answers is the one of its key, once that is built.
LEMMA VerdictOfKey ==
  ASSUME IInv, NEW r \in Requests, key[r] # None <=> match[r] # None
  PROVE  Status(r) = Abstract!Verdict(key[r])
  BY DEF Status, Abstract!Verdict

\* The key is built for every match before the flush.
KeyBuilt ==
    \A r \in Requests : pc[r] \in {"flush", "commit"} => (key[r] # None <=> match[r] # None)

\* A request has a key from BuildKey on, and BuildKey gives one to every match.
LEMMA KeyBuiltStep == IInv /\ KeyBuilt /\ [Next]_vars => KeyBuilt'
<1> SUFFICES ASSUME IInv, KeyBuilt, [Next]_vars PROVE KeyBuilt'
  OBVIOUS
<1> USE RecognitionAssumption DEF IInv, TypeOK, KeyBuilt, Goto, Reply
<1>1. CASE UNCHANGED vars
  BY <1>1 DEF vars
<1>2. CASE NextWindow
  BY <1>2 DEF NextWindow
<1>3. ASSUME NEW r \in Requests, NEW n \in Names, Receive(r, n) PROVE KeyBuilt'
  BY <1>3 DEF Receive
<1>4. ASSUME NEW r \in Requests, NEW m \in Employees \cup {None}, Search(r, m) PROVE KeyBuilt'
  BY <1>4 DEF Search
<1>5. ASSUME NEW r \in Requests, Upload(r) PROVE KeyBuilt'
  BY <1>5 DEF Upload
<1>6. ASSUME NEW r \in Requests, BuildKey(r) PROVE KeyBuilt'
  <2>1. match[r] # None => <<match[r], bucket>> # None
    BY DEF Keys
  <2> QED
    BY <1>6, <2>1 DEF BuildKey
<1>7. ASSUME NEW r \in Requests, Flush(r) PROVE KeyBuilt'
  BY <1>7 DEF Flush
<1>8. ASSUME NEW r \in Requests, Commit(r) \/ CommitFails(r) \/ Fail(r) PROVE KeyBuilt'
  BY <1>8 DEF Commit, CommitFails, Fail
<1> QED
  BY <1>1, <1>2, <1>3, <1>4, <1>5, <1>6, <1>7, <1>8 DEF Next, Proceed

\* Keys of committed events stand, for their requests are over.
LEMMA KeysStand ==
  ASSUME IInv, NEW r \in Requests, Proceed(r) \/ Fail(r) \/ (\E n \in Names : Receive(r, n)),
         UNCHANGED recorded
  PROVE  UNCHANGED Log
<1>1. \A q \in recorded : key'[q] = key[q]
  BY DEF IInv, TypeOK, Placed, Proceed, Search, Upload, BuildKey, Flush, Commit,
         CommitFails, Fail, Receive
<1> QED
  BY <1>1 DEF Log

\* Every step of Recognition is one of the log's, or none that its readers see.
LEMMA StepRefines == IInv /\ KeyBuilt /\ [Next]_vars => [Abstract!Next]_(Abstract!vars)
<1> SUFFICES ASSUME IInv, KeyBuilt, [Next]_vars PROVE [Abstract!Next]_(Abstract!vars)
  OBVIOUS
<1> USE DEF Abstract!vars
<1>1. CASE UNCHANGED vars \/ NextWindow
  BY <1>1 DEF vars, NextWindow, Log
<1>2. ASSUME NEW r \in Requests,
             BuildKey(r) \/ (\E m \in Employees \cup {None} : Search(r, m))
               \/ \E n \in Names : Receive(r, n)
      PROVE  UNCHANGED <<Log, answer>>
  <2>1. UNCHANGED <<recorded, answer>>
    BY <1>2 DEF BuildKey, Search, Receive, Goto
  <2> QED
    BY <1>2, <2>1, KeysStand DEF Proceed
<1>3. ASSUME NEW r \in Requests, pc[r] # "done", UNCHANGED recorded,
             Reply(r, "error"), Proceed(r) \/ Fail(r)
      PROVE  Abstract!GiveUp(r)
  <2>1. UNCHANGED Log
    BY <1>3, KeysStand
  <2>2. answer[r] = "none"
    BY <1>3 DEF IInv, Placed
  <2> QED
    BY <1>3, <2>1, <2>2 DEF Abstract!GiveUp, Abstract!Tell, Reply
<1>4. ASSUME NEW r \in Requests, Upload(r) PROVE [Abstract!Next]_(Abstract!vars)
  <2>1. CASE Goto(r, "save")
    BY <1>4, <2>1, KeysStand DEF Upload, Goto, Proceed
  <2>2. CASE Reply(r, "error")
    BY <1>3, <1>4, <2>2 DEF Upload, Proceed, Abstract!Next
  <2> QED
    BY <1>4, <2>1, <2>2 DEF Upload
<1>5. ASSUME NEW r \in Requests, CommitFails(r) \/ Fail(r) PROVE Abstract!Next
  BY <1>3, <1>5 DEF CommitFails, Fail, InFlight, Proceed, Abstract!Next
<1>6. ASSUME NEW r \in Requests, Flush(r) PROVE [Abstract!Next]_(Abstract!vars)
  <2>1. UNCHANGED Log
    BY <1>6, KeysStand DEF Flush, Proceed
  <2>2. CASE Goto(r, "commit")
    BY <2>1, <2>2 DEF Goto
  <2>3. CASE (\E q \in recorded : SameKey(q, r)) /\ Reply(r, Status(r))
    <3>1. key[r] # None /\ Abstract!Logged(key[r])
      BY <2>3, LoggedKeys DEF SameKey
    <3>2. Status(r) = Abstract!Verdict(key[r])
      BY <1>6, VerdictOfKey DEF Flush, KeyBuilt
    <3>3. answer[r] = "none"
      BY <1>6 DEF Flush, IInv, Placed
    <3>4. Abstract!Drop(r, key[r])
      BY <2>1, <2>3, <3>1, <3>2, <3>3 DEF Abstract!Drop, Abstract!Tell, Reply
    <3>5. key[r] \in Keys \cup {None}
      BY DEF IInv, TypeOK
    <3> QED
      BY <3>4, <3>5 DEF Abstract!Next
  <2> QED
    BY <1>6, <2>2, <2>3 DEF Flush
<1>7. ASSUME NEW r \in Requests, Commit(r) PROVE Abstract!Next
  <2>1. r \in open /\ r \notin recorded
    BY <1>7 DEF Commit, IInv, Placed
  <2>2. key[r] = None \/ ~Abstract!Logged(key[r])
    BY <2>1, LoggedKeys DEF IInv, OneEventPerWindow, SameKey
  <2>3. Log' = Log \cup {[of |-> r, key |-> key[r]]}
    BY <1>7 DEF Commit, Log
  <2>4. Status(r) = Abstract!Verdict(key[r])
    BY <1>7, VerdictOfKey DEF Commit, KeyBuilt
  <2>5. answer[r] = "none"
    BY <1>7 DEF Commit, IInv, Placed
  <2>6. Abstract!Record(r, key[r])
    BY <1>7, <2>2, <2>3, <2>4, <2>5 DEF Commit, Abstract!Record, Abstract!Tell, Reply
  <2>7. key[r] \in Keys \cup {None}
    BY DEF IInv, TypeOK
  <2> QED
    BY <2>6, <2>7 DEF Abstract!Next
<1> QED
  BY <1>1, <1>2, <1>4, <1>5, <1>6, <1>7 DEF Next, Proceed

\* The events any number of pods commit, and the answers they give, are those of
\* one log that only grows and holds no duplicates.
THEOREM ImplementsSightingLog == Spec => Logs
<1>1. Init => KeyBuilt
  BY DEF Init, KeyBuilt
<1> QED
  BY <1>1, InitInv, StepInv, KeyBuiltStep, InitRefines, StepRefines, PTL
     DEF Spec, Logs, Abstract!Spec

-----------------------------------------------------------------------------
\* Whoever waits on the index waits for one transaction, and that is about to
\* commit, which waits for nobody: requests cannot wait in a circle.
THEOREM NoCircularWait ==
  Spec => [](\A r \in Requests : pc[r] = "flush" =>
                \A p, q \in open : SameKey(p, r) /\ SameKey(q, r) => p = q /\ pc[p] = "commit")
<1>1. IInv => \A r \in Requests : pc[r] = "flush" =>
                \A p, q \in open : SameKey(p, r) /\ SameKey(q, r) => p = q /\ pc[p] = "commit"
  BY DEF IInv, Placed, OneEventPerWindow, SameKey
<1> QED
  BY <1>1, InitInv, StepInv, PTL DEF Spec
=============================================================================
