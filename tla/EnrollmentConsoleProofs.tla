----------------------- MODULE EnrollmentConsoleProofs -----------------------
(***************************************************************************)
(* Theorems about the enrollment page, for any staff, any number of        *)
(* sessions and submissions, and any numbers of samples: its types, whose  *)
(* faces are sent, what the badge says, and one submission of a session at *)
(* a time.                                                                 *)
(***************************************************************************)
EXTENDS EnrollmentConsole, SequenceTheorems, TLAPS

PostType == [state : {"unused", "sent", "stored", "lost", "over"},
             session : Sessions \cup {None}, faces : SUBSET Staff,
             mounted : {"none", "page", "panel"}]

(* A session has an owner from its creation on, is shown and submitted only
   when it is created, and only a panel has samples. *)
OwnersOK ==
    /\ \A s \in Sessions : made[s] # "unused" => owner[s] \in Staff
    /\ session # None => made[session] = "over"
    /\ session = None => samples = <<>>
    /\ \A p \in Pending : post[p].session \in Sessions /\ made[post[p].session] = "over"
TypeInv == TypeOK /\ OwnersOK

(* A submission of the session that is shown was made in the panel that is
   shown, which waits for it unless a sample was captured meanwhile. *)
PanelInv ==
    /\ \A p \in UnderWay : post[p].session = session => post[p].mounted = "panel"
    /\ \A p \in UnderWay : post[p].mounted = "panel" => session # None
    /\ "capture" \notin hasty =>
          /\ \A p \in UnderWay : post[p].mounted = "panel" => submit = "submitting"
          /\ \A p, q \in UnderWay :
                post[p].mounted = "panel" /\ post[q].mounted = "panel" => p = q

(* What the backend has stored is a face of the session's owner. *)
StoredInv ==
    \A p \in UnderWay : post[p].state = "stored" => owner[post[p].session] \in enrolled

(* As long as nobody else was selected while a request was under way, all that
   is shown or awaited is of the person selected. *)
OfSelected ==
    /\ session # None => owner[session] = selected
    /\ \A s \in Creating : owner[s] = selected
    /\ \A i \in 1 .. Len(samples) : samples[i] = selected
    /\ \A p \in UnderWay : post[p].mounted # "none" => owner[post[p].session] = selected
PersonInv == "select" \notin hasty => OfSelected

-----------------------------------------------------------------------------
(* How the submissions change. *)

LEMMA Constants ==
    None \notin Staff /\ None \notin Sessions /\ Min \in Nat /\ Min # 0 /\ Target \in Nat
        /\ Min <= Target /\ MaxSearches \in Nat
BY ConsoleAssumption

LEMMA UnmountedPost ==
    ASSUME NEW q \in PostType
    PROVE  /\ Unmounted(q) \in PostType
           /\ Unmounted(q).state = q.state /\ Unmounted(q).session = q.session
           /\ Unmounted(q).faces = q.faces /\ Unmounted(q).mounted # "panel"
           /\ Unmounted(q).mounted # "none" => q.mounted # "none"
BY DEF Unmounted, PostType

LEMMA PostIsTyped == TypeOK => post \in [Posts -> PostType]
BY DEF TypeOK, PostType

LEMMA FreshIsTyped ==
    Fresh \in PostType /\ Over \in PostType /\ Over.state = "over" /\ Over.mounted = "none"
BY DEF Fresh, Over, PostType

LEMMA FacesAreStaff == TypeOK => Faces \subseteq Staff
BY ElementOfSeq DEF TypeOK, Faces

Kept(q) ==
    /\ post'[q] \in PostType
    /\ post'[q].state \in {"sent", "stored", "lost"} =>
          /\ post[q].state \in {"sent", "stored", "lost"}
          /\ post'[q].session = post[q].session /\ post'[q].faces = post[q].faces
    /\ post'[q].state \in {"sent", "stored"} =>
          /\ post[q].state \in {"sent", "stored"}
          /\ post'[q].mounted # "none" => post[q].mounted # "none"
          /\ post'[q].mounted = "panel" => post[q].mounted = "panel"

LEMMA UnmountKeeps ==
    ASSUME TypeOK, post' = [p \in Posts |-> Unmounted(post[p])], NEW q \in Posts
    PROVE  Kept(q) /\ post'[q].mounted # "panel" /\ post'[q].state = post[q].state
<1>1. post[q] \in PostType /\ post'[q] = Unmounted(post[q])
  BY PostIsTyped
<1> QED BY <1>1, UnmountedPost DEF Kept

LEMMA SucceedKeeps ==
    ASSUME TypeOK, NEW p \in Posts, NEW q \in Posts, PostSucceeds(p)
    PROVE  /\ Kept(q) /\ (post[p].mounted # "none" => post'[q].mounted # "panel")
           /\ post'[q].state = IF q = p THEN "over" ELSE post[q].state
           /\ post[p].mounted = "none" /\ q # p => post'[q] = post[q]
<1>1. post[q] \in PostType
  BY PostIsTyped
<1>2. CASE post[p].mounted # "none"
  <2>1. post' = [[r \in Posts |-> Unmounted(post[r])] EXCEPT ![p] = Over]
    BY <1>2 DEF PostSucceeds
  <2>2. post'[q] = IF q = p THEN Over ELSE Unmounted(post[q])
    BY <2>1
  <2> QED BY <1>1, <1>2, <2>2, UnmountedPost, FreshIsTyped DEF Kept
<1>3. CASE post[p].mounted = "none"
  <2>1. post'[q] = IF q = p THEN Over ELSE post[q]
    BY <1>3, PostIsTyped DEF PostSucceeds
  <2> QED BY <1>1, <1>3, <2>1, FreshIsTyped DEF Kept
<1> QED BY <1>2, <1>3 DEF PostType

(* The one that fails is over, or all that is left of it is what the backend does. *)
LEMMA FailKeeps ==
    ASSUME TypeOK, NEW p \in Posts, NEW q \in Posts, PostFails(p)
    PROVE  Kept(q) /\ (q # p => post'[q] = post[q]) /\ p \notin UnderWay'
<1>1. post[q] \in PostType /\ post[p] \in PostType /\ p \in UnderWay
  BY PostIsTyped DEF PostFails
<1>2. CASE post' = [post EXCEPT ![p] = Over]
  <2>1. post'[p] = Over /\ (q # p => post'[q] = post[q])
    BY <1>2, PostIsTyped
  <2> QED BY <1>1, <2>1, FreshIsTyped DEF Kept, UnderWay
<1>3. CASE post' = [post EXCEPT ![p].state = "lost", ![p].mounted = "none"]
  <2>1. /\ post'[p] = [post[p] EXCEPT !.state = "lost", !.mounted = "none"]
        /\ q # p => post'[q] = post[q]
    BY <1>1, <1>3, PostIsTyped
  <2> QED BY <1>1, <2>1 DEF Kept, UnderWay, PostType
<1> QED BY <1>2, <1>3 DEF PostFails

LEMMA StoreKeeps ==
    ASSUME TypeOK, NEW p \in Posts, NEW q \in Posts, Store(p)
    PROVE  /\ Kept(q) /\ (q # p => post'[q] = post[q])
           /\ \/ post[p].state = "sent" /\ post'[p].state = "stored"
              \/ post[p].state = "lost" /\ p \notin UnderWay'
           /\ q \in UnderWay' => post'[q].mounted = post[q].mounted
           /\ q \in UnderWay => q \in UnderWay'
<1>1. post[q] \in PostType /\ post[p] \in PostType
  BY PostIsTyped
<1>2. CASE post[p].state = "sent" /\ post' = [post EXCEPT ![p].state = "stored"]
  <2>1. /\ post'[q] = IF q = p THEN [post[q] EXCEPT !.state = "stored"] ELSE post[q]
        /\ post'[p] = [post[p] EXCEPT !.state = "stored"]
    BY <1>2, PostIsTyped
  <2> QED BY <1>1, <1>2, <2>1 DEF Kept, PostType, UnderWay
<1>3. CASE post[p].state = "lost" /\ post' = [post EXCEPT ![p] = Over]
  <2>1. post'[p] = Over /\ (q # p => post'[q] = post[q])
    BY <1>3, PostIsTyped
  <2> QED BY <1>1, <1>3, <2>1, FreshIsTyped DEF Kept, UnderWay
<1> QED BY <1>2, <1>3 DEF Store

LEMMA LeaveKeeps ==
    ASSUME TypeOK, NEW q \in Posts, Leave
    PROVE  Kept(q) /\ post'[q].mounted = "none" /\ post'[q].state = post[q].state
<1>1. post[q] \in PostType /\ post'[q] = [post[q] EXCEPT !.mounted = "none"]
  BY PostIsTyped DEF Leave
<1> QED BY <1>1 DEF Kept, PostType

LEMMA SameKeeps ==
    ASSUME TypeOK, NEW q \in Posts, post' = post
    PROVE  Kept(q)
BY PostIsTyped DEF Kept

(* The one that is made. *)
LEMMA Submitted ==
    ASSUME TypeOK, NEW p \in Posts, Submit(p)
    PROVE  /\ session \in Sessions /\ session # None /\ submit # "submitting"
           /\ post'[p] = [state |-> "sent", session |-> session, faces |-> Faces,
                          mounted |-> "panel"]
           /\ post'[p] \in PostType /\ p \notin Pending
           /\ \A q \in Posts \ {p} : post'[q] = post[q] /\ Kept(q)
<1>1. /\ session \in Sessions /\ session # None /\ submit # "submitting"
      /\ post'[p] = [state |-> "sent", session |-> session, faces |-> Faces,
                     mounted |-> "panel"]
      /\ p \notin Pending
      /\ \A q \in Posts \ {p} : post'[q] = post[q]
  BY DEF Submit, UnderWay, Lost, Pending, TypeOK
<1>2. post'[p] \in PostType
  BY <1>1, FacesAreStaff DEF PostType
<1>3. \A q \in Posts \ {p} : Kept(q)
  BY <1>1, PostIsTyped DEF Kept
<1> QED BY <1>1, <1>2, <1>3

LEMMA AllKept ==
    ASSUME TypeOK, [Next]_vars, NEW q \in Posts, \A p \in Posts : ~Submit(p)
    PROVE  Kept(q)
<1>1. CASE post' = post
  BY <1>1, SameKeeps
<1>2. CASE (\E e \in Staff : Select(e)) \/ Close
  BY <1>2, UnmountKeeps DEF Select, Close, NoSession
<1>3. CASE Leave
  BY <1>3, LeaveKeeps
<1>4. ASSUME NEW p \in Posts, Store(p) \/ PostSucceeds(p) \/ PostFails(p)
      PROVE  Kept(q)
  BY <1>4, StoreKeeps, SucceedKeeps, FailKeeps
<1>5. CASE \/ ClearQuery \/ SearchStaff \/ CameraStarts \/ Capture \/ Clear \/ SearchAnswered
           \/ \E s \in Sessions : Scan(s) \/ ScanSucceeds(s) \/ ScanFails(s)
  BY <1>1, <1>5 DEF ClearQuery, SearchStaff, CameraStarts, Capture, Clear, SearchAnswered,
                    Scan, ScanSucceeds, ScanFails
<1>6. CASE UNCHANGED vars
  BY <1>1, <1>6 DEF vars
<1> QED BY <1>2, <1>3, <1>4, <1>5, <1>6 DEF Next, Answered

LEMMA PostsTyped ==
    ASSUME TypeOK, [Next]_vars
    PROVE  post' \in [Posts -> PostType]
<1>1. ASSUME NEW q \in Posts
      PROVE  post'[q] \in PostType
  <2>1. CASE \A p \in Posts : ~Submit(p)
    BY <2>1, AllKept DEF Kept
  <2>2. ASSUME NEW p \in Posts, Submit(p)
        PROVE  post'[q] \in PostType
    BY <2>2, Submitted DEF Kept
  <2> QED BY <2>1, <2>2
<1>2. post' = [q \in Posts |-> post'[q]]
  <2>1. CASE post' = post
    BY <2>1, PostIsTyped
  <2>2. CASE (\E e \in Staff : Select(e)) \/ Close \/ Leave
    BY <2>2 DEF Select, Close, NoSession, Leave
  <2>3. ASSUME NEW p \in Posts, Store(p) \/ PostFails(p) \/ PostSucceeds(p) \/ Submit(p)
        PROVE  post' = [q \in Posts |-> post'[q]]
    BY <2>3, PostIsTyped DEF Store, PostFails, PostSucceeds, Submit
  <2>4. CASE \/ ClearQuery \/ SearchStaff \/ CameraStarts \/ Capture \/ Clear \/ SearchAnswered
             \/ (\E s \in Sessions : Scan(s) \/ ScanSucceeds(s) \/ ScanFails(s))
             \/ UNCHANGED vars
    BY <2>1, <2>4 DEF ClearQuery, SearchStaff, CameraStarts, Capture, Clear, SearchAnswered,
                      Scan, ScanSucceeds, ScanFails, vars
  <2> QED BY <2>2, <2>3, <2>4 DEF Next, Answered
<1> QED BY <1>1, <1>2

-----------------------------------------------------------------------------
(* Types. *)

Statuses == {"creating-session", "other"}

(* What a step that is no capture leaves of the panel. *)
LEMMA PanelIsTyped ==
    ASSUME TypeOK, NewPanel \/ UNCHANGED panel
    PROVE  /\ samples' \in Seq(Staff) /\ Len(samples') <= Target
           /\ live' \in BOOLEAN /\ submit' \in {"ready", "submitting", "error"}
<1>1. <<>> \in Seq(Staff) /\ Len(<<>>) = 0
  BY EmptySeq
<1>2. CASE NewPanel
  <2>1. samples' = <<>> /\ live' = FALSE /\ submit' = "ready"
    BY <1>2 DEF NewPanel
  <2>2. samples' \in Seq(Staff) /\ Len(samples') = 0
    BY <1>1, <2>1
  <2>3. Len(samples') <= Target
    BY <2>2, Constants
  <2> QED BY <2>1, <2>2, <2>3
<1>3. CASE UNCHANGED panel
  BY <1>3 DEF panel, TypeOK
<1> QED BY <1>2, <1>3

LEMMA CapturedSamples ==
    ASSUME TypeInv, session # None, samples' # samples,
           samples' = Append(IF Len(samples) < Target THEN samples ELSE Tail(samples),
                             owner[session])
    PROVE  /\ samples' \in Seq(Staff) /\ Len(samples') <= Target
           /\ \A i \in 1 .. Len(samples') :
                 \/ samples'[i] = owner[session]
                 \/ \E j \in 1 .. Len(samples) : samples'[i] = samples[j]
<1>1. samples \in Seq(Staff) /\ Len(samples) \in Nat /\ Len(samples) <= Target
  BY LenProperties DEF TypeInv, TypeOK
<1>2. owner[session] \in Staff
  BY DEF TypeInv, OwnersOK, TypeOK
<1>3. PICK kept \in Seq(Staff) :
         /\ samples' = Append(kept, owner[session]) /\ Len(kept) \in Nat /\ Len(kept) < Target
         /\ \A i \in 1 .. Len(kept) : \E j \in 1 .. Len(samples) : kept[i] = samples[j]
  <2>1. CASE Len(samples) < Target
    BY <1>1, <2>1
  <2>2. CASE ~(Len(samples) < Target)
    <3>1. samples # <<>>
      BY <1>1, <2>2, Constants
    <3>2. /\ Tail(samples) \in Seq(Staff) /\ Len(Tail(samples)) = Len(samples) - 1
          /\ \A i \in 1 .. Len(Tail(samples)) : Tail(samples)[i] = samples[i + 1]
      BY <1>1, <3>1, HeadTailProperties
    <3>3. Len(samples) = Target /\ Target # 0 /\ Target \in Nat
      BY <1>1, <2>2, Constants
    <3>4. ASSUME NEW i \in 1 .. Len(Tail(samples))
          PROVE  \E j \in 1 .. Len(samples) : Tail(samples)[i] = samples[j]
      <4>1. i + 1 \in 1 .. Len(samples)
        <5>1. i \in 1 .. (Len(samples) - 1)
          BY <3>2
        <5> QED BY <1>1, <5>1
      <4> QED BY <3>2, <4>1
    <3>5. Len(Tail(samples)) \in Nat /\ Len(Tail(samples)) < Target
      <4>1. Target - 1 \in Nat /\ Target - 1 < Target
        BY <3>3
      <4> QED BY <3>2, <3>3, <4>1
    <3>6. samples' = Append(Tail(samples), owner[session])
      BY <2>2
    <3> DEFINE rest == Tail(samples)
    <3>7. /\ rest \in Seq(Staff) /\ samples' = Append(rest, owner[session])
          /\ Len(rest) \in Nat /\ Len(rest) < Target
          /\ \A i \in 1 .. Len(rest) : \E j \in 1 .. Len(samples) : rest[i] = samples[j]
      BY <3>2, <3>4, <3>5, <3>6
    <3> HIDE DEF rest
    <3> QED BY <3>7
  <2> QED BY <2>1, <2>2
<1>4. /\ samples' \in Seq(Staff) /\ Len(samples') = Len(kept) + 1
      /\ samples'[Len(kept) + 1] = owner[session]
      /\ \A i \in 1 .. Len(kept) : samples'[i] = kept[i]
  <2> DEFINE more == Append(kept, owner[session])
  <2>1. /\ more \in Seq(Staff) /\ Len(more) = Len(kept) + 1
        /\ more[Len(kept) + 1] = owner[session]
        /\ \A i \in 1 .. Len(kept) : more[i] = kept[i]
    BY <1>2, AppendProperties
  <2>2. samples' = more
    BY <1>3
  <2> HIDE DEF more
  <2> QED BY <2>1, <2>2
<1>5. Len(samples') <= Target
  BY <1>3, <1>4, Constants
<1>6. ASSUME NEW i \in 1 .. Len(samples')
      PROVE  \/ samples'[i] = owner[session]
             \/ \E j \in 1 .. Len(samples) : samples'[i] = samples[j]
  <2>1. i \in 1 .. Len(kept) \/ i = Len(kept) + 1
    BY <1>3, <1>4
  <2> QED BY <1>3, <1>4, <2>1
<1> QED BY <1>4, <1>5, <1>6

LEMMA TypeStep ==
    ASSUME TypeInv, [Next]_vars
    PROVE  TypeOK'
<1>0. post' \in [Posts -> PostType]
  BY PostsTyped DEF TypeInv
<1>1. SUFFICES /\ searching' \in 0 .. MaxSearches /\ listed' \in BOOLEAN
               /\ selected' \in Staff \cup {None} /\ badge' \in BOOLEAN
               /\ session' \in Sessions \cup {None} /\ status' \in Statuses
               /\ samples' \in Seq(Staff) /\ Len(samples') <= Target
               /\ live' \in BOOLEAN /\ submit' \in {"ready", "submitting", "error"}
               /\ owner' \in [Sessions -> Staff \cup {None}]
               /\ made' \in [Sessions -> {"unused", "creating", "over"}]
               /\ enrolled' \subseteq Staff /\ hasty' \subseteq {"select", "capture"}
  BY <1>0 DEF TypeOK, PostType, Statuses
<1>2. /\ searching \in 0 .. MaxSearches /\ listed \in BOOLEAN
      /\ selected \in Staff \cup {None} /\ badge \in BOOLEAN
      /\ session \in Sessions \cup {None} /\ status \in Statuses
      /\ samples \in Seq(Staff) /\ Len(samples) <= Target
      /\ live \in BOOLEAN /\ submit \in {"ready", "submitting", "error"}
      /\ owner \in [Sessions -> Staff \cup {None}]
      /\ made \in [Sessions -> {"unused", "creating", "over"}]
      /\ enrolled \subseteq Staff /\ hasty \subseteq {"select", "capture"}
      /\ MaxSearches \in Nat
  BY Constants DEF TypeInv, TypeOK, Statuses
<1>3. CASE ClearQuery \/ SearchStaff \/ SearchAnswered
  <2>1. UNCHANGED <<selected, badge, session, samples, live, submit, owner, made, enrolled, hasty>>
    BY <1>3 DEF ClearQuery, SearchStaff, SearchAnswered, choice, panel
  <2>2. searching' \in 0 .. MaxSearches
    BY <1>2, <1>3 DEF ClearQuery, SearchStaff, SearchAnswered
  <2>3. listed' \in BOOLEAN /\ status' \in Statuses
    BY <1>2, <1>3 DEF ClearQuery, SearchStaff, SearchAnswered, Statuses
  <2> QED BY <1>2, <2>1, <2>2, <2>3
<1>4. ASSUME NEW e \in Staff, Select(e)
      PROVE  <1>1!1
  <2>1. NewPanel /\ session' = None /\ UNCHANGED <<searching, listed, status, owner, made, enrolled>>
    BY <1>4 DEF Select, NoSession, search
  <2>2. selected' = e /\ hasty' \subseteq {"select", "capture"}
    BY <1>2, <1>4 DEF Select, Hurry
  <2>4. badge' \in BOOLEAN
    BY <1>4 DEF Select
  <2> QED BY <1>2, <2>1, <2>2, <2>4, PanelIsTyped DEF TypeInv
<1>5. ASSUME NEW s \in Sessions, Scan(s) \/ ScanSucceeds(s) \/ ScanFails(s)
      PROVE  <1>1!1
  <2>1. NewPanel \/ UNCHANGED panel
    BY <1>5 DEF Scan, ScanSucceeds, ScanFails
  <2>2. /\ UNCHANGED <<searching, listed, selected, badge, enrolled, hasty>>
        /\ session' \in Sessions \cup {None} /\ status' \in Statuses
        /\ owner' \in [Sessions -> Staff \cup {None}]
        /\ made' \in [Sessions -> {"unused", "creating", "over"}]
    BY <1>2, <1>5 DEF Scan, ScanSucceeds, ScanFails, search, choice, Statuses
  <2> QED BY <1>2, <2>1, <2>2, PanelIsTyped DEF TypeInv
<1>6. CASE Close
  <2>1. NewPanel /\ session' = None
        /\ UNCHANGED <<searching, listed, selected, badge, status, owner, made, enrolled, hasty>>
    BY <1>6 DEF Close, NoSession, search, choice
  <2> QED BY <1>2, <2>1, PanelIsTyped DEF TypeInv
<1>7. CASE CameraStarts
  BY <1>2, <1>7 DEF CameraStarts, search, choice
<1>8. CASE Capture
  <2>1. /\ UNCHANGED <<searching, listed, selected, badge, session, status, live, owner, made, enrolled>>
        /\ submit' \in {"ready", "error"} /\ hasty' \subseteq {"select", "capture"}
    BY <1>2, <1>8 DEF Capture, Hurry, search, choice
  <2>2. samples' \in Seq(Staff) /\ Len(samples') <= Target
    BY <1>2, <1>8, CapturedSamples DEF Capture
  <2> QED BY <1>2, <2>1, <2>2
<1>9. CASE Clear
  <2>1. samples' = <<>> /\ <<>> \in Seq(Staff) /\ Len(<<>>) = 0
    BY <1>9, EmptySeq DEF Clear
  <2> QED BY <1>2, <1>9, <2>1, Constants DEF Clear, search, choice
<1>10. ASSUME NEW p \in Posts, Submit(p)
       PROVE  <1>1!1
  BY <1>2, <1>10 DEF Submit, search, choice
<1>11. ASSUME NEW p \in Posts, Store(p)
       PROVE  <1>1!1
  <2>1. post[p].session \in Sessions
    BY <1>11 DEF Store, TypeInv, OwnersOK, UnderWay, Lost, Pending
  <2>2. owner[post[p].session] \in Staff
    BY <1>11, <2>1 DEF Store, TypeInv, OwnersOK, UnderWay, Lost, Pending
  <2> QED BY <1>2, <1>11, <2>2 DEF Store, search, choice, panel
<1>12. ASSUME NEW p \in Posts, PostSucceeds(p)
       PROVE  <1>1!1
  <2>1. NewPanel \/ UNCHANGED panel
    BY <1>12 DEF PostSucceeds
  <2>2. /\ UNCHANGED <<searching, listed, selected, owner, made, enrolled, hasty>>
        /\ session' \in {session, None} /\ badge' \in BOOLEAN /\ status' \in Statuses
    BY <1>2, <1>12 DEF PostSucceeds, search, Statuses
  <2> QED BY <1>2, <2>1, <2>2, PanelIsTyped DEF TypeInv
<1>13. ASSUME NEW p \in Posts, PostFails(p)
       PROVE  <1>1!1
  BY <1>2, <1>13 DEF PostFails, search, choice
<1>14. CASE Leave
  <2>1. NewPanel /\ session' = None /\ searching' = 0 /\ listed' = FALSE /\ selected' = None
        /\ badge' = FALSE /\ status' = "other" /\ UNCHANGED <<owner, enrolled, hasty>>
        /\ made' \in [Sessions -> {"unused", "creating", "over"}]
    BY <1>2, <1>14 DEF Leave
  <2>2. searching' \in 0 .. MaxSearches
    BY <1>2, <2>1
  <2>3. listed' \in BOOLEAN /\ badge' \in BOOLEAN /\ status' \in Statuses
    BY <2>1 DEF Statuses
  <2> QED BY <1>2, <2>1, <2>2, <2>3, PanelIsTyped DEF TypeInv
<1>15. CASE UNCHANGED vars
  BY <1>2, <1>15 DEF vars, search, choice, panel
<1> QED BY <1>3, <1>4, <1>5, <1>6, <1>7, <1>8, <1>9, <1>10, <1>11, <1>12, <1>13, <1>14, <1>15
        DEF Next, Answered

-----------------------------------------------------------------------------
(* Owners. *)

LEMMA OwnersStep ==
    ASSUME TypeInv, [Next]_vars
    PROVE  OwnersOK'
<1>0. /\ \A s \in Sessions : made[s] # "unused" => owner[s] \in Staff
      /\ session # None => session \in Sessions /\ made[session] = "over"
      /\ session = None => samples = <<>>
      /\ \A p \in Pending : post[p].session \in Sessions /\ made[post[p].session] = "over"
      /\ made \in [Sessions -> {"unused", "creating", "over"}]
      /\ owner \in [Sessions -> Staff \cup {None}] /\ selected \in Staff \cup {None}
      /\ None \notin Sessions
  BY Constants DEF TypeInv, TypeOK, OwnersOK
<1>1. ASSUME \A s \in Sessions : made[s] = "over" => made'[s] = "over",
             \A s \in Sessions : made'[s] # "unused" => owner'[s] \in Staff,
             session' # None => session' \in Sessions /\ made'[session'] = "over",
             session' = None => samples' = <<>>,
             \A p \in Posts : ~Submit(p)
      PROVE  OwnersOK'
  <2>1. ASSUME NEW p \in Pending'
        PROVE  p \in Pending /\ post'[p].session = post[p].session
    BY <1>1, <2>1, AllKept DEF Kept, UnderWay, Lost, Pending, TypeInv
  <2> QED BY <1>0, <1>1, <2>1 DEF OwnersOK
<1>2. ASSUME NEW p \in Posts, Submit(p)
      PROVE  OwnersOK'
  <2>1. UNCHANGED <<owner, made, session, samples>>
    BY <1>2 DEF Submit
  <2>2. /\ post'[p].session = session /\ session # None
        /\ \A q \in Posts \ {p} : post'[q] = post[q]
    BY <1>2, Submitted DEF TypeInv
  <2>3. \A q \in Pending' : post'[q].session \in Sessions /\ made[post'[q].session] = "over"
    BY <1>0, <2>2 DEF UnderWay, Lost, Pending
  <2> QED BY <1>0, <2>1, <2>3 DEF OwnersOK
<1>3. CASE \A p \in Posts : ~Submit(p)
  <2>1. CASE ClearQuery \/ SearchStaff \/ SearchAnswered \/ CameraStarts \/ Capture \/ Clear
    <3>1. UNCHANGED <<owner, made, session>>
      BY <2>1 DEF ClearQuery, SearchStaff, SearchAnswered, CameraStarts, Capture, Clear
    <3>2. session = None => samples' = samples
      BY <2>1 DEF ClearQuery, SearchStaff, SearchAnswered, CameraStarts, Capture, Clear, panel
    <3> QED BY <1>0, <1>1, <1>3, <3>1, <3>2
  <2>2. CASE (\E e \in Staff : Select(e)) \/ Close \/ Leave
    <3>1. session' = None /\ samples' = <<>> /\ owner' = owner
      BY <2>2 DEF Select, Close, Leave, NoSession, NewPanel
    <3>2. \A s \in Sessions : /\ made[s] = "over" => made'[s] = "over"
                              /\ made'[s] # "unused" => made[s] # "unused"
      BY <2>2 DEF Select, Close, Leave
    <3> QED BY <1>0, <1>1, <1>3, <3>1, <3>2
  <2>3. ASSUME NEW s \in Sessions, Scan(s)
        PROVE  OwnersOK'
    <3>1. /\ UNCHANGED <<session, samples>> /\ made[s] = "unused" /\ selected \in Staff
          /\ made' = [made EXCEPT ![s] = "creating"] /\ owner' = [owner EXCEPT ![s] = selected]
      BY <1>0, <2>3 DEF Scan, panel
    <3>2. \A t \in Sessions : made'[t] # "unused" => owner'[t] \in Staff
      BY <1>0, <3>1
    <3>3. \A t \in Sessions : made[t] = "over" => made'[t] = "over"
      BY <1>0, <3>1
    <3> QED BY <1>0, <1>1, <1>3, <3>1, <3>2, <3>3
  <2>4. ASSUME NEW s \in Sessions, ScanSucceeds(s)
        PROVE  OwnersOK'
    <3>1. /\ session' = s /\ made[s] = "creating" /\ made' = [made EXCEPT ![s] = "over"]
          /\ owner' = owner
      BY <2>4 DEF ScanSucceeds
    <3>2. \A t \in Sessions : /\ made[t] = "over" => made'[t] = "over"
                              /\ made'[t] # "unused" => made[t] # "unused"
      BY <1>0, <3>1
    <3>3. made'[s] = "over"
      BY <1>0, <3>1
    <3> QED BY <1>0, <1>1, <1>3, <3>1, <3>2, <3>3
  <2>5. ASSUME NEW s \in Sessions, ScanFails(s)
        PROVE  OwnersOK'
    <3>1. /\ UNCHANGED <<session, samples, owner>> /\ made[s] = "creating"
          /\ made' = [made EXCEPT ![s] = "over"]
      BY <2>5 DEF ScanFails, panel
    <3>2. \A t \in Sessions : /\ made[t] = "over" => made'[t] = "over"
                              /\ made'[t] # "unused" => made[t] # "unused"
      BY <1>0, <3>1
    <3> QED BY <1>0, <1>1, <1>3, <3>1, <3>2
  <2>6. ASSUME NEW p \in Posts, Store(p) \/ PostSucceeds(p) \/ PostFails(p)
        PROVE  OwnersOK'
    <3>1. /\ UNCHANGED <<owner, made>>
          /\ \/ session' = None /\ samples' = <<>>
             \/ UNCHANGED <<session, samples>>
      BY <2>6 DEF Store, PostSucceeds, PostFails, NewPanel, panel
    <3> QED BY <1>0, <1>1, <1>3, <3>1
  <2>7. CASE UNCHANGED vars
    <3>1. UNCHANGED <<owner, made, session, samples>>
      BY <2>7 DEF vars, panel
    <3> QED BY <1>0, <1>1, <1>3, <3>1
  <2> QED BY <1>3, <2>1, <2>2, <2>3, <2>4, <2>5, <2>6, <2>7 DEF Next, Answered
<1> QED BY <1>2, <1>3

LEMMA TypeInvStep == TypeInv /\ [Next]_vars => TypeInv'
BY TypeStep, OwnersStep DEF TypeInv

-----------------------------------------------------------------------------
(* One submission of a session at a time. *)

(* Of what the page waits for; the others it has given up. *)
Single ==
    \A p, q \in UnderWay : p # q /\ post[p].session = post[q].session => "capture" \in hasty

LEMMA SingleIsOne == Single => OneSubmission
BY DEF Single, OneSubmission, Pending

LEMMA PanelStep ==
    ASSUME TypeInv, PanelInv, Single, [Next]_vars
    PROVE  PanelInv' /\ Single'
<1>0. /\ TypeOK
      /\ session # None => session \in Sessions /\ made[session] = "over"
      /\ \A p \in UnderWay : post[p].session \in Sessions /\ made[post[p].session] = "over"
      /\ None \notin Sessions
  BY Constants DEF TypeInv, TypeOK, OwnersOK, Pending
<1>1. ASSUME "capture" \notin hasty' => "capture" \notin hasty, \A p \in Posts : ~Submit(p)
      PROVE  Single'
  <2>1. \A p \in UnderWay' : p \in UnderWay /\ post'[p].session = post[p].session
    BY <1>0, <1>1, AllKept DEF Kept, UnderWay
  <2> QED BY <1>1, <2>1 DEF Single
<1>2. ASSUME hasty' = hasty \/ hasty' = hasty \cup {"select"}, \A p \in Posts : ~Submit(p),
             session' = None \/ (session' = session /\ submit' = submit),
             \A p \in UnderWay' : session' # None => post'[p].mounted = post[p].mounted,
             \A p \in UnderWay' : session' = None => post'[p].mounted # "panel"
      PROVE  PanelInv' /\ Single'
  <2>1. \A p \in UnderWay' : /\ p \in UnderWay /\ post'[p].session = post[p].session
                             /\ post'[p].mounted = "panel" => post[p].mounted = "panel"
    BY <1>0, <1>2, AllKept DEF Kept, UnderWay
  <2>2. "capture" \notin hasty' => "capture" \notin hasty
    BY <1>2
  <2>3. PanelInv'
    BY <1>0, <1>2, <2>1, <2>2 DEF PanelInv
  <2> QED BY <1>1, <1>2, <2>2, <2>3
<1>3. ASSUME NEW p \in Posts, Submit(p)
      PROVE  PanelInv' /\ Single'
  <2>1. UNCHANGED <<session, hasty>> /\ submit' = "submitting"
    BY <1>3 DEF Submit
  <2>2. /\ session \in Sessions /\ session # None /\ submit # "submitting"
        /\ post'[p].session = session /\ post'[p].mounted = "panel"
        /\ \A q \in Posts \ {p} : post'[q] = post[q]
    BY <1>0, <1>3, Submitted
  <2>3. \A q \in UnderWay' : q = p \/ (q \in UnderWay /\ post'[q] = post[q])
    BY <2>2 DEF UnderWay
  <2>4. "capture" \notin hasty =>
           \A q \in UnderWay : post[q].mounted # "panel" /\ post[q].session # session
    BY <2>2 DEF PanelInv
  <2>5. PanelInv'
    BY <2>1, <2>2, <2>3, <2>4 DEF PanelInv
  <2>6. Single'
    BY <2>1, <2>2, <2>3, <2>4 DEF Single
  <2> QED BY <2>5, <2>6
<1>4. CASE \A p \in Posts : ~Submit(p)
  <2>1. CASE ClearQuery \/ SearchStaff \/ SearchAnswered \/ CameraStarts \/ Clear
    <3>1. UNCHANGED <<session, submit, hasty, post>>
      BY <2>1 DEF ClearQuery, SearchStaff, SearchAnswered, CameraStarts, Clear, panel
    <3> QED BY <1>1, <3>1 DEF PanelInv, Single, UnderWay
  <2>2. CASE Capture
    <3>1. UNCHANGED <<session, post>> /\ submit' # "submitting"
          /\ hasty' = IF submit = "submitting" THEN hasty \cup {"capture"} ELSE hasty
      BY <2>2 DEF Capture, Hurry
    <3>2. UnderWay' = UnderWay
      BY <3>1 DEF UnderWay
    <3> QED BY <3>1, <3>2 DEF PanelInv, Single
  <2>3. CASE (\E e \in Staff : Select(e)) \/ Close
    <3>1. /\ session' = None /\ post' = [p \in Posts |-> Unmounted(post[p])]
          /\ hasty' = hasty \/ hasty' = hasty \cup {"select"}
      BY <2>3 DEF Select, Close, NoSession, Hurry
    <3>2. \A p \in UnderWay' : post'[p].mounted # "panel"
      BY <1>0, <3>1, UnmountKeeps DEF UnderWay
    <3>3. /\ session' = None \/ (session' = session /\ submit' = submit)
          /\ \A p \in UnderWay' : session' # None => post'[p].mounted = post[p].mounted
          /\ \A p \in UnderWay' : session' = None => post'[p].mounted # "panel"
          /\ hasty' = hasty \/ hasty' = hasty \cup {"select"}
      BY <3>1, <3>2
    <3> QED BY <1>2, <1>4, <3>3
  <2>4. CASE Leave
    <3>1. session' = None /\ hasty' = hasty
      BY <2>4 DEF Leave
    <3>2. \A p \in UnderWay' : post'[p].mounted # "panel"
      BY <1>0, <2>4, LeaveKeeps DEF UnderWay
    <3>3. /\ session' = None \/ (session' = session /\ submit' = submit)
          /\ \A p \in UnderWay' : session' # None => post'[p].mounted = post[p].mounted
          /\ \A p \in UnderWay' : session' = None => post'[p].mounted # "panel"
          /\ hasty' = hasty \/ hasty' = hasty \cup {"select"}
      BY <3>1, <3>2
    <3> QED BY <1>2, <1>4, <3>3
  <2>5. ASSUME NEW s \in Sessions, ScanSucceeds(s)
        PROVE  PanelInv' /\ Single'
    <3>1. /\ session' = s /\ made[s] = "creating" /\ UNCHANGED <<post, hasty>>
          /\ session # None => submit' = submit
      BY <2>5 DEF ScanSucceeds, panel
    <3>2. \A p \in UnderWay : post[p].session # s /\ s # None
      BY <1>0, <3>1
    <3>3. UnderWay' = UnderWay
      BY <3>1 DEF UnderWay
    <3> QED BY <3>1, <3>2, <3>3 DEF PanelInv, Single
  <2>6. ASSUME NEW s \in Sessions, Scan(s) \/ ScanFails(s)
        PROVE  PanelInv' /\ Single'
    <3>1. UNCHANGED <<session, submit, hasty, post>>
      BY <2>6 DEF Scan, ScanFails, panel
    <3> QED BY <3>1 DEF PanelInv, Single, UnderWay
  <2>7. ASSUME NEW p \in Posts, Store(p)
        PROVE  PanelInv' /\ Single'
    <3>1. UNCHANGED <<session, submit, hasty>>
      BY <2>7 DEF Store, panel
    <3>2. \A q \in UnderWay' : post'[q].mounted = post[q].mounted
      BY <1>0, <2>7, StoreKeeps DEF UnderWay
    <3>3. session = None => \A q \in UnderWay' : post'[q].mounted # "panel"
      <4>1. UnderWay' \subseteq UnderWay
        BY <1>0, <2>7, StoreKeeps DEF Kept, UnderWay
      <4> QED BY <3>2, <4>1 DEF PanelInv, UnderWay
    <3> QED BY <1>2, <1>4, <3>1, <3>2, <3>3 DEF UnderWay
  <2>8. ASSUME NEW p \in Posts, PostSucceeds(p)
        PROVE  PanelInv' /\ Single'
    <3>1. hasty' = hasty
      BY <2>8 DEF PostSucceeds
    <3>2. CASE post[p].mounted # "none"
      <4>1. session' = None
        BY <2>8, <3>2 DEF PostSucceeds
      <4>2. \A q \in UnderWay' : post'[q].mounted # "panel"
        BY <1>0, <2>8, <3>2, SucceedKeeps DEF UnderWay
      <4>3. /\ session' = None \/ (session' = session /\ submit' = submit)
            /\ \A q \in UnderWay' : session' # None => post'[q].mounted = post[q].mounted
            /\ \A q \in UnderWay' : session' = None => post'[q].mounted # "panel"
            /\ hasty' = hasty \/ hasty' = hasty \cup {"select"}
        BY <3>1, <4>1, <4>2
      <4> QED BY <1>2, <1>4, <4>3
    <3>3. CASE post[p].mounted = "none"
      <4>1. session' = session /\ submit' = submit
        BY <2>8, <3>3 DEF PostSucceeds, panel
      <4>2. \A q \in UnderWay' : q # p /\ q \in UnderWay /\ post'[q] = post[q]
        BY <1>0, <2>8, <3>3, SucceedKeeps DEF UnderWay, Kept
      <4> QED BY <1>2, <1>4, <3>1, <4>1, <4>2 DEF PanelInv
    <3> QED BY <3>2, <3>3
  <2>9. ASSUME NEW p \in Posts, PostFails(p)
        PROVE  PanelInv' /\ Single'
    <3>1. /\ UNCHANGED <<session, hasty>> /\ p \in UnderWay
          /\ submit' = IF post[p].mounted = "panel" THEN "error" ELSE submit
      BY <2>9 DEF PostFails
    <3>2. \A q \in UnderWay' : q # p /\ q \in UnderWay /\ post'[q] = post[q]
      BY <1>0, <2>9, FailKeeps DEF UnderWay, Kept
    <3>3. PanelInv'
      BY <3>1, <3>2 DEF PanelInv
    <3> QED BY <1>1, <1>4, <3>1, <3>3
  <2>10. CASE UNCHANGED vars
    BY <2>10 DEF vars, panel, PanelInv, Single, UnderWay
  <2> QED BY <1>4, <2>1, <2>2, <2>3, <2>4, <2>5, <2>6, <2>7, <2>8, <2>9, <2>10 DEF Next, Answered
<1> QED BY <1>3, <1>4

-----------------------------------------------------------------------------
(* Whose faces, and whose badge. *)

LEMMA Grows ==
    ASSUME TypeInv, [Next]_vars
    PROVE  /\ hasty \subseteq hasty' /\ enrolled \subseteq enrolled'
           /\ \A s \in Sessions : made[s] # "unused" => owner'[s] = owner[s]
<1>1. CASE ClearQuery \/ SearchStaff \/ SearchAnswered \/ CameraStarts \/ Capture \/ Clear
  BY <1>1 DEF ClearQuery, SearchStaff, SearchAnswered, CameraStarts, Capture, Clear, Hurry
<1>2. CASE (\E e \in Staff : Select(e)) \/ Close \/ Leave
  BY <1>2 DEF Select, Close, Leave, Hurry
<1>3. ASSUME NEW s \in Sessions, Scan(s) \/ ScanSucceeds(s) \/ ScanFails(s)
      PROVE  /\ hasty' = hasty /\ enrolled' = enrolled
             /\ \A t \in Sessions : made[t] # "unused" => owner'[t] = owner[t]
  BY <1>3 DEF Scan, ScanSucceeds, ScanFails, TypeInv, TypeOK
<1>4. ASSUME NEW p \in Posts, Store(p) \/ PostSucceeds(p) \/ PostFails(p) \/ Submit(p)
      PROVE  hasty' = hasty /\ enrolled \subseteq enrolled' /\ owner' = owner
  BY <1>4 DEF Store, PostSucceeds, PostFails, Submit
<1>5. CASE UNCHANGED vars
  BY <1>5 DEF vars
<1> QED BY <1>1, <1>2, <1>3, <1>4, <1>5 DEF Next, Answered

LEMMA KeptPosts ==
    ASSUME TypeInv, [Next]_vars, \A p \in Posts : ~Submit(p), NEW q \in Pending'
    PROVE  /\ q \in Pending /\ post'[q].session = post[q].session
           /\ post'[q].faces = post[q].faces
           /\ q \in UnderWay' => q \in UnderWay
           /\ q \in UnderWay' /\ post'[q].mounted # "none" => post[q].mounted # "none"
           /\ owner'[post'[q].session] = owner[post[q].session]
<1>1. /\ q \in Pending /\ post'[q].session = post[q].session
      /\ post'[q].faces = post[q].faces
      /\ q \in UnderWay' => q \in UnderWay
      /\ q \in UnderWay' /\ post'[q].mounted # "none" => post[q].mounted # "none"
  BY AllKept DEF Kept, UnderWay, Lost, Pending, TypeInv
<1>2. post[q].session \in Sessions /\ made[post[q].session] # "unused"
  BY <1>1 DEF TypeInv, OwnersOK
<1> QED BY <1>1, <1>2, Grows

LEMMA StoredStep ==
    ASSUME TypeInv, StoredInv, [Next]_vars
    PROVE  StoredInv'
<1>1. SUFFICES ASSUME NEW q \in UnderWay', post'[q].state = "stored"
               PROVE  owner'[post'[q].session] \in enrolled'
  BY DEF StoredInv
<1>2. CASE q \in UnderWay /\ post[q].state = "stored" /\ \A p \in Posts : ~Submit(p)
  BY <1>2, KeptPosts, Grows DEF StoredInv, Pending
<1>3. ASSUME NEW p \in Posts, Submit(p)
      PROVE  owner'[post'[q].session] \in enrolled'
  <2>1. q # p /\ post'[q] = post[q] /\ q \in UnderWay
    BY <1>1, <1>3, Submitted DEF TypeInv, UnderWay
  <2>2. UNCHANGED <<owner, enrolled>>
    BY <1>3 DEF Submit
  <2> QED BY <1>1, <2>1, <2>2 DEF StoredInv
<1>4. ASSUME NEW p \in Posts, Store(p), \A r \in Posts : ~Submit(r)
      PROVE  owner'[post'[q].session] \in enrolled'
  <2>1. CASE q = p
    <3>1. /\ enrolled' = enrolled \cup {owner[post[p].session]}
          /\ owner'[post'[q].session] = owner[post[p].session]
      BY <1>4, <2>1, KeptPosts DEF Store, Pending
    <3> QED BY <3>1
  <2>2. CASE q # p
    <3>1. q \in UnderWay /\ post[q].state = "stored"
      BY <1>1, <1>4, <2>2, StoreKeeps, KeptPosts DEF TypeInv, UnderWay
    <3> QED BY <1>2, <1>4, <3>1
  <2> QED BY <2>1, <2>2
<1>5. CASE (\A p \in Posts : ~Store(p)) /\ \A p \in Posts : ~Submit(p)
  <2>1. q \in UnderWay
    BY <1>5, KeptPosts DEF Pending
  <2>2. post[q].state = "stored"
    <3>1. CASE post' = post
      BY <1>1, <3>1
    <3>2. CASE (\E e \in Staff : Select(e)) \/ Close \/ Leave
      BY <1>1, <3>2, UnmountKeeps, LeaveKeeps DEF Select, Close, NoSession, TypeInv, UnderWay
    <3>3. ASSUME NEW p \in Posts, PostSucceeds(p) \/ PostFails(p)
          PROVE  post[q].state = "stored"
      BY <1>1, <3>3, SucceedKeeps, FailKeeps DEF TypeInv, UnderWay
    <3>4. CASE \/ ClearQuery \/ SearchStaff \/ SearchAnswered \/ CameraStarts \/ Capture \/ Clear
               \/ (\E s \in Sessions : Scan(s) \/ ScanSucceeds(s) \/ ScanFails(s))
               \/ UNCHANGED vars
      BY <3>1, <3>4 DEF ClearQuery, SearchStaff, CameraStarts, Capture, Clear, SearchAnswered,
                        Scan, ScanSucceeds, ScanFails, vars
    <3> QED BY <1>5, <3>2, <3>3, <3>4 DEF Next, Answered
  <2> QED BY <1>2, <1>5, <2>1, <2>2
<1> QED BY <1>3, <1>4, <1>5

LEMMA PersonStep ==
    ASSUME TypeInv, PersonInv, [Next]_vars
    PROVE  PersonInv'
<1>1. SUFFICES ASSUME "select" \notin hasty'
               PROVE  OfSelected'
  BY DEF PersonInv
<1>2. /\ session # None => owner[session] = selected
      /\ \A s \in Creating : owner[s] = selected
      /\ \A i \in 1 .. Len(samples) : samples[i] = selected
      /\ \A p \in UnderWay : post[p].mounted # "none" => owner[post[p].session] = selected
  BY <1>1, Grows DEF PersonInv, OfSelected
<1>3. /\ session # None => session \in Sessions /\ made[session] # "unused"
      /\ session = None => samples = <<>>
      /\ \A s \in Sessions : made[s] # "unused" => owner'[s] = owner[s]
      /\ made \in [Sessions -> {"unused", "creating", "over"}]
  BY Grows DEF TypeInv, TypeOK, OwnersOK
<1>4. Creating \subseteq Sessions /\ \A s \in Creating : made[s] # "unused"
  BY DEF Creating
<1>5. ASSUME selected' = selected, \A p \in Posts : ~Submit(p),
             session' = None \/ session' = session, Creating' \subseteq Creating,
             \A i \in 1 .. Len(samples') : samples'[i] = selected
      PROVE  OfSelected'
  <2>1. session' # None => owner'[session'] = selected'
    BY <1>2, <1>3, <1>5
  <2>2. \A s \in Creating' : owner'[s] = selected'
    BY <1>2, <1>3, <1>4, <1>5
  <2>3. \A p \in UnderWay' : post'[p].mounted # "none" => owner'[post'[p].session] = selected'
    BY <1>2, <1>5, KeptPosts DEF Pending
  <2> QED BY <1>5, <2>1, <2>2, <2>3 DEF OfSelected
<1>6. \A i \in 1 .. Len(<<>>) : <<>>[i] = selected
  BY EmptySeq
<1>7. ASSUME NEW p \in Posts, Submit(p)
      PROVE  OfSelected'
  <2>1. UNCHANGED <<selected, session, samples, owner, made>> /\ session # None
    BY <1>7 DEF Submit, choice
  <2>2. /\ post'[p].session = session
        /\ \A q \in Posts \ {p} : post'[q] = post[q]
    BY <1>7, Submitted DEF TypeInv
  <2>3. \A q \in UnderWay' : post'[q].mounted # "none" => owner[post'[q].session] = selected
    BY <1>2, <2>1, <2>2 DEF UnderWay
  <2> QED BY <1>2, <2>1, <2>3 DEF Creating, OfSelected
<1>8. CASE \A p \in Posts : ~Submit(p)
  <2>1. ASSUME NEW e \in Staff, Select(e)
        PROVE  OfSelected'
    <3>1. selected' = e /\ session' = None /\ samples' = <<>> /\ UNCHANGED made
      BY <2>1 DEF Select, NoSession, NewPanel
    <3>2. CASE e = selected
      BY <1>5, <1>6, <1>8, <3>1, <3>2 DEF Creating
    <3>3. CASE e # selected
      <4>1. ~Awaited
        BY <1>1, <2>1, <3>3 DEF Select, Hurry
      <4>2. Creating' = {} /\ \A p \in UnderWay : post[p].mounted = "none"
        BY <3>1, <4>1 DEF Awaited, Creating
      <4>3. \A p \in UnderWay' : post'[p].mounted = "none"
        BY <1>8, <4>2, KeptPosts DEF Pending
      <4> QED BY <1>6, <3>1, <4>2, <4>3 DEF OfSelected
    <3> QED BY <3>2, <3>3
  <2>2. ASSUME NEW s \in Sessions, Scan(s)
        PROVE  OfSelected'
    <3>1. /\ UNCHANGED <<selected, session, samples, post>> /\ made[s] = "unused"
          /\ made' = [made EXCEPT ![s] = "creating"] /\ owner' = [owner EXCEPT ![s] = selected]
      BY <2>2 DEF Scan, choice, panel
    <3>2. \A t \in Creating' : t = s \/ t \in Creating
      BY <1>3, <3>1 DEF Creating
    <3>3. owner'[s] = selected
      BY <3>1 DEF TypeInv, TypeOK
    <3>4. \A t \in Creating' : owner'[t] = selected
      BY <1>2, <1>3, <1>4, <3>2, <3>3
    <3>5. session' # None => owner'[session'] = selected'
      BY <1>2, <1>3, <3>1
    <3>6. \A p \in UnderWay' : post'[p].mounted # "none" => owner'[post'[p].session] = selected'
      BY <1>2, <1>8, <3>1, KeptPosts DEF Pending
    <3> QED BY <1>2, <3>1, <3>4, <3>5, <3>6 DEF OfSelected
  <2>3. ASSUME NEW s \in Sessions, ScanSucceeds(s)
        PROVE  OfSelected'
    <3>1. /\ UNCHANGED <<selected, owner, post>> /\ session' = s /\ s \in Creating
          /\ made' = [made EXCEPT ![s] = "over"] /\ samples' \in {samples, <<>>}
      BY <2>3 DEF ScanSucceeds, choice, panel, Creating, NewPanel
    <3>2. Creating' \subseteq Creating
      BY <1>3, <3>1 DEF Creating
    <3>3. \A i \in 1 .. Len(samples') : samples'[i] = selected
      BY <1>2, <1>6, <3>1
    <3> QED BY <1>2, <3>1, <3>2, <3>3 DEF UnderWay, OfSelected
  <2>4. CASE Capture
    <3>1. /\ UNCHANGED <<selected, session, made>> /\ session # None
          /\ \/ samples' = samples
             \/ samples' = Append(IF Len(samples) < Target THEN samples ELSE Tail(samples),
                                  owner[session])
      BY <2>4 DEF Capture, choice
    <3>2. \A i \in 1 .. Len(samples') : samples'[i] = selected
      BY <1>2, <3>1, CapturedSamples
    <3> QED BY <1>5, <1>8, <3>1, <3>2 DEF Creating
  <2>5. CASE Leave
    <3>1. session' = None /\ samples' = <<>> /\ selected' = None
          /\ made' = [s \in Sessions |-> IF made[s] = "creating" THEN "over" ELSE made[s]]
      BY <2>5 DEF Leave, NewPanel
    <3>2. Creating' = {}
      BY <3>1 DEF Creating
    <3>3. \A p \in UnderWay' : post'[p].mounted = "none"
      BY <2>5, LeaveKeeps DEF UnderWay, TypeInv
    <3> QED BY <1>6, <3>1, <3>2, <3>3 DEF OfSelected
  <2>6. CASE \/ ClearQuery \/ SearchStaff \/ SearchAnswered \/ CameraStarts \/ Clear \/ Close
             \/ UNCHANGED vars
    <3>1. /\ UNCHANGED <<selected, made>> /\ session' \in {session, None}
          /\ samples' \in {samples, <<>>}
      BY <2>6 DEF ClearQuery, SearchStaff, SearchAnswered, CameraStarts, Clear, Close, vars,
                  choice, panel, NoSession, NewPanel
    <3>2. \A i \in 1 .. Len(samples') : samples'[i] = selected
      BY <1>2, <1>6, <3>1
    <3> QED BY <1>5, <1>8, <3>1, <3>2 DEF Creating
  <2>7. ASSUME NEW s \in Sessions, ScanFails(s)
        PROVE  OfSelected'
    <3>1. UNCHANGED <<selected, session, samples>> /\ made' = [made EXCEPT ![s] = "over"]
      BY <2>7 DEF ScanFails, choice, panel
    <3>2. Creating' \subseteq Creating
      BY <1>3, <3>1 DEF Creating
    <3> QED BY <1>2, <1>5, <1>8, <3>1, <3>2
  <2>8. ASSUME NEW p \in Posts, Store(p) \/ PostSucceeds(p) \/ PostFails(p)
        PROVE  OfSelected'
    <3>1. /\ UNCHANGED <<selected, made>> /\ session' \in {session, None}
          /\ samples' \in {samples, <<>>}
      BY <2>8 DEF Store, PostSucceeds, PostFails, choice, panel, NewPanel
    <3>2. \A i \in 1 .. Len(samples') : samples'[i] = selected
      BY <1>2, <1>6, <3>1
    <3> QED BY <1>5, <1>8, <3>1, <3>2 DEF Creating
  <2> QED BY <1>8, <2>1, <2>2, <2>3, <2>4, <2>5, <2>6, <2>7, <2>8 DEF Next, Answered
<1> QED BY <1>7, <1>8

LEMMA FacesStep ==
    ASSUME TypeInv, PersonInv, FaceIsOfSession, [Next]_vars
    PROVE  FaceIsOfSession'
<1>1. SUFFICES ASSUME NEW q \in Pending', "select" \notin hasty'
               PROVE  post'[q].faces = {owner'[post'[q].session]}
  BY DEF FaceIsOfSession
<1>2. /\ \A p \in Pending : post[p].faces = {owner[post[p].session]}
      /\ OfSelected
  BY <1>1, Grows DEF FaceIsOfSession, PersonInv
<1>3. CASE \A p \in Posts : ~Submit(p)
  BY <1>2, <1>3, KeptPosts
<1>4. ASSUME NEW p \in Posts, Submit(p)
      PROVE  post'[q].faces = {owner'[post'[q].session]}
  <2>1. /\ owner' = owner /\ Len(samples) >= Min /\ session # None
        /\ post'[p].session = session /\ post'[p].faces = Faces
        /\ \A r \in Posts \ {p} : post'[r] = post[r]
    <3>1. owner' = owner /\ Len(samples) >= Min
      BY <1>4 DEF Submit
    <3>2. /\ session # None /\ post'[p] = [state |-> "sent", session |-> session,
                                           faces |-> Faces, mounted |-> "panel"]
          /\ \A r \in Posts \ {p} : post'[r] = post[r]
      BY <1>4, Submitted DEF TypeInv
    <3> QED BY <3>1, <3>2
  <2>2. Len(samples) \in Nat /\ 1 \in 1 .. Len(samples)
    <3>1. Len(samples) \in Nat
      BY LenProperties DEF TypeInv, TypeOK
    <3> QED BY <2>1, <3>1, Constants
  <2>3. Faces = {owner[session]}
    BY <1>2, <2>1, <2>2 DEF Faces, OfSelected
  <2>4. CASE q = p
    BY <2>1, <2>3, <2>4
  <2>5. CASE q # p
    BY <1>2, <2>1, <2>5 DEF UnderWay, Lost, Pending
  <2> QED BY <2>4, <2>5
<1> QED BY <1>3, <1>4

LEMMA BadgeStep ==
    ASSUME TypeInv, StoredInv, PersonInv, BadgeIsTrue, [Next]_vars
    PROVE  BadgeIsTrue'
<1>1. SUFFICES ASSUME badge', "select" \notin hasty'
               PROVE  selected' \in enrolled'
  BY DEF BadgeIsTrue
<1>2. (badge => selected \in enrolled) /\ OfSelected /\ enrolled \subseteq enrolled'
  BY <1>1, Grows DEF BadgeIsTrue, PersonInv
<1>3. CASE badge' = badge /\ selected' = selected
  BY <1>1, <1>2, <1>3
<1>4. ASSUME NEW e \in Staff, Select(e)
      PROVE  selected' \in enrolled'
  BY <1>1, <1>4 DEF Select
<1>5. CASE Leave
  BY <1>1, <1>5 DEF Leave
<1>6. ASSUME NEW p \in Posts, PostSucceeds(p)
      PROVE  selected' \in enrolled'
  <2>1. selected' = selected /\ post[p].state = "stored"
    BY <1>6 DEF PostSucceeds
  <2>2. CASE post[p].mounted = "none"
    BY <1>3, <1>6, <2>1, <2>2 DEF PostSucceeds
  <2>3. CASE post[p].mounted # "none"
    BY <1>2, <2>1, <2>3 DEF UnderWay, StoredInv, OfSelected
  <2> QED BY <2>2, <2>3
<1>7. CASE \/ ClearQuery \/ SearchStaff \/ SearchAnswered \/ CameraStarts \/ Capture \/ Clear
           \/ Close \/ UNCHANGED vars
  BY <1>3, <1>7 DEF ClearQuery, SearchStaff, SearchAnswered, CameraStarts, Capture, Clear, Close,
                    vars, choice
<1>8. ASSUME NEW s \in Sessions, Scan(s) \/ ScanSucceeds(s) \/ ScanFails(s)
      PROVE  selected' \in enrolled'
  BY <1>3, <1>8 DEF Scan, ScanSucceeds, ScanFails, choice
<1>9. ASSUME NEW p \in Posts, Store(p) \/ PostFails(p) \/ Submit(p)
      PROVE  selected' \in enrolled'
  BY <1>3, <1>9 DEF Store, PostFails, Submit, choice
<1> QED BY <1>4, <1>5, <1>6, <1>7, <1>8, <1>9 DEF Next, Answered

-----------------------------------------------------------------------------
Inv == /\ TypeInv /\ PanelInv /\ Single /\ StoredInv /\ PersonInv
       /\ FaceIsOfSession /\ BadgeIsTrue

LEMMA InitInv == Init => Inv
<1> SUFFICES ASSUME Init PROVE Inv
  OBVIOUS
<1>1. UnderWay = {} /\ Pending = {} /\ Creating = {}
  BY DEF Init, UnderWay, Lost, Pending, Creating, Fresh
<1>2. TypeOK
  <2>1. samples \in Seq(Staff) /\ Len(samples) = 0
    BY EmptySeq DEF Init
  <2>2. Len(samples) <= Target /\ searching \in 0 .. MaxSearches
    BY <2>1, Constants DEF Init
  <2>3. post \in [Posts -> PostType]
    BY FreshIsTyped DEF Init
  <2> QED BY <2>1, <2>2, <2>3 DEF Init, TypeOK, PostType
<1>3. OwnersOK
  BY <1>1 DEF Init, OwnersOK
<1>4. PersonInv
  <2>1. \A i \in 1 .. Len(<<>>) : <<>>[i] = selected
    BY EmptySeq
  <2> QED BY <1>1, <2>1 DEF Init, PersonInv, OfSelected
<1>5. PanelInv /\ Single /\ StoredInv /\ FaceIsOfSession /\ BadgeIsTrue
  BY <1>1 DEF Init, PanelInv, Single, StoredInv, FaceIsOfSession, BadgeIsTrue
<1> QED BY <1>2, <1>3, <1>4, <1>5 DEF Inv, TypeInv

LEMMA InvStep == Inv /\ [Next]_vars => Inv'
BY TypeInvStep, PanelStep, StoredStep, PersonStep, FacesStep, BadgeStep DEF Inv

LEMMA Invariance == Spec => []Inv
BY InitInv, InvStep, PTL DEF Spec

(* The page and its panel keep their types, the samples their bound
   (EnrollmentCapture.jsx, captureSample). *)
THEOREM TypeCorrect == Spec => []TypeOK
<1>1. Inv => TypeOK
  BY DEF Inv, TypeInv
<1> QED BY <1>1, Invariance, PTL

(* The faces sent with a session are its owner's, unless somebody else was
   selected while a request was under way (FaceEnrollmentPage.jsx, selectStaff
   and startEnrollment). *)
THEOREM FacesAreOfOwner == Spec => []FaceIsOfSession
<1>1. Inv => FaceIsOfSession
  BY DEF Inv
<1> QED BY <1>1, Invariance, PTL

(* Whoever is shown as enrolled is, under the same condition
   (FaceEnrollmentPage.jsx, completeEnrollment). *)
THEOREM BadgeHolds == Spec => []BadgeIsTrue
<1>1. Inv => BadgeIsTrue
  BY DEF Inv
<1> QED BY <1>1, Invariance, PTL

(* A session is submitted again only after the page has seen the former submission
   fail: where the backend has two of them, a sample was captured during a
   submission, or one of the two is a submission whose answer was lost
   (EnrollmentCapture.jsx, submitEnrollment). *)
THEOREM SubmittedOnce == Spec => []OneSubmission
<1>1. Inv => OneSubmission
  BY SingleIsOne DEF Inv
<1> QED BY <1>1, Invariance, PTL

-----------------------------------------------------------------------------
(* The safety half of ButtonsComeBack. *)

LEMMA CreatingStep ==
    ASSUME TypeInv, [Next]_vars, status = "creating-session" => Creating # {},
           status' = "creating-session"
    PROVE  Creating' # {}
<1>1. CASE \/ ClearQuery \/ SearchStaff \/ SearchAnswered \/ Leave
           \/ \E s \in Sessions : ScanSucceeds(s) \/ ScanFails(s)
  BY <1>1 DEF ClearQuery, SearchStaff, SearchAnswered, Leave, ScanSucceeds, ScanFails
<1>2. ASSUME NEW s \in Sessions, Scan(s) PROVE s \in Creating'
  BY <1>2 DEF Scan, Creating, TypeInv, TypeOK
<1>3. CASE UNCHANGED <<status, made>>
  BY <1>3 DEF Creating
<1>4. CASE (\E e \in Staff : Select(e)) \/ Close \/ CameraStarts \/ Capture \/ Clear \/ UNCHANGED vars
  BY <1>3, <1>4 DEF Select, Close, CameraStarts, Capture, Clear, vars
<1>5. ASSUME NEW p \in Posts, Submit(p) \/ Store(p) \/ PostSucceeds(p) \/ PostFails(p)
      PROVE  Creating' # {}
  <2>1. made' = made /\ status' \in {status, "other"}
    BY <1>5 DEF Submit, Store, PostSucceeds, PostFails
  <2> QED BY <1>3, <2>1
<1> QED BY <1>1, <1>2, <1>4, <1>5 DEF Next, Answered

LEMMA SubmittingStep ==
    ASSUME TypeInv, [Next]_vars,
           submit = "submitting" => \E p \in UnderWay : post[p].mounted = "panel",
           submit' = "submitting"
    PROVE  \E p \in UnderWay' : post'[p].mounted = "panel"
<1>1. CASE UNCHANGED <<submit, post>>
  BY <1>1 DEF UnderWay
<1>2. CASE \/ ClearQuery \/ SearchStaff \/ SearchAnswered \/ CameraStarts \/ Clear
           \/ (\E s \in Sessions : Scan(s) \/ ScanFails(s)) \/ UNCHANGED vars
  BY <1>1, <1>2 DEF ClearQuery, SearchStaff, SearchAnswered, CameraStarts, Clear, Scan,
                    ScanFails, panel, vars
<1>3. ASSUME NEW s \in Sessions, ScanSucceeds(s)
      PROVE  \E p \in UnderWay' : post'[p].mounted = "panel"
  <2>1. submit' # "ready"
    OBVIOUS
  <2> QED BY <1>1, <1>3, <2>1 DEF ScanSucceeds, NewPanel, panel
<1>4. CASE (\E e \in Staff : Select(e)) \/ Close \/ Leave \/ Capture
  BY <1>4 DEF Select, Close, Leave, Capture, NoSession, NewPanel
<1>5. ASSUME NEW p \in Posts, Submit(p)
      PROVE  p \in UnderWay' /\ post'[p].mounted = "panel"
  BY <1>5, Submitted DEF TypeInv, UnderWay
<1>6. ASSUME NEW p \in Posts, Store(p)
      PROVE  \E q \in UnderWay' : post'[q].mounted = "panel"
  <2>1. PICK q \in UnderWay : post[q].mounted = "panel"
    BY <1>6 DEF Store, panel
  <2>2. q \in Posts /\ post[q].state \in {"sent", "stored"}
    BY <2>1 DEF UnderWay
  <2>3. q \in UnderWay' /\ post'[q].mounted = "panel"
    BY <1>6, <2>1, <2>2, StoreKeeps DEF TypeInv
  <2> QED BY <2>2, <2>3 DEF UnderWay
<1>7. ASSUME NEW p \in Posts, PostSucceeds(p)
      PROVE  \E q \in UnderWay' : post'[q].mounted = "panel"
  <2>1. post[p].mounted = "none" /\ submit' = submit
    BY <1>7 DEF PostSucceeds, NewPanel, panel
  <2>2. PICK q \in UnderWay : post[q].mounted = "panel"
    BY <2>1
  <2>3. q \in Posts /\ post'[q] = post[q]
    BY <1>7, <2>1, <2>2, SucceedKeeps DEF UnderWay, TypeInv
  <2> QED BY <2>2, <2>3 DEF UnderWay
<1>8. ASSUME NEW p \in Posts, PostFails(p)
      PROVE  \E q \in UnderWay' : post'[q].mounted = "panel"
  <2>1. post[p].mounted # "panel" /\ submit' = submit
    BY <1>8 DEF PostFails
  <2>2. PICK q \in UnderWay : post[q].mounted = "panel"
    BY <2>1
  <2>3. q \in Posts /\ post'[q] = post[q]
    BY <1>8, <2>1, <2>2, FailKeeps DEF UnderWay, TypeInv
  <2> QED BY <2>2, <2>3 DEF UnderWay
<1> QED BY <1>2, <1>3, <1>4, <1>5, <1>6, <1>7, <1>8 DEF Next, Answered

(* A disabled button is waiting for an answer: the one for the session, or that
   of a submission made in the panel that is shown, with any number of searches,
   sessions and submissions answered in any order. *)
THEOREM DisabledButtonsAreAwaited == Spec => []ButtonsAwaited
<1>1. Init => ButtonsAwaited
  BY DEF Init, ButtonsAwaited
<1>2. Inv /\ ButtonsAwaited /\ [Next]_vars => ButtonsAwaited'
  BY CreatingStep, SubmittingStep DEF Inv, ButtonsAwaited
<1> QED BY <1>1, <1>2, Invariance, PTL DEF Spec
=============================================================================
