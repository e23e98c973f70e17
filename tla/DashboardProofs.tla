--------------------------- MODULE DashboardProofs ---------------------------
(***************************************************************************)
(* Theorems about the dashboard, for any number of requests under way and  *)
(* any number of acts of the user: it keeps its types, what it shows once  *)
(* it is quiet is current, and a page that loads has a handler under way   *)
(* that will say otherwise.                                                *)
(***************************************************************************)
EXTENDS Dashboard, TLAPS

(* What an answer says is no newer than the server, and a session it opens is
   one nobody has been in: neither this page, its last effect, nor another
   answer under way. *)
AnswersOK ==
    /\ \A s \in Slots : flight[s].op \in {"list", "change", "enroll"} => flight[s].at <= data
    /\ \A s \in Slots : flight[s].op \in {"list", "change", "enroll"} => flight[s].of \in Lists
    /\ \A s \in Slots : flight[s].op = "list" /\ flight[s].then = "employees"
                            => flight[s].of = "departments"
    /\ \A s \in Slots : flight[s].op = "enroll" => ~flight[s].edit
Opens(s) == flight[s].op = "login" /\ flight[s].answer = "ok"
SessionsOK ==
    /\ \A s \in Slots : Opens(s) =>
          flight[s].at \in 1..sessions /\ flight[s].at # token /\ flight[s].at # seen.token
    /\ \A s, t \in Slots : Opens(s) /\ Opens(t) /\ s # t => flight[s].at # flight[t].at
TypeInv == TypeOK /\ AnswersOK /\ SessionsOK

(* The employees are asked for when the departments are there. *)
Due(k) ==
    k = "employees" /\ \E t \in Slots : flight[t].op = "list" /\ flight[t].then = "employees"
ListOf(s, k) == flight[s].op = "list" /\ flight[s].of = k

(* A list that is not in doubt is asked for once at a time, for the filter of
   the page, and neither the answer nor what is shown misses a change the user
   was told of unless it is going to be asked for again. *)
ListInv(k) ==
    ~EffectDue /\ token # 0 /\ k \notin doubt =>
        /\ \A s, t \in Slots : ListOf(s, k) /\ ListOf(t, k) => s = t
        /\ \A s \in Slots : ListOf(s, k) =>
              /\ k = "employees" => flight[s].all = includeInactive
              /\ flight[s].answer = "ok" => flight[s].at >= acked[k] \/ Due(k)
        /\ (\A s \in Slots : ~ListOf(s, k)) =>
              /\ k = "employees" => shown[k].all = includeInactive
              /\ shown[k].at >= acked[k] \/ Due(k)

(* Something under way will set the status again. *)
Restful(s) ==
    \/ flight[s].op \in {"login", "change"}
    \/ ListOf(s, "employees")
    \/ flight[s].op = "list" /\ flight[s].then # "nothing"
LoadingInv == status = "loading" => \E s \in Slots : Restful(s)

-----------------------------------------------------------------------------
(* Types. *)

LEMMA SlotHoldsRequest ==
    ASSUME TypeOK, NEW s \in Slots, flight[s].op # "free"
    PROVE  flight[s] \in Requests
BY DEF TypeOK, Free

LEMMA RenderIsTyped ==
    ASSUME TypeOK
    PROVE  /\ Rendered \in [token : 0..sessions, all : BOOLEAN, mounted : BOOLEAN]
           /\ Unmounted \in [token : 0..sessions, all : BOOLEAN, mounted : BOOLEAN]
           /\ Blank \in [Lists -> [all : BOOLEAN, at : 0..data]]
<1>1. 0 \in 0..sessions /\ 0 \in 0..data
  BY DEF TypeOK
<1> QED BY <1>1 DEF TypeOK, Rendered, Unmounted, Blank

Ops == {"login", "list", "change", "enroll", "panel"}
Thens == {"nothing", "note", "employees"}
Renders == [token : Nat, all : BOOLEAN, mounted : BOOLEAN]

LEMMA AskIsTyped ==
    \A op \in Ops, of \in Lists \cup {"none"}, edit \in BOOLEAN, then \in Thens,
       r \in Renders \cup Requests :
          Ask(op, of, edit, then, r) \in Requests
BY DEF Ask, Renders, Requests, Ops, Thens

LEMMA RenderedIsRender == TypeOK => Rendered \in Renders
BY DEF Rendered, Renders, TypeOK

LEMMA StartIsTyped ==
    ASSUME TypeOK, NEW op \in Ops, NEW of \in Lists \cup {"none"}, NEW edit \in BOOLEAN,
           Start(op, of, edit)
    PROVE  flight' \in [Slots -> Requests \cup {Free}]
<1>1. Ask(op, of, edit, "nothing", Rendered) \in Requests
  BY AskIsTyped, RenderedIsRender DEF Thens
<1> QED BY <1>1 DEF Start, TypeOK

LEMMA SignOutIsTyped ==
    ASSUME TypeOK, SignOut, UNCHANGED <<sessions, data>>
    PROVE  /\ token' \in 0..sessions' /\ includeInactive' \in BOOLEAN
           /\ shown' \in [Lists -> [all : BOOLEAN, at : 0..data']]
           /\ section' \in Sections /\ editing' \subseteq Lists
           /\ section' = "directory" /\ editing' = {}
<1>1. token' = 0 /\ 0 \in 0..sessions'
  BY DEF SignOut, TypeOK
<1> QED BY <1>1, RenderIsTyped DEF SignOut, Sections, TypeOK

LEMMA UserIsTyped ==
    ASSUME TypeOK, UserActs
    PROVE  TypeOK'
<1>1. CASE handleLogin
  <2>1. flight' \in [Slots -> Requests \cup {Free}]
    BY <1>1, StartIsTyped DEF handleLogin, Ops
  <2> QED BY <1>1, <2>1 DEF handleLogin, User, Quietly, Act, server, TypeOK
<1>2. CASE handleLogout
  BY <1>2, SignOutIsTyped DEF handleLogout, Admin, User, Quietly, Act, server, TypeOK
<1>3. CASE ToggleInactive
  BY <1>3 DEF ToggleInactive, Admin, User, Quietly, Act, server, TypeOK
<1>4. CASE Enroll
  <2>1. flight' \in [Slots -> Requests \cup {Free}]
    BY <1>4, StartIsTyped DEF Enroll, Ops, Lists
  <2> QED BY <1>4, <2>1 DEF Enroll, Admin, User, Quietly, Act, server, TypeOK
<1>5. CASE Reload
  <2>1. flight' \in [Slots -> Requests \cup {Free}]
    BY <1>5 DEF Reload
  <2>2. UNCHANGED <<token, data, sessions, expired, acked, doubt>> /\ acts' \in Nat
    BY <1>5 DEF Reload, Act, server, TypeOK
  <2>3. /\ seen' \in [token : 0..sessions, all : BOOLEAN, mounted : BOOLEAN]
        /\ shown' \in [Lists -> [all : BOOLEAN, at : 0..data]]
    BY <1>5, RenderIsTyped DEF Reload
  <2>4. includeInactive' = FALSE /\ status' = "ready" /\ section' = "directory" /\ editing' = {}
    BY <1>5 DEF Reload
  <2> QED BY <2>1, <2>2, <2>3, <2>4 DEF Sections, TypeOK
<1>6. ASSUME NEW k \in Lists, StartEdit(k) \/ CancelEdit(k)
      PROVE  TypeOK'
  BY <1>6 DEF StartEdit, CancelEdit, Quietly, server, TypeOK
<1>7. ASSUME NEW k \in Lists, NEW edit \in BOOLEAN, Submit(k, edit)
      PROVE  TypeOK'
  <2>1. flight' \in [Slots -> Requests \cup {Free}]
    BY <1>7, StartIsTyped DEF Submit, Ops
  <2> QED BY <1>7, <2>1 DEF Submit, Admin, User, Quietly, Act, server, TypeOK
<1>8. ASSUME NEW to \in Sections, Open(to)
      PROVE  TypeOK'
  <2>1. flight' \in [Slots -> Requests \cup {Free}]
    BY <1>8, StartIsTyped DEF Open, Ops, TypeOK
  <2> QED BY <1>8, <2>1 DEF Open, Admin, User, Quietly, Act, server, TypeOK
<1> QED BY <1>1, <1>2, <1>3, <1>4, <1>5, <1>6, <1>7, <1>8 DEF UserActs

LEMMA GoOnIsTyped ==
    ASSUME TypeOK, NEW s \in Slots, flight[s].op = "list", flight[s].of \in Lists,
           NEW inVain \in SUBSET Lists, GoOn(s, inVain)
    PROVE  flight' \in [Slots -> Requests \cup {Free}] /\ doubt' \subseteq Lists
<1>1. flight[s] \in Requests
  BY SlotHoldsRequest
<1>2. Ask("list", "employees", FALSE, "note", flight[s]) \in Requests
  BY <1>1, AskIsTyped DEF Ops, Thens, Lists
<1>3. Asked("employees", flight[s].all, s) \subseteq Lists
  BY DEF Asked, Lists, TypeOK
<1> QED BY <1>1, <1>2, <1>3 DEF GoOn, Done, TypeOK

LEMMA StatusIsTyped ==
    \A r, base : base \in {"ready", "loading", "loaded", "error"}
        => Status(r, base) \in {"ready", "loading", "loaded", "error"}
BY DEF Status

LEMMA ResumeIsTyped ==
    ASSUME TypeInv, NEW s \in Slots, Resume(s)
    PROVE  TypeOK'
<1> USE DEF TypeInv
<1>0. ASSUME NEW op, NEW answer, Answer(s, op, answer)
      PROVE  flight[s].op = op /\ flight[s].answer = answer /\ UNCHANGED <<seen, server, acts>>
  BY <1>0 DEF Answer
<1>1. CASE LoggedIn(s)
  <2>1. flight[s].at \in 1..sessions
    BY <1>1 DEF LoggedIn, Answer, SessionsOK, Opens
  <2> QED BY <1>1, <2>1 DEF LoggedIn, Answer, server, Done, TypeOK
<1>2. CASE LoginFails(s) \/ ChangeFails(s) \/ SectionAnswered(s)
  BY <1>2 DEF LoginFails, ChangeFails, SectionAnswered, Answer, server, Done, Stay, TypeOK
<1>3. CASE Denied(s)
  <2>1. UNCHANGED <<seen, server, acts>>
    BY <1>3 DEF Denied, Answer
  <2> QED BY <1>3, <2>1, SignOutIsTyped DEF Denied, server, Done, TypeOK
<1>4. CASE ListLoaded(s)
  <2>1. flight[s].op = "list" /\ flight[s].of \in Lists /\ flight[s].at <= data
    BY <1>4 DEF ListLoaded, Answer, AnswersOK
  <2>2. flight[s].all \in BOOLEAN /\ flight[s].at \in 0..data
    BY <2>1, SlotHoldsRequest DEF Requests, TypeOK
  <2>3. shown' \in [Lists -> [all : BOOLEAN, at : 0..data]]
    BY <1>4, <2>1, <2>2 DEF ListLoaded, TypeOK
  <2>4. flight' \in [Slots -> Requests \cup {Free}] /\ doubt' \subseteq Lists
    BY <1>4, <2>1, GoOnIsTyped DEF ListLoaded
  <2>5. status' \in {"ready", "loading", "loaded", "error"}
    BY <1>4, StatusIsTyped DEF ListLoaded, TypeOK
  <2> QED BY <1>4, <2>3, <2>4, <2>5 DEF ListLoaded, Answer, server, TypeOK
<1>5. CASE ListFails(s) \/ ListDenied(s)
  <2>1. flight[s].op = "list" /\ flight[s].of \in Lists
    BY <1>5 DEF ListFails, ListDenied, Answer, AnswersOK
  <2>2. flight' \in [Slots -> Requests \cup {Free}] /\ doubt' \subseteq Lists
    BY <1>5, <2>1, GoOnIsTyped DEF ListFails, ListDenied
  <2>3. status' \in {"ready", "loading", "loaded", "error"}
    BY <1>5, StatusIsTyped DEF ListFails, ListDenied
  <2>4. CASE ListFails(s)
    BY <2>2, <2>3, <2>4 DEF ListFails, Answer, server, Stay, TypeOK
  <2>5. CASE ListDenied(s)
    BY <2>2, <2>3, <2>5, SignOutIsTyped DEF ListDenied, Answer, server, TypeOK
  <2> QED BY <1>5, <2>4, <2>5
<1>6. CASE Changed(s)
  <2>1. /\ flight[s].op \in {"change", "enroll"} /\ flight[s].of \in Lists
        /\ flight[s] \in Requests /\ flight[s].at \in 0..data
    BY <1>6, SlotHoldsRequest DEF Changed, AnswersOK, Requests, TypeOK
  <2>2. Ask("list", flight[s].of, FALSE, Then(flight[s]), flight[s]) \in Requests
    BY <2>1, AskIsTyped DEF Then, Ops, Thens
  <2>3. acked' \in [Lists -> 0..data]
    BY <1>6, <2>1 DEF Changed, Told, TypeOK
  <2>4. doubt' \subseteq Lists
    BY <1>6, <2>1 DEF Changed, Asked, TypeOK
  <2> QED BY <1>6, <2>2, <2>3, <2>4 DEF Changed, Answer, server, TypeOK
<1> QED BY <1>1, <1>2, <1>3, <1>4, <1>5, <1>6 DEF Resume

LEMMA TypeStep ==
    ASSUME TypeInv, [Next]_vars
    PROVE  TypeOK'
<1>1. CASE Effect
  <2>1. CASE token = 0
    BY <1>1, <2>1, RenderIsTyped DEF Effect, server, TypeInv, TypeOK
  <2>2. CASE token # 0
    <3>1. /\ Ask("list", "employees", FALSE, "nothing", Rendered) \in Requests
          /\ Ask("list", "departments", FALSE, "nothing", Rendered) \in Requests
      BY AskIsTyped, RenderedIsRender DEF TypeInv, Ops, Thens, Lists
    <3>2. flight' \in [Slots -> Requests \cup {Free}]
      BY <1>1, <2>2, <3>1 DEF Effect, TypeInv, TypeOK
    <3> QED BY <1>1, <2>2, <3>2, RenderIsTyped DEF Effect, server, TypeInv, TypeOK
  <2> QED BY <2>1, <2>2
<1>2. CASE UserActs
  BY <1>2, UserIsTyped DEF TypeInv
<1>3. CASE Expire
  BY <1>3 DEF Expire, Act, TypeInv, TypeOK
<1>4. ASSUME NEW s \in Slots, Serve(s)
      PROVE  TypeOK'
  <2>1. flight[s] \in Requests
    BY <1>4 DEF Serve, TypeInv, TypeOK
  <2>2. ASSUME NEW answer \in {"ok", "failed", "denied"}, NEW at \in Nat, Answered(s, answer, at)
        PROVE  flight' \in [Slots -> Requests \cup {Free}]
    BY <2>1, <2>2 DEF Answered, Requests, TypeInv, TypeOK
  <2>3. /\ data \in Nat /\ sessions \in Nat /\ data + 1 \in Nat /\ sessions + 1 \in Nat
    BY DEF TypeInv, TypeOK
  <2>4. flight' \in [Slots -> Requests \cup {Free}]
    BY <1>4, <2>2, <2>3 DEF Serve
  <2>5. data' \in Nat /\ sessions' \in Nat /\ data <= data' /\ sessions <= sessions'
    BY <1>4, <2>3 DEF Serve
  <2>6. /\ token' \in 0..sessions' /\ expired' \subseteq 1..sessions'
        /\ seen' \in [token : 0..sessions', all : BOOLEAN, mounted : BOOLEAN]
        /\ shown' \in [Lists -> [all : BOOLEAN, at : 0..data']] /\ acked' \in [Lists -> 0..data']
    <3>1. 0..sessions \subseteq 0..sessions' /\ 1..sessions \subseteq 1..sessions'
          /\ 0..data \subseteq 0..data'
      BY <2>3, <2>5
    <3> QED BY <1>4, <3>1 DEF Serve, TypeInv, TypeOK
  <2> QED BY <1>4, <2>4, <2>5, <2>6 DEF Serve, TypeInv, TypeOK
<1>5. ASSUME NEW s \in Slots, Resume(s)
      PROVE  TypeOK'
  BY <1>5, ResumeIsTyped
<1>6. CASE UNCHANGED vars
  BY <1>6 DEF vars, TypeInv, TypeOK
<1> QED BY <1>1, <1>2, <1>3, <1>4, <1>5, <1>6 DEF Next

-----------------------------------------------------------------------------
(* What answers say. *)

LEMMA AskedFields ==
    \A op, of, edit, then, r :
       LET a == Ask(op, of, edit, then, r) IN
       /\ a.op = op /\ a.of = of /\ a.edit = edit /\ a.then = then
       /\ a.at = 0 /\ a.answer = "none" /\ a.all = r.all
BY DEF Ask

(* How a step changes the slots. *)
LEMMA StartedSlot ==
    ASSUME TypeOK, NEW op, NEW of, NEW edit, Start(op, of, edit)
    PROVE  \E s \in Slots : /\ flight[s] = Free
                            /\ flight'[s] = Ask(op, of, edit, "nothing", Rendered)
                            /\ \A t \in Slots \ {s} : flight'[t] = flight[t]
BY DEF Start, Vacant, TypeOK

LEMMA EffectSlots ==
    ASSUME TypeOK, Effect, token # 0
    PROVE  \E s, t \in Slots :
              /\ s # t /\ flight[s] = Free /\ flight[t] = Free
              /\ flight'[s] = Ask("list", "employees", FALSE, "nothing", Rendered)
              /\ flight'[t] = Ask("list", "departments", FALSE, "nothing", Rendered)
              /\ \A u \in Slots \ {s, t} : flight'[u] = flight[u]
<1>1. PICK s \in Slots, t \in Slots :
         /\ flight[s] = Free /\ flight[t] = Free /\ s < t
         /\ flight' = [flight EXCEPT
               ![s] = Ask("list", "employees", FALSE, "nothing", Rendered),
               ![t] = Ask("list", "departments", FALSE, "nothing", Rendered)]
  BY DEF Effect, Vacant
<1>2. s # t
  BY <1>1 DEF Slots
<1> QED BY <1>1, <1>2 DEF TypeOK

(* What a user starts: at most one request, with nothing answered yet. *)
LEMMA UserSlots ==
    ASSUME TypeOK, UserActs
    PROVE  \A s \in Slots :
              \/ flight'[s] = flight[s]
              \/ flight'[s] = Free
              \/ /\ flight[s] = Free /\ flight'[s].answer = "none" /\ flight'[s].at = 0
                 /\ flight'[s].op \in {"login", "change", "enroll", "panel"}
                 /\ flight'[s].op \in {"change", "enroll"} => flight'[s].of \in Lists
                 /\ flight'[s].op = "enroll" => ~flight'[s].edit
<1>1. ASSUME NEW op \in {"login", "change", "enroll", "panel"}, NEW of, NEW edit,
             Start(op, of, edit), op \in {"change", "enroll"} => of \in Lists,
             op = "enroll" => ~edit, NEW s \in Slots
      PROVE  \/ flight'[s] = flight[s]
             \/ /\ flight[s] = Free /\ flight'[s].answer = "none" /\ flight'[s].at = 0
                /\ flight'[s].op \in {"login", "change", "enroll", "panel"}
                /\ flight'[s].op \in {"change", "enroll"} => flight'[s].of \in Lists
                /\ flight'[s].op = "enroll" => ~flight'[s].edit
  BY <1>1, StartedSlot, AskedFields
<1>2. CASE handleLogin \/ Enroll \/ (\E k \in Lists, edit \in BOOLEAN : Submit(k, edit))
  BY <1>1, <1>2 DEF handleLogin, Enroll, Submit, Lists
<1>3. ASSUME NEW to \in Sections, Open(to)
      PROVE  flight' = flight \/ Start("panel", "none", FALSE)
  BY <1>3 DEF Open
<1>4. CASE \E to \in Sections : Open(to)
  BY <1>1, <1>3, <1>4
<1>5. CASE handleLogout \/ ToggleInactive \/ \E k \in Lists : StartEdit(k) \/ CancelEdit(k)
  BY <1>5 DEF handleLogout, ToggleInactive, StartEdit, CancelEdit
<1>6. CASE Reload
  BY <1>6 DEF Reload
<1> QED BY <1>2, <1>4, <1>5, <1>6 DEF UserActs

(* What the rest of a handler leaves in its slot: nothing, or the list it
   awaits next. *)
LEMMA ResumeSlots ==
    ASSUME TypeInv, NEW s \in Slots, Resume(s)
    PROVE  /\ \A t \in Slots \ {s} : flight'[t] = flight[t]
           /\ \/ flight'[s] = Free
              \/ /\ flight'[s].op = "list" /\ flight'[s].of \in Lists /\ flight'[s].answer = "none"
                 /\ flight'[s].at = 0 /\ flight'[s].all = flight[s].all
                 /\ flight'[s].then = "employees" => flight'[s].of = "departments"
<1>1. CASE LoggedIn(s) \/ LoginFails(s) \/ ChangeFails(s) \/ SectionAnswered(s) \/ Denied(s)
  BY <1>1 DEF LoggedIn, LoginFails, ChangeFails, SectionAnswered, Denied, Done, TypeInv, TypeOK
<1>2. CASE ListLoaded(s) \/ ListFails(s) \/ ListDenied(s)
  <2>1. PICK inVain : GoOn(s, inVain)
    BY <1>2 DEF ListLoaded, ListFails, ListDenied
  <2>2. \/ flight' = [flight EXCEPT ![s] = Free]
        \/ flight' = [flight EXCEPT ![s] = Ask("list", "employees", FALSE, "note", flight[s])]
    BY <2>1 DEF GoOn, Done
  <2>3. CASE flight' = [flight EXCEPT ![s] = Free]
    BY <2>3 DEF TypeInv, TypeOK
  <2>4. CASE flight' = [flight EXCEPT ![s] = Ask("list", "employees", FALSE, "note", flight[s])]
    <3>1. /\ flight'[s] = Ask("list", "employees", FALSE, "note", flight[s])
          /\ \A t \in Slots \ {s} : flight'[t] = flight[t]
      BY <2>4 DEF TypeInv, TypeOK
    <3> QED BY <3>1 DEF Ask, Lists
  <2> QED BY <2>2, <2>3, <2>4
<1>3. CASE Changed(s)
  <2>1. flight[s].of \in Lists /\ (Then(flight[s]) = "employees" => flight[s].of = "departments")
    BY <1>3 DEF Changed, AnswersOK, Then, TypeInv
  <2>2. /\ flight'[s] = Ask("list", flight[s].of, FALSE, Then(flight[s]), flight[s])
        /\ \A t \in Slots \ {s} : flight'[t] = flight[t]
    BY <1>3 DEF Changed, TypeInv, TypeOK
  <2> QED BY <2>1, <2>2 DEF Ask
<1> QED BY <1>1, <1>2, <1>3 DEF Resume

LEMMA ServeSlots ==
    ASSUME TypeInv, NEW s \in Slots, Serve(s)
    PROVE  /\ \A t \in Slots \ {s} : flight'[t] = flight[t]
           /\ flight'[s].op = flight[s].op /\ flight'[s].of = flight[s].of
           /\ flight'[s].then = flight[s].then /\ flight'[s].all = flight[s].all
           /\ flight'[s].edit = flight[s].edit /\ flight[s].op # "free"
<1>1. flight[s] \in Requests
  BY DEF Serve, TypeInv, TypeOK
<1>2. PICK answer, at : Answered(s, answer, at)
  BY DEF Serve
<1>3. flight'[s] = [flight[s] EXCEPT !.answer = answer, !.at = at]
  BY <1>2 DEF Answered, TypeInv, TypeOK
<1> QED BY <1>1, <1>2, <1>3 DEF Answered, Requests, TypeInv, TypeOK

(* What the server answers: an error, a session nobody has been in, the list
   as it is, or the change just made. *)
LEMMA ServeAnswer ==
    ASSUME TypeInv, NEW s \in Slots, Serve(s)
    PROVE  /\ data' \in {data, data + 1}
           /\ \/ flight'[s].answer # "ok" /\ flight'[s].at = 0
              \/ /\ flight[s].op = "login" /\ sessions' = sessions + 1
                 /\ flight'[s].at = sessions + 1
              \/ flight[s].op = "list" /\ flight'[s].at = data
              \/ flight[s].op = "panel" /\ flight'[s].at = 0
              \/ flight[s].op \in {"change", "enroll"} /\ data' = data + 1 /\ flight'[s].at = data + 1
<1>1. flight[s] \in Requests
  BY DEF Serve, TypeInv, TypeOK
<1>2. ASSUME NEW answer, NEW at, Answered(s, answer, at)
      PROVE  flight'[s].answer = answer /\ flight'[s].at = at
  BY <1>1, <1>2 DEF Answered, Requests, TypeInv, TypeOK
<1>3. CASE flight[s].op = "login"
  BY <1>2, <1>3 DEF Serve
<1>4. CASE flight[s].op \in {"list", "panel"}
  BY <1>2, <1>4 DEF Serve
<1>5. CASE flight[s].op \in {"change", "enroll"}
  BY <1>2, <1>5 DEF Serve
<1> QED BY <1>1, <1>3, <1>4, <1>5 DEF Requests

AnswerOK(s) ==
    /\ flight[s].op \in {"list", "change", "enroll"} =>
          flight[s].at <= data /\ flight[s].of \in Lists
    /\ flight[s].op = "list" /\ flight[s].then = "employees" => flight[s].of = "departments"
    /\ flight[s].op = "enroll" => ~flight[s].edit

LEMMA AnswersEach == AnswersOK <=> \A s \in Slots : AnswerOK(s)
BY DEF AnswersOK, AnswerOK

LEMMA AnswersStep ==
    ASSUME TypeInv, [Next]_vars
    PROVE  AnswersOK'
<1>0. /\ data \in Nat /\ \A s \in Slots : AnswerOK(s)
  BY AnswersEach DEF TypeInv, TypeOK
<1>1. SUFFICES ASSUME NEW s \in Slots
               PROVE  AnswerOK(s)'
  <2>1. (AnswersOK <=> \A t \in Slots : AnswerOK(t))'
    BY DEF AnswersOK, AnswerOK
  <2> QED BY <2>1
<1>2. ASSUME data' \in {data, data + 1}, flight'[s] = flight[s]
      PROVE  AnswerOK(s)'
  <2>1. flight[s].op \in {"list", "change", "enroll"} => flight[s].at \in Nat
    BY SlotHoldsRequest DEF Requests, TypeInv
  <2>2. flight[s].op \in {"list", "change", "enroll"} => flight[s].at <= data'
    BY <1>0, <1>2, <2>1 DEF AnswerOK
  <2> QED BY <1>0, <1>2, <2>2 DEF AnswerOK
<1>3. ASSUME flight'[s] = Free
      PROVE  AnswerOK(s)'
  BY <1>3 DEF AnswerOK, Free
<1>4. CASE Effect
  <2>1. data' = data
    BY <1>4 DEF Effect, server
  <2>2. CASE token = 0
    BY <1>2, <1>4, <2>1, <2>2 DEF Effect
  <2>3. CASE token # 0
    <3>1. \/ flight'[s] = flight[s]
          \/ flight'[s] = Ask("list", "employees", FALSE, "nothing", Rendered)
          \/ flight'[s] = Ask("list", "departments", FALSE, "nothing", Rendered)
      BY <1>4, <2>3, EffectSlots DEF TypeInv
    <3>2. CASE flight'[s] # flight[s]
      BY <1>0, <2>1, <3>1, <3>2 DEF AnswerOK, Ask, Lists
    <3> QED BY <1>2, <2>1, <3>2
  <2> QED BY <2>2, <2>3
<1>5. CASE UserActs
  <2>1. data' = data
    BY <1>5 DEF UserActs, handleLogin, handleLogout, ToggleInactive, Enroll, Reload, StartEdit,
                CancelEdit, Submit, Open, Admin, User, Quietly, server
  <2>2. CASE flight'[s] # flight[s] /\ flight'[s] # Free
    <3>1. /\ flight'[s].at = 0 /\ flight'[s].op \in {"login", "change", "enroll", "panel"}
          /\ flight'[s].op \in {"change", "enroll"} => flight'[s].of \in Lists
          /\ flight'[s].op = "enroll" => ~flight'[s].edit
      BY <1>5, <2>2, UserSlots DEF TypeInv
    <3> QED BY <1>0, <2>1, <3>1 DEF AnswerOK
  <2> QED BY <1>2, <1>3, <2>1, <2>2
<1>6. CASE Expire
  BY <1>2, <1>6 DEF Expire
<1>7. ASSUME NEW t \in Slots, Serve(t)
      PROVE  AnswerOK(s)'
  <2>1. data' \in {data, data + 1}
    BY <1>7, ServeAnswer
  <2>2. CASE s # t
    BY <1>2, <1>7, <2>1, <2>2, ServeSlots
  <2>3. CASE s = t
    <3>1. /\ flight'[s].op = flight[s].op /\ flight'[s].of = flight[s].of
          /\ flight'[s].then = flight[s].then /\ flight'[s].edit = flight[s].edit
      BY <1>7, <2>3, ServeSlots
    <3>2. flight[s].op \in {"list", "change", "enroll"} => flight'[s].at \in {0, data, data'}
      BY <1>7, <2>3, ServeAnswer
    <3> QED BY <1>0, <2>1, <3>1, <3>2 DEF AnswerOK
  <2> QED BY <2>2, <2>3
<1>8. ASSUME NEW t \in Slots, Resume(t)
      PROVE  AnswerOK(s)'
  <2>1. data' = data
    BY <1>8 DEF Resume, LoggedIn, LoginFails, ListLoaded, ListFails, ListDenied, Changed,
                ChangeFails, SectionAnswered, Denied, Answer, server
  <2>2. CASE s # t
    BY <1>2, <1>8, <2>1, <2>2, ResumeSlots
  <2>3. CASE s = t
    <3>1. \/ flight'[s] = Free
          \/ /\ flight'[s].op = "list" /\ flight'[s].of \in Lists /\ flight'[s].at = 0
             /\ flight'[s].then = "employees" => flight'[s].of = "departments"
      BY <1>8, <2>3, ResumeSlots
    <3> QED BY <1>0, <1>3, <2>1, <3>1 DEF AnswerOK
  <2> QED BY <2>2, <2>3
<1>9. CASE UNCHANGED vars
  BY <1>2, <1>9 DEF vars
<1> QED BY <1>4, <1>5, <1>6, <1>7, <1>8, <1>9 DEF Next

LEMMA SessionsStep ==
    ASSUME TypeInv, [Next]_vars
    PROVE  SessionsOK'
<1>0. /\ sessions \in Nat /\ token \in 0..sessions /\ seen.token \in 0..sessions
      /\ \A s \in Slots : Opens(s) =>
            flight[s].at \in 1..sessions /\ flight[s].at # token /\ flight[s].at # seen.token
      /\ \A s, t \in Slots : Opens(s) /\ Opens(t) /\ s # t => flight[s].at # flight[t].at
  BY DEF TypeInv, TypeOK, SessionsOK
<1>1. ASSUME sessions' = sessions, token' \in {token, 0}, seen'.token \in {seen.token, token, 0},
             \A s \in Slots : Opens(s)' => Opens(s) /\ flight'[s] = flight[s]
      PROVE  SessionsOK'
  BY <1>0, <1>1 DEF SessionsOK, Opens
<1>2. CASE Effect
  <2>1. sessions' = sessions /\ token' = token /\ seen'.token = token
    BY <1>2 DEF Effect, server, Rendered
  <2>2. CASE token = 0
    BY <1>1, <1>2, <2>1, <2>2 DEF Effect, Opens
  <2>3. CASE token # 0
    <3>1. \A s \in Slots :
             \/ flight'[s] = flight[s]
             \/ flight'[s] = Ask("list", "employees", FALSE, "nothing", Rendered)
             \/ flight'[s] = Ask("list", "departments", FALSE, "nothing", Rendered)
      BY <1>2, <2>3, EffectSlots DEF TypeInv
    <3>2. \A s \in Slots : Opens(s)' => Opens(s) /\ flight'[s] = flight[s]
      BY <3>1 DEF Opens, Ask
    <3> QED BY <1>1, <2>1, <3>2
  <2> QED BY <2>2, <2>3
<1>3. CASE UserActs
  <2>1. sessions' = sessions /\ token' \in {token, 0} /\ seen'.token \in {seen.token, 0}
    <3>1. CASE Reload
      BY <3>1 DEF Reload, server, Unmounted
    <3>2. CASE handleLogin \/ handleLogout \/ ToggleInactive \/ Enroll
      BY <3>2 DEF handleLogin, handleLogout, ToggleInactive, Enroll, Admin, User, Quietly,
                  server, SignOut
    <3>3. ASSUME NEW k, StartEdit(k) \/ CancelEdit(k) \/ \E edit \in BOOLEAN : Submit(k, edit)
          PROVE  sessions' = sessions /\ token' = token /\ seen' = seen
      BY <3>3 DEF StartEdit, CancelEdit, Submit, Admin, User, Quietly, server
    <3>4. ASSUME NEW to, Open(to)
          PROVE  sessions' = sessions /\ token' = token /\ seen' = seen
      BY <3>4 DEF Open, Admin, User, Quietly, server
    <3> QED BY <1>3, <3>1, <3>2, <3>3, <3>4 DEF UserActs
  <2>2. \A s \in Slots : Opens(s)' => Opens(s) /\ flight'[s] = flight[s]
    BY <1>3, UserSlots DEF TypeInv, Opens, Free
  <2> QED BY <1>1, <2>1, <2>2
<1>4. CASE Expire
  BY <1>1, <1>4 DEF Expire, Opens
<1>5. ASSUME NEW s \in Slots, Serve(s)
      PROVE  SessionsOK'
  <2>1. /\ token' = token /\ seen' = seen /\ sessions' \in {sessions, sessions + 1}
        /\ \A t \in Slots \ {s} : flight'[t] = flight[t]
    BY <1>5, ServeSlots DEF Serve
  <2>2. flight[s].answer = "none"
    BY <1>5 DEF Serve
  <2>3. Opens(s)' => sessions' = sessions + 1 /\ flight'[s].at = sessions + 1
    BY <1>5, ServeSlots, ServeAnswer DEF Opens
  <2>4. ASSUME NEW t \in Slots, Opens(t)'
        PROVE  /\ flight'[t].at \in 1..sessions' /\ flight'[t].at # token /\ flight'[t].at # seen.token
               /\ t # s => Opens(t) /\ flight'[t].at = flight[t].at
    BY <1>0, <2>1, <2>3, <2>4 DEF Opens
  <2>5. ASSUME NEW t \in Slots, NEW u \in Slots, Opens(t)', Opens(u)', t # u
        PROVE  flight'[t].at # flight'[u].at
    BY <1>0, <2>3, <2>4, <2>5
  <2> QED BY <2>1, <2>4, <2>5 DEF SessionsOK
<1>6. ASSUME NEW s \in Slots, Resume(s)
      PROVE  SessionsOK'
  <2>1. sessions' = sessions /\ seen' = seen
    BY <1>6 DEF Resume, LoggedIn, LoginFails, ListLoaded, ListFails, ListDenied, Changed,
                ChangeFails, SectionAnswered, Denied, Answer, server
  <2>2. \A t \in Slots : Opens(t)' => t # s /\ Opens(t) /\ flight'[t] = flight[t]
    BY <1>6, ResumeSlots DEF Opens, Free
  <2>3. CASE LoggedIn(s)
    <3>1. Opens(s) /\ token' = flight[s].at
      BY <2>3 DEF LoggedIn, Answer, Opens
    <3> QED BY <1>0, <2>1, <2>2, <3>1 DEF SessionsOK
  <2>4. CASE ~LoggedIn(s)
    <3>1. token' \in {token, 0}
      BY <1>6, <2>4 DEF Resume, LoginFails, ListLoaded, ListFails, ListDenied, Changed,
                        ChangeFails, SectionAnswered, Denied, SignOut, Stay
    <3> QED BY <1>1, <2>1, <2>2, <3>1
  <2> QED BY <2>3, <2>4
<1>7. CASE UNCHANGED vars
  BY <1>1, <1>7 DEF vars, Opens
<1> QED BY <1>2, <1>3, <1>4, <1>5, <1>6, <1>7 DEF Next

LEMMA TypeInvStep ==
    ASSUME TypeInv, [Next]_vars
    PROVE  TypeInv'
BY TypeStep, AnswersStep, SessionsStep DEF TypeInv

-----------------------------------------------------------------------------
(* What the lists show. *)

ListSlotOK(s, k) ==
    /\ k = "employees" => flight[s].all = includeInactive
    /\ flight[s].answer = "ok" => flight[s].at >= acked[k] \/ Due(k)
ShownOK(k) ==
    /\ k = "employees" => shown[k].all = includeInactive
    /\ shown[k].at >= acked[k] \/ Due(k)

(* Steps that end no wait for the list and change nothing it depends on. *)
LEMMA ListFrame ==
    ASSUME NEW k \in Lists, ListInv(k), k \in doubt => k \in doubt',
           UNCHANGED <<token, includeInactive, seen>>,
           shown'[k] = shown[k], acked'[k] = acked[k], Due(k) => Due(k)',
           \A s \in Slots : ListOf(s, k) => ListOf(s, k)' /\ flight'[s] = flight[s],
           \A s \in Slots : ListOf(s, k)' => ListOf(s, k)
    PROVE  ListInv(k)'
<1> SUFFICES ASSUME ~EffectDue', token' # 0, k \notin doubt'
             PROVE  /\ \A s, t \in Slots : ListOf(s, k)' /\ ListOf(t, k)' => s = t
                    /\ \A s \in Slots : ListOf(s, k)' => ListSlotOK(s, k)'
                    /\ (\A s \in Slots : ~ListOf(s, k)') => ShownOK(k)'
  BY DEF ListInv, ListSlotOK, ShownOK
<1>1. /\ \A s, t \in Slots : ListOf(s, k) /\ ListOf(t, k) => s = t
      /\ \A s \in Slots : ListOf(s, k) => ListSlotOK(s, k)
      /\ (\A s \in Slots : ~ListOf(s, k)) => ShownOK(k)
  BY DEF ListInv, ListSlotOK, ShownOK, EffectDue, Rendered
<1>2. ASSUME NEW s \in Slots, ListOf(s, k)'
      PROVE  ListSlotOK(s, k)'
  BY <1>1, <1>2 DEF ListSlotOK
<1>3. (\A s \in Slots : ~ListOf(s, k)') => ShownOK(k)'
  BY <1>1 DEF ShownOK
<1> QED BY <1>1, <1>2, <1>3

(* Steps after which the list is under way once, unanswered. *)
LEMMA ListAlone ==
    ASSUME NEW k \in Lists, NEW s \in Slots, ListOf(s, k)',
           k = "employees" => flight'[s].all = includeInactive',
           flight'[s].answer = "none",
           \A t \in Slots \ {s} : ~ListOf(t, k)'
    PROVE  ListInv(k)'
BY DEF ListInv

(* Steps that leave the page signed out, or its effect due. *)
LEMMA ListVoid ==
    ASSUME NEW k \in Lists, token' = 0 \/ EffectDue'
    PROVE  ListInv(k)'
BY DEF ListInv

LEMMA GoOnList ==
    ASSUME TypeInv, NEW s \in Slots, flight[s].op = "list", NEW inVain, GoOn(s, inVain),
           UNCHANGED <<token, includeInactive, seen, acked>>,
           NEW k \in Lists, ListInv(k), k # flight[s].of, shown'[k] = shown[k], k \notin inVain
    PROVE  ListInv(k)'
<1>1. \A t \in Slots \ {s} : flight'[t] = flight[t]
  BY DEF GoOn, Done, TypeInv, TypeOK
<1>2. CASE flight[s].then # "employees"
  <2>1. flight'[s] = Free /\ doubt' = inVain \cup doubt
    BY <1>2 DEF GoOn, Done, TypeInv, TypeOK
  <2>2. Due(k) => Due(k)'
    BY <1>1, <1>2 DEF Due
  <2>3. ~ListOf(s, k) /\ ~ListOf(s, k)'
    BY <2>1 DEF ListOf, Free
  <2>4. \A t \in Slots \ {s} : ListOf(t, k)' <=> ListOf(t, k)
    BY <1>1 DEF ListOf
  <2> QED BY <1>1, <2>1, <2>2, <2>3, <2>4, ListFrame
<1>3. CASE flight[s].then = "employees"
  <2>1. flight[s].of = "departments" /\ k = "employees"
    BY <1>3 DEF TypeInv, AnswersOK, Lists
  <2>2. /\ flight'[s] = Ask("list", "employees", FALSE, "note", flight[s])
        /\ doubt' = inVain \cup Asked("employees", flight[s].all, s)
    BY <1>3 DEF GoOn, TypeInv, TypeOK
  <2>3. /\ flight'[s].op = "list" /\ flight'[s].of = "employees"
        /\ flight'[s].all = flight[s].all /\ flight'[s].answer = "none"
    BY <2>2 DEF Ask
  <2>4. CASE k \in doubt'
    BY <2>4 DEF ListInv
  <2>5. CASE k \notin doubt'
    <3>1. ~Listing("employees", Slots \ {s}) /\ flight[s].all = includeInactive
      BY <2>1, <2>2, <2>5 DEF Asked
    <3>2. \A t \in Slots \ {s} : ~ListOf(t, k)'
      BY <1>1, <2>1, <3>1 DEF Listing, ListOf
    <3>3. ListOf(s, k)'
      BY <2>1, <2>3 DEF ListOf
    <3> QED BY <2>3, <3>1, <3>2, <3>3, ListAlone
  <2> QED BY <2>4, <2>5
<1> QED BY <1>2, <1>3

LEMMA ListLoadedKeeps ==
    ASSUME TypeInv, NEW s \in Slots, ListLoaded(s), NEW k \in Lists, ListInv(k)
    PROVE  ListInv(k)'
<1>1. /\ flight[s].op = "list" /\ flight[s].answer = "ok" /\ GoOn(s, {})
      /\ UNCHANGED <<token, includeInactive, seen, acked>>
      /\ shown' = [shown EXCEPT ![flight[s].of] = [all |-> flight[s].all, at |-> flight[s].at]]
  BY DEF ListLoaded, Answer
<1>2. CASE k # flight[s].of
  <2>1. shown'[k] = shown[k]
    BY <1>1, <1>2 DEF TypeInv, TypeOK
  <2> QED BY <1>1, <1>2, <2>1, GoOnList
<1>3. CASE k = flight[s].of
  <2>0. /\ ListOf(s, k) /\ shown'[k] = [all |-> flight[s].all, at |-> flight[s].at]
        /\ \A t \in Slots \ {s} : flight'[t] = flight[t]
    BY <1>1, <1>3 DEF ListOf, GoOn, Done, TypeInv, TypeOK
  <2>1. SUFFICES ASSUME ~EffectDue', token' # 0, k \notin doubt'
                 PROVE  /\ \A t \in Slots : ~ListOf(t, k)'
                        /\ ShownOK(k)'
    BY DEF ListInv, ShownOK
  <2>2. CASE flight[s].then = "employees"
    <3>1. k = "departments"
      BY <1>1, <1>3, <2>2 DEF TypeInv, AnswersOK
    <3>2. flight'[s] = Ask("list", "employees", FALSE, "note", flight[s])
      BY <1>1, <2>2 DEF GoOn, TypeInv, TypeOK
    <3>3. k \notin doubt
      BY <1>1, <2>1, <2>2, <3>1 DEF GoOn, Asked
    <3>4. /\ \A t \in Slots : ListOf(t, k) => s = t
          /\ flight[s].at >= acked[k]
      BY <1>1, <2>0, <2>1, <3>1, <3>3 DEF ListInv, EffectDue, Rendered, Due
    <3>5. ~ListOf(s, k)'
      BY <3>1, <3>2 DEF Ask, ListOf
    <3> QED BY <1>1, <2>0, <3>1, <3>4, <3>5 DEF ListOf, ShownOK
  <2>3. CASE flight[s].then # "employees"
    <3>1. flight'[s] = Free /\ doubt' = doubt
      BY <1>1, <2>3 DEF GoOn, Done, TypeInv, TypeOK
    <3>2. /\ \A t \in Slots : ListOf(t, k) => s = t
          /\ k = "employees" => flight[s].all = includeInactive
          /\ flight[s].at >= acked[k] \/ Due(k)
      BY <1>1, <2>0, <2>1, <3>1 DEF ListInv, EffectDue, Rendered
    <3>3. Due(k) => Due(k)'
      BY <2>0, <2>3 DEF Due
    <3>4. ~ListOf(s, k)'
      BY <3>1 DEF ListOf, Free
    <3> QED BY <1>1, <2>0, <3>2, <3>3, <3>4 DEF ListOf, ShownOK
  <2> QED BY <2>2, <2>3
<1> QED BY <1>2, <1>3

LEMMA ChangedKeeps ==
    ASSUME TypeInv, NEW s \in Slots, Changed(s), NEW k \in Lists, ListInv(k)
    PROVE  ListInv(k)'
<1>1. /\ flight[s].op \in {"change", "enroll"} /\ flight[s].of \in Lists
      /\ UNCHANGED <<token, includeInactive, seen, shown>>
      /\ acked' = Told(flight[s]) /\ doubt' = Asked(flight[s].of, flight[s].all, s)
      /\ flight'[s] = Ask("list", flight[s].of, FALSE, Then(flight[s]), flight[s])
      /\ \A t \in Slots \ {s} : flight'[t] = flight[t]
  BY DEF Changed, Answer, AnswersOK, TypeInv, TypeOK
<1>2. /\ flight'[s].op = "list" /\ flight'[s].of = flight[s].of /\ flight'[s].answer = "none"
      /\ flight'[s].all = flight[s].all /\ flight'[s].then = Then(flight[s])
  BY <1>1 DEF Ask
<1>3. CASE k = flight[s].of
  <2>1. CASE k \in doubt'
    BY <2>1 DEF ListInv
  <2>2. CASE k \notin doubt'
    <3>1. ~Listing(k, Slots \ {s}) /\ (k = "employees" => flight[s].all = includeInactive)
      BY <1>1, <1>3, <2>2 DEF Asked
    <3>2. \A t \in Slots \ {s} : ~ListOf(t, k)'
      BY <1>1, <3>1 DEF Listing, ListOf
    <3>3. ListOf(s, k)'
      BY <1>2, <1>3 DEF ListOf
    <3> QED BY <1>1, <1>2, <3>1, <3>2, <3>3, ListAlone
  <2> QED BY <2>1, <2>2
<1>4. CASE k # flight[s].of
  <2>1. /\ \A t \in Slots : ListOf(t, k) => ListOf(t, k)' /\ flight'[t] = flight[t]
        /\ \A t \in Slots : ListOf(t, k)' => ListOf(t, k)
    BY <1>1, <1>2, <1>4 DEF ListOf
  <2>2. k \in doubt => k \in doubt'
    BY <1>1, <1>4 DEF Asked
  <2>3. Due(k) => Due(k)'
    BY <1>1 DEF Due
  <2>4. CASE k \in Concerned(flight[s])
    <3>1. flight[s].of = "departments" /\ flight[s].edit /\ k = "employees"
      BY <1>4, <2>4 DEF Concerned, Lists
    <3>2. flight[s].op # "enroll"
      BY <3>1 DEF TypeInv, AnswersOK
    <3>3. Due(k)'
      BY <1>2, <3>1, <3>2 DEF Then, Due
    <3>4. SUFFICES ASSUME ~EffectDue', token' # 0, k \notin doubt'
                   PROVE  /\ \A t, u \in Slots : ListOf(t, k)' /\ ListOf(u, k)' => t = u
                          /\ \A t \in Slots : ListOf(t, k)' => ListSlotOK(t, k)'
                          /\ (\A t \in Slots : ~ListOf(t, k)') => ShownOK(k)'
      BY DEF ListInv, ListSlotOK, ShownOK
    <3>5. /\ \A t, u \in Slots : ListOf(t, k) /\ ListOf(u, k) => t = u
          /\ \A t \in Slots : ListOf(t, k) => flight[t].all = includeInactive
          /\ (\A t \in Slots : ~ListOf(t, k)) => shown[k].all = includeInactive
      BY <1>1, <2>2, <3>1, <3>4 DEF ListInv, EffectDue, Rendered
    <3> QED BY <1>1, <2>1, <3>3, <3>5 DEF ListSlotOK, ShownOK
  <2>5. CASE k \notin Concerned(flight[s])
    <3>1. acked'[k] = acked[k]
      BY <1>1, <2>5 DEF Told
    <3> QED BY <1>1, <2>1, <2>2, <2>3, <3>1, ListFrame
  <2> QED BY <2>4, <2>5
<1> QED BY <1>3, <1>4

LEMMA UserKeepsLists ==
    ASSUME TypeInv, UserActs, NEW k \in Lists, ListInv(k)
    PROVE  ListInv(k)'
<1>1. CASE handleLogin \/ handleLogout
  BY <1>1, ListVoid DEF handleLogin, handleLogout, SignOut
<1>2. CASE ToggleInactive
  <2>1. ~EffectDue /\ UNCHANGED <<seen, token>> /\ includeInactive' = ~includeInactive
    BY <1>2 DEF ToggleInactive, Admin, User, Quietly
  <2>2. seen.all = includeInactive /\ includeInactive \in BOOLEAN
    BY <2>1 DEF EffectDue, Rendered, TypeInv, TypeOK
  <2>3. Rendered'.all = ~includeInactive
    BY <2>1 DEF Rendered
  <2>4. EffectDue'
    BY <2>1, <2>2, <2>3 DEF EffectDue
  <2> QED BY <2>4, ListVoid
<1>3. CASE Reload
  <2>1. ~seen'.mounted /\ Rendered'.mounted
    BY <1>3 DEF Reload, Unmounted, Rendered
  <2>2. EffectDue'
    BY <2>1 DEF EffectDue
  <2> QED BY <2>2, ListVoid
<1>4. CASE ~(handleLogin \/ handleLogout \/ ToggleInactive \/ Reload)
  <2>1. UNCHANGED <<token, includeInactive, seen, shown, acked, doubt>>
    <3>1. CASE Enroll
      BY <3>1 DEF Enroll, Admin, User, Quietly
    <3>2. ASSUME NEW j, StartEdit(j) \/ CancelEdit(j) \/ \E edit \in BOOLEAN : Submit(j, edit)
          PROVE  UNCHANGED <<token, includeInactive, seen, shown, acked, doubt>>
      BY <3>2 DEF StartEdit, CancelEdit, Submit, Admin, User, Quietly
    <3>3. ASSUME NEW to, Open(to)
          PROVE  UNCHANGED <<token, includeInactive, seen, shown, acked, doubt>>
      BY <3>3 DEF Open, Admin, User, Quietly
    <3> QED BY <1>4, <3>1, <3>2, <3>3 DEF UserActs
  <2>2. \A s \in Slots :
           \/ flight'[s] = flight[s]
           \/ flight[s] = Free /\ flight'[s].op # "list"
    <3>1. ASSUME NEW op \in {"change", "enroll", "panel"}, NEW of, NEW edit, Start(op, of, edit)
          PROVE  \A s \in Slots : \/ flight'[s] = flight[s]
                                  \/ flight[s] = Free /\ flight'[s].op # "list"
      <4>1. PICK t \in Slots : /\ flight[t] = Free
                               /\ flight'[t] = Ask(op, of, edit, "nothing", Rendered)
                               /\ \A u \in Slots \ {t} : flight'[u] = flight[u]
        BY <3>1, StartedSlot DEF TypeInv
      <4>2. flight'[t].op # "list"
        BY <4>1 DEF Ask
      <4> QED BY <4>1, <4>2
    <3>2. CASE Enroll \/ \E j \in Lists, edit \in BOOLEAN : Submit(j, edit)
      BY <3>1, <3>2 DEF Enroll, Submit
    <3>3. CASE \E j \in Lists : StartEdit(j) \/ CancelEdit(j)
      BY <3>3 DEF StartEdit, CancelEdit
    <3>4. CASE \E to \in Sections : Open(to)
      BY <3>1, <3>4 DEF Open
    <3> QED BY <1>4, <3>2, <3>3, <3>4 DEF UserActs
  <2>3. /\ Due(k) => Due(k)'
        /\ \A s \in Slots : ListOf(s, k) => ListOf(s, k)' /\ flight'[s] = flight[s]
        /\ \A s \in Slots : ListOf(s, k)' => ListOf(s, k)
    BY <2>2 DEF Due, ListOf, Free
  <2> QED BY <2>1, <2>3, ListFrame
<1> QED BY <1>1, <1>2, <1>3, <1>4

LEMMA EffectKeepsLists ==
    ASSUME TypeInv, Effect, NEW k \in Lists, ListInv(k)
    PROVE  ListInv(k)'
<1>1. CASE token = 0
  BY <1>1, ListVoid DEF Effect
<1>2. CASE token # 0
  <2>1. CASE k \in doubt'
    BY <2>1 DEF ListInv
  <2>2. CASE k \notin doubt'
    <3>1. \A u \in Slots : ~ListOf(u, k)
      BY <1>2, <2>2 DEF Effect, Listing, ListOf
    <3>2. PICK s \in Slots, t \in Slots :
             /\ s # t /\ flight[s] = Free /\ flight[t] = Free
             /\ flight'[s] = Ask("list", "employees", FALSE, "nothing", Rendered)
             /\ flight'[t] = Ask("list", "departments", FALSE, "nothing", Rendered)
             /\ \A u \in Slots \ {s, t} : flight'[u] = flight[u]
      BY <1>2, EffectSlots DEF TypeInv
    <3>3. \A u \in Slots \ {s, t} : ~ListOf(u, k)'
      BY <3>1, <3>2 DEF ListOf
    <3>4. CASE k = "employees"
      <4>1. ListOf(s, k)' /\ ~ListOf(t, k)' /\ flight'[s].answer = "none"
            /\ flight'[s].all = includeInactive
        BY <3>2, <3>4 DEF ListOf, Ask, Rendered
      <4>2. includeInactive' = includeInactive
        BY DEF Effect
      <4> QED BY <3>3, <4>1, <4>2, ListAlone
    <3>5. CASE k = "departments"
      <4>1. ListOf(t, k)' /\ ~ListOf(s, k)' /\ flight'[t].answer = "none"
        BY <3>2, <3>5 DEF ListOf, Ask
      <4> QED BY <3>3, <3>5, <4>1, ListAlone
    <3> QED BY <3>4, <3>5 DEF Lists
  <2> QED BY <2>1, <2>2
<1> QED BY <1>1, <1>2

LEMMA ServeKeepsLists ==
    ASSUME TypeInv, NEW s \in Slots, Serve(s), NEW k \in Lists, ListInv(k)
    PROVE  ListInv(k)'
<1>1. /\ UNCHANGED <<token, includeInactive, seen, shown, acked, doubt>>
      /\ \A t \in Slots \ {s} : flight'[t] = flight[t]
      /\ flight'[s].op = flight[s].op /\ flight'[s].of = flight[s].of
      /\ flight'[s].then = flight[s].then /\ flight'[s].all = flight[s].all
  BY ServeSlots DEF Serve
<1>2. /\ Due(k) => Due(k)'
      /\ \A t \in Slots : ListOf(t, k)' <=> ListOf(t, k)
  BY <1>1 DEF Due, ListOf
<1>3. CASE ~ListOf(s, k)
  BY <1>1, <1>2, <1>3, ListFrame
<1>4. CASE ListOf(s, k)
  <2>1. SUFFICES ASSUME ~EffectDue', token' # 0, k \notin doubt'
                 PROVE  /\ \A t, u \in Slots : ListOf(t, k)' /\ ListOf(u, k)' => t = u
                        /\ ListSlotOK(s, k)'
    BY <1>2, <1>4 DEF ListInv, ListSlotOK
  <2>2. /\ \A t, u \in Slots : ListOf(t, k) /\ ListOf(u, k) => t = u
        /\ k = "employees" => flight[s].all = includeInactive
    BY <1>1, <1>4, <2>1 DEF ListInv, EffectDue, Rendered
  <2>3. flight'[s].answer = "ok" => flight'[s].at = data
    BY <1>4, ServeAnswer DEF ListOf
  <2>4. data \in Nat /\ acked[k] \in 0..data
    BY DEF TypeInv, TypeOK
  <2> QED BY <1>1, <1>2, <2>2, <2>3, <2>4 DEF ListSlotOK
<1> QED BY <1>3, <1>4

LEMMA ResumeKeepsLists ==
    ASSUME TypeInv, NEW s \in Slots, Resume(s), NEW k \in Lists, ListInv(k)
    PROVE  ListInv(k)'
<1>1. CASE LoggedIn(s)
  <2>1. Opens(s) /\ token' = flight[s].at /\ seen' = seen
    BY <1>1 DEF LoggedIn, Answer, Opens
  <2>2. Rendered'.token # seen'.token
    BY <2>1 DEF Rendered, TypeInv, SessionsOK
  <2>3. EffectDue'
    BY <2>2 DEF EffectDue
  <2> QED BY <2>3, ListVoid
<1>2. CASE ListDenied(s) \/ Denied(s)
  BY <1>2, ListVoid DEF ListDenied, Denied, SignOut
<1>3. CASE LoginFails(s) \/ ChangeFails(s) \/ SectionAnswered(s)
  <2>1. /\ UNCHANGED <<token, includeInactive, seen, shown, acked, doubt>>
        /\ flight[s].op # "list" /\ Done(s)
    BY <1>3 DEF LoginFails, ChangeFails, SectionAnswered, Answer, Stay
  <2>2. flight'[s] = Free /\ \A t \in Slots \ {s} : flight'[t] = flight[t]
    BY <2>1 DEF Done, TypeInv, TypeOK
  <2>3. /\ Due(k) => Due(k)'
        /\ \A t \in Slots : ListOf(t, k) => ListOf(t, k)' /\ flight'[t] = flight[t]
        /\ \A t \in Slots : ListOf(t, k)' => ListOf(t, k)
    BY <2>1, <2>2 DEF Due, ListOf, Free
  <2> QED BY <2>1, <2>3, ListFrame
<1>4. CASE ListLoaded(s)
  BY <1>4, ListLoadedKeeps
<1>5. CASE ListFails(s)
  <2>1. /\ flight[s].op = "list" /\ GoOn(s, {flight[s].of})
        /\ UNCHANGED <<token, includeInactive, seen, acked, shown>>
    BY <1>5 DEF ListFails, Answer, Stay
  <2>2. CASE k # flight[s].of
    BY <2>1, <2>2, GoOnList
  <2>3. CASE k = flight[s].of
    <3>1. k \in doubt'
      BY <2>1, <2>3 DEF GoOn
    <3> QED BY <3>1 DEF ListInv
  <2> QED BY <2>2, <2>3
<1>6. CASE Changed(s)
  BY <1>6, ChangedKeeps
<1> QED BY <1>1, <1>2, <1>3, <1>4, <1>5, <1>6 DEF Resume

LEMMA ListStep ==
    ASSUME TypeInv, [Next]_vars, NEW k \in Lists, ListInv(k)
    PROVE  ListInv(k)'
<1>1. CASE Expire
  <2>1. UNCHANGED <<token, includeInactive, seen, shown, acked, doubt, flight>>
    BY <1>1 DEF Expire
  <2> QED BY <2>1 DEF ListInv, EffectDue, Rendered, ListOf, Due
<1>2. CASE UNCHANGED vars
  BY <1>2 DEF vars, ListInv, EffectDue, Rendered, ListOf, Due
<1> QED BY <1>1, <1>2, EffectKeepsLists, UserKeepsLists, ServeKeepsLists, ResumeKeepsLists DEF Next

-----------------------------------------------------------------------------
(* The status. *)

LEMMA RestfulKept ==
    ASSUME LoadingInv, status' = status,
           \A s \in Slots : Restful(s) => Restful(s)'
    PROVE  LoadingInv'
BY DEF LoadingInv

LEMMA UserKeepsLoading ==
    ASSUME TypeInv, UserActs, LoadingInv
    PROVE  LoadingInv'
<1>1. ASSUME NEW op, NEW of, NEW edit, Start(op, of, edit)
      PROVE  /\ \A s \in Slots : Restful(s) => Restful(s)'
             /\ op \in {"login", "change"} => \E s \in Slots : Restful(s)'
  <2>1. PICK t \in Slots : /\ flight[t] = Free
                           /\ flight'[t] = Ask(op, of, edit, "nothing", Rendered)
                           /\ \A u \in Slots \ {t} : flight'[u] = flight[u]
    BY <1>1, StartedSlot DEF TypeInv
  <2>2. ~Restful(t)
    BY <2>1 DEF Restful, ListOf, Free
  <2>3. op \in {"login", "change"} => Restful(t)'
    BY <2>1 DEF Restful, Ask
  <2> QED BY <2>1, <2>2, <2>3 DEF Restful, ListOf
<1>2. CASE handleLogin \/ \E k \in Lists, edit \in BOOLEAN : Submit(k, edit)
  BY <1>1, <1>2 DEF handleLogin, Submit, LoadingInv
<1>3. CASE handleLogout \/ Reload
  BY <1>3 DEF handleLogout, Reload, LoadingInv
<1>4. CASE ToggleInactive \/ \E k \in Lists : StartEdit(k) \/ CancelEdit(k)
  BY <1>4 DEF ToggleInactive, StartEdit, CancelEdit, LoadingInv, Restful, ListOf
<1>5. CASE Enroll \/ \E to \in Sections : Open(to)
  <2>1. status' = status /\ (flight' = flight \/ \E op, of : Start(op, of, FALSE))
    BY <1>5 DEF Enroll, Open
  <2> QED BY <1>1, <2>1 DEF LoadingInv, Restful, ListOf
<1> QED BY <1>2, <1>3, <1>4, <1>5 DEF UserActs

LEMMA ResumeKeepsLoading ==
    ASSUME TypeInv, NEW s \in Slots, Resume(s), LoadingInv
    PROVE  LoadingInv'
<1>0. \A t \in Slots \ {s} : flight'[t] = flight[t]
  BY ResumeSlots
<1>1. ASSUME status' = status, ~Restful(s)
      PROVE  LoadingInv'
  BY <1>0, <1>1 DEF LoadingInv, Restful, ListOf
<1>2. CASE LoggedIn(s) \/ LoginFails(s) \/ ChangeFails(s) \/ Denied(s)
  BY <1>2 DEF LoggedIn, LoginFails, ChangeFails, Denied, LoadingInv
<1>3. CASE SectionAnswered(s)
  BY <1>1, <1>3 DEF SectionAnswered, Answer, Restful, ListOf
<1>4. CASE ListLoaded(s) \/ ListFails(s) \/ ListDenied(s)
  <2>1. /\ flight[s].op = "list" /\ flight[s] \in Requests /\ flight[s].of \in Lists
        /\ \E inVain : GoOn(s, inVain)
    BY <1>4, SlotHoldsRequest DEF ListLoaded, ListFails, ListDenied, Answer, TypeInv, AnswersOK
  <2>2. CASE flight[s].then = "employees"
    <3>1. flight'[s] = Ask("list", "employees", FALSE, "note", flight[s])
      BY <2>1, <2>2 DEF GoOn, TypeInv, TypeOK
    <3>2. Restful(s)'
      BY <3>1 DEF Restful, ListOf, Ask
    <3> QED BY <3>2 DEF LoadingInv
  <2>3. CASE flight[s].then = "note"
    BY <1>4, <2>3 DEF ListLoaded, ListFails, ListDenied, Status, LoadingInv
  <2>4. CASE flight[s].then = "nothing"
    <3>1. CASE ListFails(s) \/ ListDenied(s)
      BY <2>4, <3>1 DEF ListFails, ListDenied, Status, LoadingInv
    <3>2. CASE ListLoaded(s) /\ flight[s].of = "employees"
      BY <2>4, <3>2 DEF ListLoaded, Status, LoadingInv
    <3>3. CASE ListLoaded(s) /\ flight[s].of = "departments"
      <4>1. status' = status /\ ~Restful(s)
        BY <2>1, <2>4, <3>3 DEF ListLoaded, Status, Restful, ListOf
      <4> QED BY <1>1, <4>1
    <3> QED BY <1>4, <2>1, <3>1, <3>2, <3>3 DEF Lists
  <2> QED BY <2>1, <2>2, <2>3, <2>4 DEF Requests
<1>5. CASE Changed(s)
  <2>1. /\ flight'[s] = Ask("list", flight[s].of, FALSE, Then(flight[s]), flight[s])
        /\ flight[s].op \in {"change", "enroll"} /\ flight[s].of \in Lists
        /\ flight[s].of # "employees" => status' = status
    BY <1>5 DEF Changed, TypeInv, TypeOK, AnswersOK
  <2>2. CASE flight[s].of = "employees"
    <3>1. Restful(s)'
      BY <2>1, <2>2 DEF Restful, ListOf, Ask
    <3> QED BY <3>1 DEF LoadingInv
  <2>3. CASE flight[s].of # "employees" /\ flight[s].op = "enroll"
    <3>1. ~Restful(s)
      BY <2>3 DEF Restful, ListOf
    <3> QED BY <1>1, <2>1, <2>3, <3>1
  <2>4. CASE flight[s].op = "change"
    <3>1. Then(flight[s]) # "nothing"
      BY <2>4 DEF Then
    <3>2. Restful(s)'
      BY <2>1, <3>1 DEF Restful, Ask
    <3> QED BY <3>2 DEF LoadingInv
  <2> QED BY <2>1, <2>2, <2>3, <2>4
<1> QED BY <1>2, <1>3, <1>4, <1>5 DEF Resume

LEMMA LoadingStep ==
    ASSUME TypeInv, [Next]_vars, LoadingInv
    PROVE  LoadingInv'
<1>1. CASE Effect
  <2>1. CASE token = 0
    BY <1>1, <2>1 DEF Effect, LoadingInv, Restful, ListOf
  <2>2. CASE token # 0
    <3>1. PICK s \in Slots : flight'[s] = Ask("list", "employees", FALSE, "nothing", Rendered)
      BY <1>1, <2>2, EffectSlots DEF TypeInv
    <3>2. Restful(s)'
      BY <3>1 DEF Restful, ListOf, Ask
    <3> QED BY <3>2 DEF LoadingInv
  <2> QED BY <2>1, <2>2
<1>2. CASE Expire
  BY <1>2 DEF Expire, LoadingInv, Restful, ListOf
<1>3. ASSUME NEW s \in Slots, Serve(s)
      PROVE  LoadingInv'
  <2>1. \A t \in Slots : Restful(t) => Restful(t)'
    BY <1>3, ServeSlots DEF Restful, ListOf
  <2> QED BY <1>3, <2>1, RestfulKept DEF Serve
<1>4. CASE UNCHANGED vars
  BY <1>4 DEF vars, LoadingInv, Restful, ListOf
<1> QED BY <1>1, <1>2, <1>3, <1>4, UserKeepsLoading, ResumeKeepsLoading DEF Next

-----------------------------------------------------------------------------
Inv == TypeInv /\ (\A k \in Lists : ListInv(k)) /\ LoadingInv

LEMMA InitInv == Init => Inv
<1> SUFFICES ASSUME Init PROVE Inv
  OBVIOUS
<1>1. TypeOK
  <2>1. Unmounted \in [token : 0..sessions, all : BOOLEAN, mounted : BOOLEAN]
    BY DEF Init, Unmounted
  <2>2. Blank \in [Lists -> [all : BOOLEAN, at : 0..data]] /\ acked \in [Lists -> 0..data]
    BY DEF Init, Blank
  <2>3. /\ token \in 0..sessions /\ sessions \in Nat /\ expired \subseteq 1..sessions
        /\ data \in Nat /\ acts \in Nat /\ doubt \subseteq Lists /\ editing \subseteq Lists
    BY DEF Init
  <2>4. flight \in [Slots -> Requests \cup {Free}]
    BY DEF Init
  <2> QED BY <2>1, <2>2, <2>3, <2>4 DEF Init, TypeOK, Sections
<1>2. AnswersOK /\ SessionsOK
  BY DEF Init, AnswersOK, SessionsOK, Opens, Free
<1>3. EffectDue
  BY DEF Init, EffectDue, Unmounted, Rendered
<1> QED BY <1>1, <1>2, <1>3 DEF Inv, TypeInv, ListInv, LoadingInv, Init

LEMMA InvStep == Inv /\ [Next]_vars => Inv'
BY TypeInvStep, ListStep, LoadingStep DEF Inv

LEMMA Invariance == Spec => []Inv
BY InitInv, InvStep, PTL DEF Spec

(* The page keeps its types, and every session finds it at the directory,
   editing nothing (handleLogin, handleLogout and the 401s of every handler). *)
THEOREM TypeCorrect == Spec => []TypeOK
<1>1. Inv => TypeOK
  BY DEF Inv, TypeInv
<1> QED BY <1>1, Invariance, PTL

(* Once nothing is under way, a list asked for alone, for the filter of the
   page and not in vain shows every change the user was told of
   (Dashboard.jsx:50-380). *)
THEOREM SettledHolds == Spec => []SettledIsCurrent
<1>1. Inv => SettledIsCurrent
  <2>1. SUFFICES ASSUME Inv, Quiet, ~EffectDue, token # 0, NEW k \in Lists \ doubt
                 PROVE  /\ shown[k].at >= acked[k]
                        /\ k = "employees" => shown[k].all = includeInactive
    BY DEF SettledIsCurrent
  <2>2. ~Due(k) /\ \A s \in Slots : ~ListOf(s, k)
    BY <2>1 DEF Quiet, Due, ListOf, Free
  <2> QED BY <2>1, <2>2 DEF Inv, ListInv
<1> QED BY <1>1, Invariance, PTL

(* While the page says that it loads, a handler that will say otherwise is
   under way: LoadingEnds needs no more than that the answers come. *)
THEOREM LoadingHasHandler == Spec => []LoadingInv
<1>1. Inv => LoadingInv
  BY DEF Inv
<1> QED BY <1>1, Invariance, PTL
=============================================================================
