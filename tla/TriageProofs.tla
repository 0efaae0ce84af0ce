---------------------------- MODULE TriageProofs ----------------------------
(***************************************************************************)
(* Proofs about the triage page, for any number of applications, pages,    *)
(* visits and status updates under way: a candidate is always on screen,   *)
(* the undo offered is for a decision that stands, and a decision on       *)
(* screen is the one in the database.                                      *)
(***************************************************************************)
EXTENDS Triage, FiniteSetTheorems, TLAPS

(* A decision on screen was made at a place of the queue.                  *)
EntryOK(e) == e = Undecided \/ (e.decision \in Decision /\ e.prevIndex < total)

(* While the queue is empty nothing was decided and nothing slides: what   *)
(* a page that has gone left under way can no longer change it.            *)
NothingShown ==
  /\ index = 0 /\ undoFor = none /\ flying = "none"
  /\ \A a \in App : decisions[a] = Undecided
  /\ \A c \in calls : c.orphan

SessionInv ==
  /\ load # none \/ error => total = 0
  /\ total = 0 => NothingShown
  /\ total > 0 => index < total
  /\ timer => flying # "none"
  /\ \A a \in App : EntryOK(decisions[a])
  /\ undoFor # none => undoFor.prevIndex < total /\ Decided(undoFor.app)
  /\ \A c \in calls : ~c.orphan => EntryOK(c.snapshot)

(* Of a candidate whose updates never overlapped: the update under way, if *)
(* there is one, is about what the page shows.                             *)
AboutShown(c) ==
  IF c.status = "NEW"
  THEN /\ decisions[c.app] = Undecided
       /\ c.at # "done" => c.snapshot = Undecided \/ server[c.app] = c.snapshot.decision
  ELSE /\ decisions[c.app].decision = c.status
       /\ c.at = "done" => server[c.app] = c.status

Saved(a) ==
  /\ \A c, d \in calls : c.app = a /\ d.app = a => c = d
  /\ \A c \in calls : c.app = a => ~c.orphan /\ AboutShown(c)
  /\ ~Outstanding(a) /\ Decided(a) => server[a] = decisions[a].decision

SavedInv == \A a \in App \ doubtful : Saved(a)

-----------------------------------------------------------------------------
(* The pages of the queue.                                                  *)

(* The rows of a page are applications, and the next page starts at a place. *)
LEMMA PageRows ==
  ASSUME NEW from \in Nat, NEW at \in InOrder(NewFrom(from))
  PROVE  /\ ServerPage(at).rows \in Seq(App)
         /\ ServerPage(at).next # none => ServerPage(at).next \in Nat
  <1> DEFINE places == NewFrom(from)
             k == IF Len(at) > PageSize THEN PageSize ELSE Len(at)
  <1>1. IsFiniteSet(1 .. Len(Listing)) /\ Len(Listing) \in Nat /\ DOMAIN Listing = 1 .. Len(Listing)
    BY AppAssumption, FS_Interval
  <1>2. places \subseteq 1 .. Len(Listing) /\ places \subseteq Nat
    BY <1>1 DEF NewFrom
  <1>3. Cardinality(places) \in Nat
    BY <1>1, <1>2, FS_Subset, FS_CardinalityType
  <1>4. at \in [1 .. Cardinality(places) -> places]
    BY DEF InOrder
  <1>5. Len(at) = Cardinality(places) /\ at \in Seq(Nat)
    BY <1>2, <1>3, <1>4
  <1>6. k \in Nat /\ k <= Len(at) /\ \A i \in 1 .. k : at[i] \in 1 .. Len(Listing)
    <2>1. Len(at) \in Nat /\ PageSize \in Nat
      BY <1>3, <1>5, BoundAssumption
    <2>2. k \in Nat /\ k <= Len(at)
      BY <2>1
    <2>3. 1 .. k \subseteq 1 .. Cardinality(places)
      BY <1>3, <1>5, <2>2
    <2>4. \A i \in 1 .. Cardinality(places) : at[i] \in places
      BY <1>4
    <2>5. QED
      BY <1>2, <2>2, <2>3, <2>4
  <1>7. \A i \in 1 .. k : Listing[at[i]] \in App
    BY <1>1, <1>6, AppAssumption
  <1>8. [i \in 1 .. k |-> Listing[at[i]]] \in Seq(App)
    BY <1>6, <1>7
  <1>9. Len(at) > PageSize => at[PageSize] \in Nat
    BY <1>2, <1>3, <1>4, <1>5, BoundAssumption
  <1>10. QED
    BY <1>8, <1>9 DEF ServerPage

-----------------------------------------------------------------------------
(* Type correctness.                                                        *)

LEMMA EmptySeq == <<>> \in Seq(App)
  OBVIOUS

LEMMA CallOrphaned ==
  ASSUME NEW c \in Call
  PROVE  LET d == [c EXCEPT !.orphan = TRUE]
         IN  d \in Call /\ d.app = c.app /\ d.orphan
  BY DEF Call

LEMMA CallBecomes ==
  ASSUME NEW c \in Call, NEW v \in {"done", "failed"}
  PROVE  LET d == [c EXCEPT !.at = v]
         IN  /\ d \in Call /\ d.at = v
             /\ d.app = c.app /\ d.status = c.status /\ d.snapshot = c.snapshot
             /\ d.orphan = c.orphan
  BY DEF Call

LEMMA InitType == Init => TypeOK
  <1> SUFFICES ASSUME Init PROVE TypeOK
    OBVIOUS
  <1>1. FirstFetch \in [pages : Nat, got : Seq(App), next : Nat]
    BY DEF FirstFetch
  <1>2. [a \in App |-> Undecided] \in [App -> Entry]
    BY DEF Undecided, Entry
  <1>3. QED
    BY <1>1, <1>2, EmptySeq DEF Init, TypeOK, Status, Decision

LEMMA ShownIsListed ==
  ASSUME TypeOK
  PROVE  /\ total \in Nat
         /\ \A i \in Int : At(i) # none => At(i) \in App /\ i \in 0 .. (total - 1)
  BY DEF TypeOK, total, At

LEMMA ShownCandidates ==
  ASSUME TypeOK
  PROVE  /\ current # none => current \in App /\ index < total
         /\ prevApp # none => prevApp \in App
         /\ nextApp # none => nextApp \in App /\ index + 1 < total
  <1>1. index \in Nat
    BY DEF TypeOK
  <1>2. QED
    BY <1>1, ShownIsListed DEF current, prevApp, nextApp

LEMMA SendType ==
  ASSUME TypeOK, NEW a \in App, NEW status \in Status, NEW snapshot \in Entry,
         Send(a, status, snapshot)
  PROVE  calls' \subseteq Call /\ sent' \in Nat /\ server' = server /\ doubtful' \subseteq App
  <1>1. PICK n \in Nat : n = sent + 1
    BY DEF TypeOK
  <1>2. [n |-> n, app |-> a, status |-> status, snapshot |-> snapshot, orphan |-> FALSE,
         at |-> "sent"] \in Call
    BY DEF Call
  <1>3. calls' \subseteq Call
    BY <1>1, <1>2 DEF TypeOK, Send
  <1>4. QED
    BY <1>1, <1>3 DEF TypeOK, Send

LEMMA FreshType ==
  ASSUME TypeOK, Fresh, Abandon, mounted' \in BOOLEAN, visits' \in 0..MaxVisits \cup {1}
  PROVE  TypeOK'
  <1>1. FirstFetch \in [pages : Nat, got : Seq(App), next : Nat]
    BY DEF FirstFetch
  <1>2. [a \in App |-> Undecided] \in [App -> Entry]
    BY DEF Undecided, Entry
  <1>3. \A c \in calls : c \in Call
    BY DEF TypeOK
  <1>4. calls' \subseteq Call
    BY <1>3, CallOrphaned DEF Abandon
  <1>5. doubtful' \subseteq App
    BY <1>3 DEF TypeOK, Abandon, Call
  <1>6. QED
    BY <1>1, <1>2, <1>4, <1>5, EmptySeq DEF Fresh, Abandon, TypeOK

LEMMA RetractType ==
  ASSUME TypeOK, NEW a \in App, NEW back \in Nat \cup {none}, Retract(a, back)
  PROVE  TypeOK'
  <1>1. Undecided \in Entry /\ decisions[a] \in Entry /\ "NEW" \in Status
    BY DEF TypeOK, Undecided, Entry, Status
  <1>2. calls' \subseteq Call /\ sent' \in Nat /\ server' = server /\ doubtful' \subseteq App
    BY <1>1, SendType DEF Retract
  <1>3. decisions' \in [App -> Entry] /\ undoFor' \in {none} \cup Undo /\ index' \in Nat
    BY <1>1 DEF TypeOK, Retract
  <1>4. QED
    BY <1>2, <1>3 DEF TypeOK, Retract, page, queue, carousel

LEMMA CallsType ==
  ASSUME TypeOK, NEW c \in calls, Serve(c) \/ Refuse(c) \/ LoseAnswer(c) \/ Answer(c)
  PROVE  TypeOK'
  <1>1. c \in Call
    BY DEF TypeOK
  <1>2. CASE Serve(c)
    <2>1. [c EXCEPT !.at = "done"] \in Call
      BY <1>1, CallBecomes
    <2>2. calls' \subseteq Call
      BY <1>2, <2>1 DEF Serve, Become, TypeOK
    <2>3. server' \in [App -> Status] /\ doubtful' \subseteq App
      BY <1>1, <1>2 DEF Serve, TypeOK, Call
    <2>4. QED
      BY <1>2, <2>2, <2>3 DEF Serve, TypeOK, page, queue, session, carousel
  <1>3. CASE Refuse(c)
    <2>1. [c EXCEPT !.at = "failed"] \in Call
      BY <1>1, CallBecomes
    <2>2. calls' \subseteq Call
      BY <1>3, <2>1 DEF Refuse, Become, TypeOK
    <2>3. server' \in [App -> Status] /\ doubtful' \subseteq App
      BY <1>1, <1>3 DEF Refuse, TypeOK, Call
    <2>4. QED
      BY <1>3, <2>2, <2>3 DEF Refuse, TypeOK, page, queue, session, carousel
  <1>4. CASE LoseAnswer(c)
    <2>1. [c EXCEPT !.at = "failed"] \in Call
      BY <1>1, CallBecomes
    <2>2. calls' \subseteq Call
      BY <1>4, <2>1 DEF LoseAnswer, Become, TypeOK
    <2>3. server' \in [App -> Status] /\ doubtful' \subseteq App
      BY <1>1, <1>4 DEF LoseAnswer, TypeOK, Call
    <2>4. QED
      BY <1>4, <2>2, <2>3 DEF LoseAnswer, TypeOK, page, queue, session, carousel
  <1>5. CASE Answer(c)
    <2>1. decisions' \in [App -> Entry] /\ undoFor' \in {none} \cup Undo
      <3>1. Undecided \in Entry /\ c.snapshot \in Entry /\ c.app \in App
        BY <1>1 DEF Undecided, Entry, Call
      <3>2. CASE UNCHANGED <<decisions, undoFor>>
        BY <3>2 DEF TypeOK
      <3>3. CASE RollBackRetract(c.app, c.snapshot)
        BY <3>1, <3>3 DEF TypeOK, RollBackRetract
      <3>4. CASE RollBackDecision(c.app)
        BY <3>1, <3>4 DEF TypeOK, RollBackDecision
      <3>5. QED
        BY <1>5, <3>2, <3>3, <3>4 DEF Answer
    <2>2. QED
      BY <1>5, <2>1 DEF TypeOK, Answer, page, queue, carousel
  <1>6. QED
    BY <1>2, <1>3, <1>4, <1>5

LEMMA LoadType ==
  ASSUME TypeOK, LoadPage \/ LoadFails \/ Reload
  PROVE  TypeOK'
  <1>1. CASE LoadPage
    <2>1. PICK at \in InOrder(NewFrom(load.next)) :
            LET p    == ServerPage(at)
                got  == load.got \o p.rows
                more == p.next # none /\ load.pages + 1 < MaxPages
            IN  IF more
                THEN /\ load' = [pages |-> load.pages + 1, got |-> got, next |-> p.next]
                     /\ UNCHANGED <<items, isLoading, error>>
                ELSE /\ load' = none
                     /\ items' = got /\ isLoading' = FALSE /\ error' = FALSE
      BY <1>1 DEF LoadPage
    <2>2. PICK from \in Nat : from = load.next
      BY <1>1 DEF LoadPage, TypeOK
    <2>3. /\ ServerPage(at).rows \in Seq(App)
          /\ ServerPage(at).next # none => ServerPage(at).next \in Nat
      BY <2>1, <2>2, PageRows
    <2>4. load.got \in Seq(App) /\ load.pages \in Nat
      BY <1>1 DEF LoadPage, TypeOK
    <2>5. load.got \o ServerPage(at).rows \in Seq(App)
      BY <2>3, <2>4
    <2>6. /\ items' \in Seq(App) /\ isLoading' \in BOOLEAN /\ error' \in BOOLEAN
          /\ load' \in {none} \cup [pages : Nat, got : Seq(App), next : Nat]
      <3> DEFINE p == ServerPage(at)  got == load.got \o p.rows  n == load.pages + 1
                 last == p.next
      <3>1. n \in Nat /\ got \in Seq(App) /\ (last # none => last \in Nat)
        BY <2>3, <2>4, <2>5
      <3>2. \/ /\ last # none /\ load' = [pages |-> n, got |-> got, next |-> last]
               /\ UNCHANGED <<items, isLoading, error>>
            \/ load' = none /\ items' = got /\ isLoading' = FALSE /\ error' = FALSE
        BY <2>1
      <3> HIDE DEF got, n, last
      <3>3. CASE last # none /\ load' = [pages |-> n, got |-> got, next |-> last]
                 /\ UNCHANGED <<items, isLoading, error>>
        <4>1. load' \in [pages : Nat, got : Seq(App), next : Nat]
          BY <3>1, <3>3
        <4>2. QED
          BY <3>3, <4>1 DEF TypeOK
      <3>4. CASE load' = none /\ items' = got /\ isLoading' = FALSE /\ error' = FALSE
        BY <3>1, <3>4
      <3>5. QED
        BY <3>2, <3>3, <3>4
    <2>7. QED
      BY <1>1, <2>6 DEF LoadPage, TypeOK, page, session, carousel, network
  <1>2. CASE LoadFails
    BY <1>2, EmptySeq DEF LoadFails, TypeOK, page, session, carousel, network
  <1>3. CASE Reload
    <2>1. FirstFetch \in [pages : Nat, got : Seq(App), next : Nat]
      BY DEF FirstFetch
    <2>2. QED
      BY <1>3, <2>1 DEF Reload, TypeOK, page, session, carousel, network
  <1>4. QED
    BY <1>1, <1>2, <1>3

LEMMA DecidingType ==
  ASSUME TypeOK, Deciding
  PROVE  TypeOK'
  <1>1. ASSUME NEW d \in Decision, Decide(d) PROVE TypeOK'
    <2>1. PICK a \in App : a = current
      BY <1>1, ShownCandidates DEF Decide
    <2>2. Undecided \in Entry /\ d \in Status
      BY DEF Undecided, Entry, Status
    <2>3. Send(a, d, Undecided)
      BY <1>1, <2>1 DEF Decide
    <2>4. calls' \subseteq Call /\ sent' \in Nat /\ server' = server /\ doubtful' \subseteq App
      BY <2>2, <2>3, SendType
    <2>5. decisions' \in [App -> Entry] /\ undoFor' \in Undo
      BY <1>1, <2>1 DEF Decide, TypeOK, Entry, Undo
    <2>6. flying' \in {"none", "next", "prev"} /\ timer' \in BOOLEAN
      BY <1>1 DEF Decide, SlideTo, SlideEffect, TypeOK
    <2>7. QED
      BY <1>1, <2>4, <2>5, <2>6 DEF Decide, TypeOK, page, queue
  <1>2. CASE UndoLast
    <2>1. PICK u \in Undo : u = undoFor
      BY <1>2 DEF UndoLast, TypeOK
    <2>2. Retract(u.app, u.prevIndex) /\ u.app \in App /\ u.prevIndex \in Nat
      BY <1>2, <2>1 DEF UndoLast, Undo
    <2>3. QED
      BY <2>2, RetractType
  <1>3. CASE UndoExpires
    BY <1>3 DEF UndoExpires, TypeOK, page, queue, carousel, network
  <1>4. ASSUME NEW a \in {prevApp, current, nextApp}, ClearDecision(a) PROVE TypeOK'
    <2>1. a # none
      BY <1>4 DEF ClearDecision, CardOffers
    <2>2. PICK b \in App : b = a
      BY <2>1, ShownCandidates
    <2>3. Retract(b, none)
      BY <1>4, <2>2 DEF ClearDecision
    <2>4. QED
      BY <2>3, RetractType
  <1>5. QED
    BY <1>1, <1>2, <1>3, <1>4 DEF Deciding

LEMMA BrowsingType ==
  ASSUME TypeOK, SessionInv, Browsing
  PROVE  TypeOK'
  <1> USE DEF TypeOK, page, queue, session, carousel, network
  <1>1. ASSUME NEW dir \in {"next", "prev"}, Step(dir) PROVE TypeOK'
    BY <1>1 DEF Step, SlideTo, SlideEffect
  <1>2. ASSUME NEW i \in DOMAIN items, JumpTo(StripItems[i]) PROVE TypeOK'
    <2>1. StripItems[i].jump = i - 1 /\ i \in Nat \ {0}
      BY DEF StripItems
    <2>2. QED
      BY <1>2, <2>1 DEF JumpTo
  <1>3. CASE CommitSlide
    <2>1. index' \in Nat
      BY <1>3, ShownIsListed DEF CommitSlide, SessionInv, NothingShown
    <2>2. QED
      BY <1>3, <2>1 DEF CommitSlide
  <1>4. CASE EndSwap
    BY <1>4 DEF EndSwap
  <1>5. CASE TouchStart \/ TouchMove
    BY <1>5 DEF TouchStart, TouchMove
  <1>6. CASE TouchEnd
    <2>1. flying' \in {"next", "prev", flying}
      BY <1>6 DEF TouchEnd
    <2>2. timer' \in BOOLEAN
      BY <1>6 DEF TouchEnd, SlideEffect
    <2>3. QED
      BY <1>6, <2>1, <2>2 DEF TouchEnd
  <1>7. CASE OpenResume \/ CloseResume
    BY <1>7 DEF OpenResume, CloseResume
  <1>8. QED
    BY <1>1, <1>2, <1>3, <1>4, <1>5, <1>6, <1>7 DEF Browsing

LEMMA NextType == TypeOK /\ SessionInv /\ [Next]_vars => TypeOK'
  <1> SUFFICES ASSUME TypeOK, SessionInv, [Next]_vars PROVE TypeOK'
    OBVIOUS
  <1>1. CASE UNCHANGED vars
    BY <1>1 DEF TypeOK, vars, page, queue, session, carousel, network
  <1>2. CASE Mount
    BY <1>2, BoundAssumption DEF Mount, TypeOK, queue, session, carousel, network
  <1>3. CASE Leave
    BY <1>3, FreshType DEF Leave, TypeOK
  <1>4. CASE StartNewReview
    <2>1. visits' \in 0..MaxVisits \cup {1} /\ mounted' \in BOOLEAN
      BY <1>4, BoundAssumption DEF StartNewReview, TypeOK
    <2>2. QED
      BY <1>4, <2>1, FreshType DEF StartNewReview
  <1>5. QED
    BY <1>1, <1>2, <1>3, <1>4, LoadType, DecidingType, BrowsingType, CallsType DEF Next, Network

-----------------------------------------------------------------------------
(* What the page shows stays within its queue.                              *)

LEMMA InitSession == Init => SessionInv
  BY DEF Init, SessionInv, NothingShown, EntryOK, Undecided, total

(* Steps that leave the queue and the session alone.                        *)
LEMMA SessionKept ==
  ASSUME SessionInv, UNCHANGED <<items, load, error, index, decisions>>,
         undoFor' \in {undoFor, none},
         total = 0 => flying' = flying,
         UNCHANGED <<flying, timer>> \/ ~timer' \/ flying' # "none",
         \A c \in calls' : c.orphan \/ \E d \in calls : ~d.orphan /\ c.snapshot = d.snapshot
  PROVE  SessionInv'
  BY DEF SessionInv, NothingShown, EntryOK, Decided, total

LEMMA FreshSession ==
  ASSUME TypeOK, Fresh, Abandon
  PROVE  SessionInv'
  <1>1. \A c \in calls : c \in Call
    BY DEF TypeOK
  <1>2. \A c \in calls' : c.orphan
    BY <1>1, CallOrphaned DEF Abandon
  <1>3. total' = 0
    BY DEF Fresh, total
  <1>4. QED
    BY <1>2, <1>3 DEF Fresh, SessionInv, NothingShown, EntryOK, Undecided

LEMMA RetractSession ==
  ASSUME TypeOK, SessionInv, NEW a \in App, Decided(a),
         NEW back \in Nat \cup {none}, back # none => back < total, Retract(a, back)
  PROVE  SessionInv'
  <1>1. total' = total /\ total > 0
    BY ShownIsListed DEF Retract, queue, total, SessionInv, NothingShown, Decided, Undecided
  <1>2. index' < total
    BY <1>1 DEF Retract, SessionInv
  <1>3. /\ decisions'[a] = Undecided
        /\ \A b \in App \ {a} : decisions'[b] = decisions[b]
    BY DEF Retract, TypeOK
  <1>4. \A b \in App : EntryOK(decisions[b])'
    BY <1>1, <1>3 DEF EntryOK, SessionInv, Undecided
  <1>5. (undoFor # none => undoFor.prevIndex < total /\ Decided(undoFor.app))'
    BY <1>1, <1>3 DEF Retract, SessionInv, Decided, TypeOK, Undo
  <1>6. \A c \in calls' : ~c.orphan => EntryOK(c.snapshot)'
    <2>1. \A c \in calls' : c \in calls \/ c.snapshot = decisions[a]
      BY DEF Retract, Send
    <2>2. QED
      BY <1>1, <2>1 DEF SessionInv, EntryOK
  <1>7. QED
    BY <1>1, <1>2, <1>4, <1>5, <1>6 DEF SessionInv, Retract, queue, carousel

LEMMA DecideSession ==
  ASSUME TypeOK, SessionInv, NEW d \in Decision, Decide(d)
  PROVE  SessionInv'
  <1>1. PICK a \in App : a = current /\ index < total
    BY ShownCandidates DEF Decide
  <1>2. total' = total /\ total > 0
    BY <1>1, ShownIsListed DEF Decide, queue, total, TypeOK
  <1>3. /\ decisions'[a] = [decision |-> d, prevIndex |-> index]
        /\ \A b \in App \ {a} : decisions'[b] = decisions[b]
        /\ undoFor' = [app |-> a, prevIndex |-> index]
    BY <1>1 DEF Decide, TypeOK
  <1>4. \A b \in App : EntryOK(decisions[b])'
    BY <1>1, <1>2, <1>3 DEF EntryOK, SessionInv, Undecided
  <1>5. (undoFor.prevIndex < total /\ Decided(undoFor.app))'
    BY <1>1, <1>2, <1>3 DEF Decided, Decision
  <1>6. \A c \in calls' : ~c.orphan => EntryOK(c.snapshot)'
    <2>1. \A c \in calls' : c \in calls \/ c.snapshot = Undecided
      BY DEF Decide, Send
    <2>2. QED
      BY <1>2, <2>1 DEF SessionInv, EntryOK, Undecided
  <1>7. timer' => flying' # "none"
    BY <1>2 DEF Decide, SlideTo, SlideEffect, Sliding, SessionInv
  <1>8. QED
    BY <1>1, <1>2, <1>4, <1>5, <1>6, <1>7 DEF SessionInv, Decide, queue

LEMMA CallsSession ==
  ASSUME TypeOK, SessionInv, NEW c \in calls, Serve(c) \/ Refuse(c) \/ LoseAnswer(c) \/ Answer(c)
  PROVE  SessionInv'
  <1>1. c \in Call
    BY DEF TypeOK
  <1>2. CASE Serve(c) \/ Refuse(c) \/ LoseAnswer(c)
    <2>1. PICK v \in {"done", "failed"} : Become(c, v)
      BY <1>2 DEF Serve, Refuse, LoseAnswer
    <2>2. /\ [c EXCEPT !.at = v].orphan = c.orphan
          /\ [c EXCEPT !.at = v].snapshot = c.snapshot
      BY <1>1, CallBecomes
    <2>3. \A e \in calls' : e.orphan \/ \E d \in calls : ~d.orphan /\ e.snapshot = d.snapshot
      BY <2>1, <2>2, <1>1 DEF Become
    <2>4. UNCHANGED <<items, load, error, index, decisions, undoFor, flying, timer>>
      BY <1>2 DEF Serve, Refuse, LoseAnswer, queue, session, carousel
    <2>5. QED
      BY <2>3, <2>4, SessionKept
  <1>3. CASE Answer(c)
    <2>1. calls' \subseteq calls /\ UNCHANGED <<items, load, error, index, flying, timer>>
      BY <1>3 DEF Answer, queue, carousel
    <2>2. total' = total
      BY <2>1 DEF total
    <2>3. CASE UNCHANGED <<decisions, undoFor>>
      BY <2>1, <2>3, SessionKept
    <2>4. ASSUME ~c.orphan,
               \/ RollBackDecision(c.app)
               \/ (RollBackRetract(c.app, c.snapshot) /\ c.snapshot # Undecided)
          PROVE  SessionInv'
      <3>1. PICK a \in App : a = c.app
        BY <1>1 DEF Call
      <3>2. total # 0 /\ EntryOK(c.snapshot)
        BY <2>4 DEF SessionInv, NothingShown
      <3>3. /\ \A b \in App \ {a} : decisions'[b] = decisions[b]
            /\ \/ decisions'[a] = Undecided /\ (undoFor' = none \/ (undoFor' = undoFor /\ undoFor.app # a))
               \/ decisions'[a] = c.snapshot /\ c.snapshot # Undecided /\ undoFor' = undoFor
        <4>1. CASE RollBackDecision(c.app)
          <5>1. /\ decisions' = [decisions EXCEPT ![a] = Undecided]
                /\ undoFor' = none \/ (undoFor' = undoFor /\ undoFor.app # a)
            BY <3>1, <4>1 DEF RollBackDecision
          <5>2. decisions'[a] = Undecided /\ \A b \in App \ {a} : decisions'[b] = decisions[b]
            BY <5>1 DEF TypeOK
          <5>3. QED
            BY <5>1, <5>2
        <4>2. CASE RollBackRetract(c.app, c.snapshot) /\ c.snapshot # Undecided
          <5>1. decisions' = [decisions EXCEPT ![a] = c.snapshot] /\ undoFor' = undoFor
            BY <3>1, <4>2 DEF RollBackRetract
          <5>2. decisions'[a] = c.snapshot /\ \A b \in App \ {a} : decisions'[b] = decisions[b]
            BY <5>1 DEF TypeOK
          <5>3. QED
            BY <4>2, <5>1, <5>2
        <4>3. QED
          BY <2>4, <4>1, <4>2
      <3>4. \A b \in App : EntryOK(decisions[b])'
        BY <2>2, <3>2, <3>3 DEF EntryOK, SessionInv, Undecided
      <3>5. (undoFor # none => undoFor.prevIndex < total /\ Decided(undoFor.app))'
        BY <2>2, <3>2, <3>3 DEF SessionInv, Decided, EntryOK, Decision, TypeOK, Undo
      <3>6. \A e \in calls' : ~e.orphan => EntryOK(e.snapshot)'
        BY <2>1, <2>2 DEF SessionInv, EntryOK, Undecided
      <3>7. QED
        BY <2>1, <2>2, <3>2, <3>4, <3>5, <3>6 DEF SessionInv
    <2>5. ASSUME RollBackRetract(c.app, c.snapshot), c.snapshot = Undecided
          PROVE  UNCHANGED <<decisions, undoFor>>
      BY <2>5 DEF RollBackRetract
    <2>6. \/ UNCHANGED <<decisions, undoFor>>
          \/ ~c.orphan /\ RollBackDecision(c.app)
          \/ ~c.orphan /\ RollBackRetract(c.app, c.snapshot)
      BY <1>3 DEF Answer
    <2>7. CASE ~c.orphan /\ RollBackDecision(c.app)
      BY <2>4, <2>7
    <2>8. CASE ~c.orphan /\ RollBackRetract(c.app, c.snapshot)
      <3>1. CASE c.snapshot = Undecided
        BY <2>3, <2>5, <2>8, <3>1
      <3>2. CASE c.snapshot # Undecided
        BY <2>4, <2>8, <3>2
      <3>3. QED
        BY <3>1, <3>2
    <2>9. QED
      BY <2>3, <2>6, <2>7, <2>8
  <1>4. QED
    BY <1>2, <1>3

LEMMA LoadSession ==
  ASSUME TypeOK, SessionInv, TypeOK', LoadPage \/ LoadFails \/ Reload
  PROVE  SessionInv'
  <1>1. total \in Nat /\ total' \in Nat
    BY ShownIsListed DEF TypeOK, total
  <1>2. NothingShown
    BY DEF LoadPage, LoadFails, Reload, RenderGate, SessionInv
  <1>3. NothingShown'
    BY <1>2 DEF NothingShown, LoadPage, LoadFails, Reload, session, carousel, network
  <1>4. load' # none \/ error' => total' = 0
    BY DEF LoadPage, LoadFails, Reload, RenderGate, SessionInv, total
  <1>5. timer' => flying' # "none"
    BY DEF LoadPage, LoadFails, Reload, carousel, SessionInv
  <1>6. QED
    BY <1>1, <1>3, <1>4, <1>5 DEF SessionInv, NothingShown, EntryOK, Undecided

LEMMA DecidingSession ==
  ASSUME TypeOK, SessionInv, Deciding
  PROVE  SessionInv'
  <1>1. CASE UndoLast
    <2>1. PICK u \in Undo : u = undoFor /\ undoFor # none
      BY <1>1 DEF UndoLast, TypeOK
    <2>2. u.app \in App /\ u.prevIndex \in Nat /\ u.prevIndex < total /\ Decided(u.app)
      BY <2>1 DEF Undo, SessionInv
    <2>3. Retract(u.app, u.prevIndex)
      BY <1>1, <2>1 DEF UndoLast
    <2>4. QED
      BY <2>2, <2>3, RetractSession
  <1>2. CASE UndoExpires
    <2>1. UNCHANGED <<items, load, error, index, decisions, flying, timer, calls>> /\ undoFor' = none
      BY <1>2 DEF UndoExpires, queue, carousel, network
    <2>2. QED
      <3>1. \A c \in calls' : c.orphan \/ \E d \in calls : ~d.orphan /\ c.snapshot = d.snapshot
        BY <2>1
      <3>2. QED
        BY <2>1, <3>1, SessionKept
  <1>3. ASSUME NEW a \in {prevApp, current, nextApp}, ClearDecision(a) PROVE SessionInv'
    <2>1. a # none /\ Decided(a)
      BY <1>3 DEF ClearDecision, CardOffers
    <2>2. PICK b \in App : b = a
      BY <2>1, ShownCandidates
    <2>3. Retract(b, none) /\ Decided(b)
      BY <1>3, <2>1, <2>2 DEF ClearDecision
    <2>4. QED
      BY <2>3, RetractSession
  <1>4. QED
    BY <1>1, <1>2, <1>3, DecideSession DEF Deciding

LEMMA BrowsingSession ==
  ASSUME TypeOK, SessionInv, Browsing
  PROVE  SessionInv'
  <1> USE DEF page, queue, session, carousel, network
  <1>1. total \in Nat /\ index \in Nat
    BY ShownIsListed DEF TypeOK
  <1>2. ASSUME UNCHANGED <<queue, session, network>>, total = 0 => flying' = flying,
               UNCHANGED <<flying, timer>> \/ ~timer' \/ flying' # "none"
        PROVE  SessionInv'
    <2>1. \A c \in calls' : c.orphan \/ \E d \in calls : ~d.orphan /\ c.snapshot = d.snapshot
      BY <1>2
    <2>2. QED
      BY <1>2, <2>1, SessionKept
  <1>3. ASSUME UNCHANGED <<queue, decisions, undoFor, network>>, flying' \in {flying, "none"},
               timer' => flying' # "none", total > 0, index' < total
        PROVE  SessionInv'
    <2>1. total' = total
      BY <1>3 DEF total
    <2>2. QED
      BY <1>1, <1>3, <2>1 DEF SessionInv, EntryOK, Decided, Undecided
  <1>4. ASSUME NEW dir \in {"next", "prev"}, Step(dir) PROVE SessionInv'
    <2>1. total = 0 => flying' = flying
      BY <1>1, <1>4 DEF Step, SlideTo, SessionInv, NothingShown
    <2>2. flying' # "none"
      BY <1>4 DEF Step, SlideTo
    <2>3. QED
      BY <1>2, <1>4, <2>1, <2>2 DEF Step
  <1>5. ASSUME NEW i \in DOMAIN items, JumpTo(StripItems[i]) PROVE SessionInv'
    <2>1. StripItems[i].jump = i - 1 /\ i \in 1 .. total
      BY DEF StripItems, total, TypeOK
    <2>2. QED
      BY <1>1, <1>3, <1>5, <2>1 DEF JumpTo, SessionInv
  <1>6. CASE CommitSlide
    <2>1. total > 0 /\ index' < total
      BY <1>1, <1>6 DEF CommitSlide, SessionInv, NothingShown
    <2>2. QED
      BY <1>3, <1>6, <2>1 DEF CommitSlide
  <1>7. CASE EndSwap \/ TouchStart \/ TouchMove \/ OpenResume \/ CloseResume
    BY <1>2, <1>7 DEF EndSwap, TouchStart, TouchMove, OpenResume, CloseResume
  <1>8. CASE TouchEnd
    <2>1. total = 0 => nextApp = none /\ prevApp = none
      BY <1>1, ShownIsListed DEF nextApp, prevApp
    <2>2. nextApp = none /\ prevApp = none => flying' = flying
      BY <1>8 DEF TouchEnd
    <2>3. UNCHANGED <<flying, timer>> \/ ~timer' \/ flying' # "none"
      BY <1>8 DEF TouchEnd, SlideEffect
    <2>4. QED
      BY <1>2, <1>8, <2>1, <2>2, <2>3 DEF TouchEnd
  <1>9. QED
    BY <1>4, <1>5, <1>6, <1>7, <1>8 DEF Browsing

LEMMA NextSession == TypeOK /\ SessionInv /\ [Next]_vars => SessionInv'
  <1> SUFFICES ASSUME TypeOK, SessionInv, [Next]_vars PROVE SessionInv'
    OBVIOUS
  <1>1. TypeOK'
    BY NextType
  <1>2. CASE UNCHANGED vars \/ Mount
    <2>1. UNCHANGED <<items, load, error, index, decisions, undoFor, flying, timer, calls>>
      BY <1>2 DEF Mount, vars, queue, session, carousel, network
    <2>2. \A c \in calls' : c.orphan \/ \E d \in calls : ~d.orphan /\ c.snapshot = d.snapshot
      BY <2>1
    <2>3. QED
      BY <2>1, <2>2, SessionKept
  <1>3. CASE Leave \/ StartNewReview
    BY <1>3, FreshSession DEF Leave, StartNewReview
  <1>4. QED
    BY <1>1, <1>2, <1>3, LoadSession, DecidingSession, BrowsingSession, CallsSession
       DEF Next, Network

-----------------------------------------------------------------------------
(* What is saved.                                                           *)

LEMMA InitSaved == Init => SavedInv
  BY DEF Init, SavedInv, Saved, Outstanding, Decided, Undecided

(* A step that leaves a candidate and its updates alone.                   *)
LEMMA SavedStays ==
  ASSUME NEW a \in App, Saved(a), decisions'[a] = decisions[a], server'[a] = server[a],
         \A c : c.app = a => (c \in calls' <=> c \in calls)
  PROVE  Saved(a)'
  <1>1. (Outstanding(a))' <=> Outstanding(a)
    BY DEF Outstanding
  <1>2. \A c \in calls' : c.app = a => ~c.orphan /\ (AboutShown(c))'
    BY DEF Saved, AboutShown
  <1>3. QED
    BY <1>1, <1>2 DEF Saved, Decided

(* A status update is sent: about what the page now shows, unless another  *)
(* one is under way for the candidate.                                      *)
LEMMA SendSaved ==
  ASSUME TypeOK, SavedInv, NEW a \in App, NEW status \in Status, NEW snapshot \in Entry,
         Send(a, status, snapshot),
         \A b \in App \ {a} : decisions'[b] = decisions[b],
         a \notin doubtful /\ ~Outstanding(a) =>
           IF status = "NEW"
           THEN /\ decisions'[a] = Undecided
                /\ snapshot = Undecided \/ server[a] = snapshot.decision
           ELSE decisions'[a].decision = status
  PROVE  SavedInv'
  <1>1. PICK c : /\ c.app = a /\ c.status = status /\ c.snapshot = snapshot
                 /\ ~c.orphan /\ c.at = "sent"
                 /\ calls' = calls \cup {c}
    BY DEF Send
  <1>2. server' = server /\ doubtful \subseteq doubtful'
        /\ (Outstanding(a) => a \in doubtful')
    BY DEF Send
  <1>3. ASSUME NEW b \in App, b \notin doubtful', b # a PROVE Saved(b)'
    <2>1. Saved(b)
      BY <1>2, <1>3 DEF SavedInv
    <2>2. \A e : e.app = b => (e \in calls' <=> e \in calls)
      BY <1>1, <1>3
    <2>3. QED
      BY <1>2, <1>3, <2>1, <2>2, SavedStays
  <1>4. ASSUME a \notin doubtful' PROVE Saved(a)'
    <2>1. a \notin doubtful /\ \A d \in calls : d.app # a
      BY <1>2, <1>4 DEF Outstanding
    <2>2. \A d \in calls' : d.app = a => d = c
      BY <1>1, <2>1
    <2>3. (AboutShown(c))'
      BY <1>1, <1>2, <2>1 DEF AboutShown, Outstanding
    <2>4. (Outstanding(a))'
      BY <1>1 DEF Outstanding
    <2>5. QED
      BY <1>1, <2>2, <2>3, <2>4 DEF Saved
  <1>5. QED
    BY <1>3, <1>4 DEF SavedInv

LEMMA RetractSaved ==
  ASSUME TypeOK, SavedInv, NEW a \in App, Decided(a), NEW back, Retract(a, back)
  PROVE  SavedInv'
  <1>1. decisions' = [decisions EXCEPT ![a] = Undecided] /\ Send(a, "NEW", decisions[a])
    BY DEF Retract
  <1>2. decisions'[a] = Undecided /\ \A b \in App \ {a} : decisions'[b] = decisions[b]
    BY <1>1 DEF TypeOK
  <1>3. decisions[a] \in Entry /\ "NEW" \in Status
    BY DEF TypeOK, Status
  <1>4. a \notin doubtful /\ ~Outstanding(a) =>
          server[a] = decisions[a].decision
    BY DEF SavedInv, Saved
  <1>5. QED
    BY <1>1, <1>2, <1>3, <1>4, SendSaved

LEMMA DecidingSaved ==
  ASSUME TypeOK, SessionInv, SavedInv, Deciding
  PROVE  SavedInv'
  <1>1. ASSUME NEW d \in Decision, Decide(d) PROVE SavedInv'
    <2>1. PICK a \in App : a = current
      BY <1>1, ShownCandidates DEF Decide
    <2>2. Undecided \in Entry /\ d \in Status /\ d # "NEW"
      BY DEF Undecided, Entry, Status, Decision
    <2>3. /\ decisions' = [decisions EXCEPT ![a] = [decision |-> d, prevIndex |-> index]]
          /\ Send(a, d, Undecided)
      BY <1>1, <2>1 DEF Decide
    <2>4. decisions'[a].decision = d /\ \A b \in App \ {a} : decisions'[b] = decisions[b]
      BY <2>3 DEF TypeOK
    <2>5. QED
      BY <2>2, <2>3, <2>4, SendSaved
  <1>2. CASE UndoLast
    <2>1. PICK u \in Undo : u = undoFor /\ undoFor # none
      BY <1>2 DEF UndoLast, TypeOK
    <2>2. u.app \in App /\ Decided(u.app)
      BY <2>1 DEF Undo, SessionInv
    <2>3. Retract(u.app, u.prevIndex)
      BY <1>2, <2>1 DEF UndoLast
    <2>4. QED
      BY <2>2, <2>3, RetractSaved
  <1>3. CASE UndoExpires
    <2>1. UNCHANGED <<decisions, calls, server, doubtful>>
      BY <1>3 DEF UndoExpires, network
    <2>2. QED
      BY <2>1, SavedStays DEF SavedInv
  <1>4. ASSUME NEW a \in {prevApp, current, nextApp}, ClearDecision(a) PROVE SavedInv'
    <2>1. a # none /\ Decided(a)
      BY <1>4 DEF ClearDecision, CardOffers
    <2>2. PICK b \in App : b = a
      BY <2>1, ShownCandidates
    <2>3. Retract(b, none) /\ Decided(b)
      BY <1>4, <2>1, <2>2 DEF ClearDecision
    <2>4. QED
      BY <2>3, RetractSaved
  <1>5. QED
    BY <1>1, <1>2, <1>3, <1>4 DEF Deciding

(* An update is carried out, refused or answered.                           *)
LEMMA CallsSaved ==
  ASSUME TypeOK, SavedInv, NEW c \in calls, Serve(c) \/ Refuse(c) \/ LoseAnswer(c) \/ Answer(c)
  PROVE  SavedInv'
  <1>1. c \in Call /\ c.app \in App /\ c.status \in Status
    BY DEF TypeOK, Call
  <1>2. \A b \in App \ {c.app} : decisions'[b] = decisions[b] /\ server'[b] = server[b]
    BY <1>1 DEF Serve, Refuse, LoseAnswer, Answer, RollBackDecision, RollBackRetract, TypeOK, session
  <1>3. doubtful \subseteq doubtful'
    BY DEF Serve, Refuse, LoseAnswer, Answer
  <1>4. \A e : e.app # c.app => (e \in calls' <=> e \in calls)
    <2>1. CASE Answer(c)
      BY <2>1 DEF Answer
    <2>2. CASE Serve(c) \/ Refuse(c) \/ LoseAnswer(c)
      <3>1. PICK v \in {"done", "failed"} : Become(c, v)
        BY <2>2 DEF Serve, Refuse, LoseAnswer
      <3>2. [c EXCEPT !.at = v].app = c.app
        BY <1>1, CallBecomes
      <3>3. QED
        BY <3>1, <3>2 DEF Become
    <2>3. QED
      BY <2>1, <2>2
  <1>5. ASSUME NEW b \in App, b \notin doubtful', b # c.app PROVE Saved(b)'
    <2>1. Saved(b)
      BY <1>3, <1>5 DEF SavedInv
    <2>2. \A e : e.app = b => (e \in calls' <=> e \in calls)
      BY <1>4, <1>5
    <2>3. QED
      BY <1>2, <1>5, <2>1, <2>2, SavedStays
  <1>6. ASSUME c.app \notin doubtful' PROVE Saved(c.app)'
    <2>1. PICK a \in App : a = c.app
      BY <1>1
    <2>2. /\ \A d \in calls : d.app = a => d = c
          /\ ~c.orphan /\ AboutShown(c)
      BY <1>3, <1>6, <2>1 DEF SavedInv, Saved
    <2>3. ASSUME NEW v \in {"done", "failed"}, Become(c, v), UNCHANGED decisions,
                 IF v = "done" THEN server'[a] = c.status
                               ELSE server' = server /\ c.at = "sent"
          PROVE  Saved(a)'
      <3>1. PICK e \in Call : e = [c EXCEPT !.at = v]
        BY <1>1, CallBecomes
      <3>2. /\ e.at = v /\ e.app = a /\ e.status = c.status /\ e.snapshot = c.snapshot
            /\ ~e.orphan
        BY <1>1, <2>1, <2>2, <3>1, CallBecomes
      <3>3. \A d \in calls' : d.app = a => d = e
        BY <2>2, <2>3, <3>1 DEF Become
      <3>4. e \in calls'
        BY <2>3, <3>1 DEF Become
      <3>5. (AboutShown(e))'
        BY <2>1, <2>2, <2>3, <3>2 DEF AboutShown
      <3>6. (Outstanding(a))'
        BY <3>2, <3>4 DEF Outstanding
      <3>7. QED
        BY <3>2, <3>3, <3>5, <3>6 DEF Saved
    <2>4. CASE Serve(c)
      <3>1. server' = [server EXCEPT ![a] = c.status] /\ Become(c, "done") /\ UNCHANGED decisions
        BY <2>1, <2>4 DEF Serve, session
      <3>2. server'[a] = c.status
        BY <3>1 DEF TypeOK
      <3>3. QED
        BY <2>1, <2>3, <3>1, <3>2
    <2>5. CASE Refuse(c)
      BY <2>1, <2>3, <2>5 DEF Refuse, session
    <2>6. CASE LoseAnswer(c)
      BY <1>6, <2>6 DEF LoseAnswer
    <2>7. CASE Answer(c)
      <3>1. calls' = calls \ {c} /\ server' = server /\ c.at \in {"done", "failed"}
        BY <2>7 DEF Answer
      <3>2. \A d \in calls' : d.app # a
        BY <2>2, <3>1
      <3>3. (Decided(a) => server[a] = decisions[a].decision)'
        <4>1. CASE c.at = "done"
          BY <2>1, <2>2, <2>7, <3>1, <4>1 DEF Answer, AboutShown, Decided, Undecided
        <4>2. CASE c.at = "failed" /\ c.status = "NEW"
          <5>1. RollBackRetract(a, c.snapshot)
            BY <2>1, <2>2, <2>7, <4>2 DEF Answer
          <5>2. decisions[a] = Undecided
                /\ (c.snapshot = Undecided \/ server[a] = c.snapshot.decision)
            BY <2>1, <2>2, <4>2 DEF AboutShown
          <5>3. CASE c.snapshot = Undecided
            BY <5>1, <5>2, <5>3 DEF RollBackRetract, Decided, Undecided
          <5>4. CASE c.snapshot # Undecided
            <6>1. decisions' = [decisions EXCEPT ![a] = c.snapshot]
              BY <5>1, <5>4 DEF RollBackRetract
            <6>2. decisions'[a] = c.snapshot
              BY <6>1 DEF TypeOK
            <6>3. QED
              BY <3>1, <5>2, <5>4, <6>2 DEF Decided
          <5>5. QED
            BY <5>3, <5>4
        <4>3. CASE c.at = "failed" /\ c.status # "NEW"
          <5>1. decisions' = [decisions EXCEPT ![a] = Undecided]
            BY <2>1, <2>2, <2>7, <4>3 DEF Answer, RollBackDecision
          <5>2. decisions'[a] = Undecided
            BY <5>1 DEF TypeOK
          <5>3. QED
            BY <5>2 DEF Decided, Undecided
        <4>4. QED
          BY <3>1, <4>1, <4>2, <4>3
      <3>4. QED
        BY <2>1, <3>2, <3>3 DEF Saved
    <2>8. QED
      BY <2>1, <2>4, <2>5, <2>6, <2>7, <2>3
  <1>7. QED
    BY <1>5, <1>6 DEF SavedInv

(* Leaving makes every candidate with an update under way doubtful.        *)
LEMMA AbandonSaved ==
  ASSUME TypeOK, Fresh, Abandon
  PROVE  SavedInv'
  <1>1. ASSUME NEW a \in App, a \notin doubtful' PROVE Saved(a)'
    <2>1. \A c \in calls : c.app # a
      BY <1>1 DEF Abandon
    <2>2. \A c \in calls' : c.app # a
      <3>1. \A c \in calls : c \in Call
        BY DEF TypeOK
      <3>2. ASSUME NEW c \in calls' PROVE c.app # a
        <4>1. PICK d \in calls : c = [d EXCEPT !.orphan = TRUE]
          BY <3>2 DEF Abandon
        <4>2. c.app = d.app
          BY <3>1, <4>1, CallOrphaned
        <4>3. QED
          BY <2>1, <4>2
      <3>3. QED
        BY <3>2
    <2>3. decisions'[a] = Undecided
      BY DEF Fresh
    <2>4. QED
      BY <2>2, <2>3 DEF Saved, Decided, Undecided
  <1>2. QED
    BY <1>1 DEF SavedInv

LEMMA NextSaved == TypeOK /\ SessionInv /\ SavedInv /\ [Next]_vars => SavedInv'
  <1> SUFFICES ASSUME TypeOK, SessionInv, SavedInv, [Next]_vars PROVE SavedInv'
    OBVIOUS
  <1>1. ASSUME UNCHANGED <<decisions, calls, server, doubtful>> PROVE SavedInv'
    BY <1>1, SavedStays DEF SavedInv
  <1>2. CASE LoadPage \/ LoadFails \/ Reload \/ Mount \/ UNCHANGED vars
    BY <1>1, <1>2 DEF LoadPage, LoadFails, Reload, Mount, session, network, vars
  <1>3. CASE Browsing
    BY <1>1, <1>3 DEF Browsing, Step, JumpTo, CommitSlide, EndSwap, TouchStart, TouchMove,
                      TouchEnd, OpenResume, CloseResume, session, network
  <1>4. CASE Leave \/ StartNewReview
    BY <1>4, AbandonSaved DEF Leave, StartNewReview
  <1>5. QED
    BY <1>2, <1>3, <1>4, DecidingSaved, CallsSaved DEF Next, Network

-----------------------------------------------------------------------------
(* The theorems.                                                            *)

LEMMA Invariant == Spec => [](TypeOK /\ SessionInv /\ SavedInv)
  <1>1. Init => TypeOK /\ SessionInv /\ SavedInv
    BY InitType, InitSession, InitSaved
  <1>2. TypeOK /\ SessionInv /\ SavedInv /\ [Next]_vars => (TypeOK /\ SessionInv /\ SavedInv)'
    BY NextType, NextSession, NextSaved
  <1>3. QED
    BY <1>1, <1>2, PTL DEF Spec

(* Every variable keeps its type: in particular a slide never carries the  *)
(* index below the first candidate (commitSlide).                           *)
THEOREM TypeCorrect == Spec => []TypeOK
  BY Invariant, PTL

(* A candidate is on screen whenever the queue is not empty, and every     *)
(* decision remembers a place of the queue to come back to (useTriageSession). *)
THEOREM IndexInQueueHolds == Spec => []IndexInQueue
  <1>1. TypeOK /\ SessionInv => IndexInQueue
    BY ShownIsListed DEF SessionInv, NothingShown, IndexInQueue, EntryOK, Decided, Undecided
  <1>2. QED
    BY <1>1, Invariant, PTL

(* The undo offered is for a decision that stands, whatever failed saves   *)
(* and other undos did meanwhile (decide, retractDecision).                 *)
THEOREM UndoNamesADecidedCandidateHolds == Spec => []UndoNamesADecidedCandidate
  <1>1. SessionInv => UndoNamesADecidedCandidate
    BY DEF SessionInv, UndoNamesADecidedCandidate
  <1>2. QED
    BY <1>1, Invariant, PTL

(* With no overlapping updates and no lost answer, a decision on screen is *)
(* the one in the database once its update was answered.                    *)
THEOREM ShownDecisionIsSavedHolds == Spec => []ShownDecisionIsSaved
  <1>1. SavedInv => ShownDecisionIsSaved
    BY DEF SavedInv, Saved, ShownDecisionIsSaved
  <1>2. QED
    BY <1>1, Invariant, PTL

=============================================================================
