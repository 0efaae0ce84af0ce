------------------------------- MODULE Triage -------------------------------
(***************************************************************************)
(* The full-screen triage page of the administrator                        *)
(* (pages/admin/AdminApplicationsTriagePage.tsx with useTriageQueue and    *)
(* useTriageSession): the queue of NEW applications is loaded page by      *)
(* page, then candidates are decided, undone and browsed in a carousel     *)
(* while every decision is saved in the background.                        *)
(*                                                                         *)
(* The browser runs one handler at a time, so a handler is one action; the *)
(* requests it leaves behind are served in any order, may be refused, and  *)
(* may be carried out with their answer lost.  Pixels are abstracted: a    *)
(* drag is "left" or "right" once it passes SWIPE_TRIGGER.                 *)
(***************************************************************************)
EXTENDS Naturals, Sequences, FiniteSets

CONSTANTS App,        \* applications on the server
          Listing,    \* all of them in the order the server lists them
          Settled,    \* those decided before the page was opened
          WithResume, \* those whose candidate has a resume_path
          PageSize,   \* PAGE_SIZE
          MaxPages,   \* MAX_PAGES
          MaxCalls,   \* bound: status updates sent in a behaviour
          MaxVisits,  \* bound: times the page is mounted
          none        \* JavaScript's null

ASSUME AppAssumption == /\ IsFiniteSet(App) /\ none \notin App
                        /\ Listing \in Seq(App) /\ WithResume \subseteq App
                        /\ Settled \subseteq App
ASSUME BoundAssumption == /\ PageSize \in Nat \ {0} /\ MaxPages \in Nat \ {0}
                          /\ MaxCalls \in Nat /\ MaxVisits \in Nat

VARIABLES
  mounted, visits,          \* whether the page is on screen, and how often it was
  items, isLoading, error,  \* the queue, as useTriageQueue keeps it
  load,                     \* the fetch in progress: what its pages held so far
  index,                    \* the candidate shown, counted from 0
  decisions,                \* per application: its decision in this session
  undoFor,                  \* pendingUndo
  flying, isSwapping,       \* the slide animation
  timer,                    \* whether the slide has its transitionend listener and its timeout
  drag,                     \* the finger on the carousel: touchStart and dragX
  isResumeOpen,             \* the resume modal
  calls, sent,              \* status updates not answered yet; how many were sent
  server,                   \* the status of every application in the database
  doubtful                  \* history: applications whose updates overlapped or lost an answer

page     == <<mounted, visits>>
queue    == <<items, isLoading, error, load>>
session  == <<index, decisions, undoFor>>
carousel == <<flying, isSwapping, timer>>
network  == <<calls, sent, server, doubtful>>
vars == <<page, queue, session, carousel, drag, isResumeOpen, network>>

Decision == {"APPROVED_BY_ADMIN", "REJECTED"}
Status   == Decision \cup {"NEW"}
Undecided == [decision |-> "none", prevIndex |-> 0]
Entry    == [decision : Decision \cup {"none"}, prevIndex : Nat]
Undo     == [app : App, prevIndex : Nat]
Call     == [n : Nat, app : App, status : Status, snapshot : Entry,
             orphan : BOOLEAN, at : {"sent", "done", "failed"}]

-----------------------------------------------------------------------------
(* The queue: first page and companies together, then one page at a time.  *)

\* The rows a page is read from: places in the listing, and those places in ascending order.
NewFrom(from) == {i \in DOMAIN Listing : i >= from /\ server[Listing[i]] = "NEW"}

InOrder(places) ==
  {s \in [1 .. Cardinality(places) -> places] : \A i, j \in DOMAIN s : i < j => s[i] < s[j]}

ServerPage(at) ==
  LET rest == Len(at) > PageSize
  IN  [rows |-> [i \in 1 .. (IF rest THEN PageSize ELSE Len(at)) |-> Listing[at[i]]],
       next |-> IF rest THEN at[PageSize] + 1 ELSE none]

FirstFetch == [pages |-> 0, got |-> <<>>, next |-> 1]

LoadPage ==
  /\ mounted /\ load # none
  /\ \E at \in InOrder(NewFrom(load.next)) :
       LET p    == ServerPage(at)
           got  == load.got \o p.rows
           more == p.next # none /\ load.pages + 1 < MaxPages
       IN  IF more
           THEN /\ load' = [pages |-> load.pages + 1, got |-> got, next |-> p.next]
                /\ UNCHANGED <<items, isLoading, error>>
           ELSE /\ load' = none
                /\ items' = got /\ isLoading' = FALSE /\ error' = FALSE
  /\ UNCHANGED <<page, session, carousel, drag, isResumeOpen, network>>

LoadFails ==
  /\ mounted /\ load # none
  /\ load' = none
  /\ items' = <<>> /\ isLoading' = FALSE /\ error' = TRUE
  /\ UNCHANGED <<page, session, carousel, drag, isResumeOpen, network>>

-----------------------------------------------------------------------------
(* What the page shows.                                                     *)

total == Len(items)
At(i) == IF i \in 0..(total - 1) THEN items[i + 1] ELSE none
current == At(index)
prevApp == IF index > 0 THEN At(index - 1) ELSE none
nextApp == At(index + 1)

Decided(a)   == decisions[a].decision # "none"
decidedCount == Cardinality({a \in App : Decided(a)})

RenderGate ==
  CASE isLoading -> "loading"
    [] ~isLoading /\ error -> "error"
    [] ~isLoading /\ ~error /\ total = 0 -> "empty"
    [] OTHER -> IF decidedCount = total /\ undoFor = none THEN "summary" ELSE "carousel"

Sliding == flying # "none" \/ isSwapping

\* The resume viewer covers the carousel, but only over a candidate who has one.
Uncovered == RenderGate = "carousel" /\ ~(isResumeOpen /\ current \in WithResume)

\* What a card of the carousel offers: the resume only when it is the active card,
\* but the banner of a decided candidate keeps its button on the two neighbours.
CardOffers(a) == (IF a = current /\ a \in WithResume THEN {"resume"} ELSE {})
                 \cup (IF a # none /\ Decided(a) THEN {"retract"} ELSE {})

StripItems == [i \in DOMAIN items |->
                [app |-> items[i], jump |-> i - 1, decision |-> decisions[items[i]].decision]]

-----------------------------------------------------------------------------
(* Status updates: sent in the background, answered in any order.          *)

Outstanding(a) == \E c \in calls : c.app = a

Send(a, status, snapshot) ==
  /\ sent < MaxCalls
  /\ sent' = sent + 1
  /\ calls' = calls \cup {[n |-> sent + 1, app |-> a, status |-> status,
                           snapshot |-> snapshot, orphan |-> FALSE, at |-> "sent"]}
  /\ doubtful' = IF Outstanding(a) THEN doubtful \cup {a} ELSE doubtful
  /\ UNCHANGED server

Become(c, at) == calls' = (calls \ {c}) \cup {[c EXCEPT !.at = at]}

\* The server carries the update out ...
Serve(c) ==
  /\ c.at = "sent"
  /\ server' = [server EXCEPT ![c.app] = c.status]
  /\ Become(c, "done")
  /\ UNCHANGED <<page, queue, session, carousel, drag, isResumeOpen, sent, doubtful>>

\* ... or refuses it, ...
Refuse(c) ==
  /\ c.at = "sent"
  /\ Become(c, "failed")
  /\ UNCHANGED <<page, queue, session, carousel, drag, isResumeOpen, sent, server, doubtful>>

\* ... or carries it out and the answer is lost, which the page sees as a failure.
LoseAnswer(c) ==
  /\ c.at = "done"
  /\ Become(c, "failed")
  /\ doubtful' = doubtful \cup {c.app}
  /\ UNCHANGED <<page, queue, session, carousel, drag, isResumeOpen, sent, server>>

\* Mutant: the undo survives the decision it was for.
RollBackKeepingUndo(a) ==
  /\ decisions' = [decisions EXCEPT ![a] = Undecided]
  /\ UNCHANGED undoFor

\* Mutant: a save that failed takes back the undo only.
RollBackUndoOnly(a) ==
  /\ undoFor' = IF undoFor # none /\ undoFor.app = a THEN none ELSE undoFor
  /\ UNCHANGED decisions

\* .catch(...) of decide: the local decision and its undo are taken back.
RollBackDecision(a) ==
  /\ decisions' = [decisions EXCEPT ![a] = Undecided]
  /\ undoFor' = IF undoFor # none /\ undoFor.app = a THEN none ELSE undoFor

\* .catch(...) of retractDecision: the decision that was retracted comes back.
RollBackRetract(a, snapshot) ==
  /\ decisions' = IF snapshot = Undecided THEN decisions
                  ELSE [decisions EXCEPT ![a] = snapshot]
  /\ UNCHANGED undoFor

Answer(c) ==
  /\ c.at \in {"done", "failed"}
  /\ calls' = calls \ {c}
  /\ IF c.orphan \/ c.at = "done"
     THEN UNCHANGED <<decisions, undoFor>>
     ELSE IF c.status = "NEW" THEN RollBackRetract(c.app, c.snapshot)
                              ELSE RollBackDecision(c.app)
  /\ UNCHANGED <<page, queue, index, carousel, drag, isResumeOpen, sent, server, doubtful>>

-----------------------------------------------------------------------------
(* Deciding and undoing.                                                    *)

\* slideTo: no second slide, and none past either end of the queue.
SlideTo(dir) ==
  flying' = IF Sliding \/ (dir = "next" /\ index + 1 >= total) \/ (dir = "prev" /\ index = 0)
            THEN flying ELSE dir

\* The effect that ends a slide, run when flying has changed: with the carousel off screen it
\* finds no element and returns, and it does not run again when the carousel comes back.
SlideEffect == timer' = IF flying' = flying THEN timer ELSE RenderGate' = "carousel"

\* decide: by the button or the key, never mid-slide or under the resume; the page
\* records the decision and moves on before the request is answered.
Decide(d) ==
  /\ mounted /\ current # none
  /\ ~Sliding /\ ~isResumeOpen
  /\ decisions' = [decisions EXCEPT ![current] = [decision |-> d, prevIndex |-> index]]
  /\ undoFor' = [app |-> current, prevIndex |-> index]
  /\ SlideTo("next")
  /\ Send(current, d, Undecided)
  /\ UNCHANGED <<page, queue, index, isSwapping, drag, isResumeOpen>>
  /\ SlideEffect

\* Mutant: the status sent is the one the page keeps for an undecided candidate.
RetractLocally(a, jumpBack) ==
  /\ decisions' = [decisions EXCEPT ![a] = Undecided]
  /\ undoFor' = IF undoFor # none /\ undoFor.app = a THEN none ELSE undoFor
  /\ index' = IF jumpBack = none THEN index ELSE jumpBack
  /\ Send(a, Undecided.decision, decisions[a])
  /\ UNCHANGED <<page, queue, carousel, drag, isResumeOpen>>

\* retractDecision
Retract(a, jumpBack) ==
  /\ decisions' = [decisions EXCEPT ![a] = Undecided]
  /\ undoFor' = IF undoFor # none /\ undoFor.app = a THEN none ELSE undoFor
  /\ index' = IF jumpBack = none THEN index ELSE jumpBack
  /\ Send(a, "NEW", decisions[a])
  /\ UNCHANGED <<page, queue, carousel, drag, isResumeOpen>>

\* undo: the toast's button or the key z, for the last decision while its toast is shown.
UndoLast ==
  /\ mounted /\ undoFor # none /\ ~isResumeOpen
  /\ Retract(undoFor.app, undoFor.prevIndex)

\* The banner on a card already decided; the index stays.
ClearDecision(a) ==
  /\ mounted /\ Uncovered
  /\ "retract" \in CardOffers(a)
  /\ Retract(a, none)

\* UndoToast: five seconds after the last render; a slide, which renders, is over in 320 ms.
UndoExpires ==
  /\ mounted /\ RenderGate = "carousel" /\ undoFor # none /\ ~Sliding
  /\ undoFor' = none
  /\ UNCHANGED <<page, queue, index, decisions, carousel, drag, isResumeOpen, network>>

-----------------------------------------------------------------------------
(* Browsing.                                                                *)

\* The side arrows and the keys n, p and the arrows; the keys work on the summary too.
Step(dir) ==
  /\ mounted /\ ~isResumeOpen
  /\ SlideTo(dir) /\ flying' # flying
  /\ UNCHANGED <<page, queue, session, isSwapping, drag, isResumeOpen, network>>
  /\ SlideEffect

\* A chip of the strip jumps without a slide, and without asking whether one is running.
JumpTo(chip) ==
  /\ mounted /\ Uncovered /\ chip.jump # index
  /\ index' = chip.jump
  /\ UNCHANGED <<page, queue, decisions, undoFor, carousel, drag, isResumeOpen, network>>

\* Mutant: the end of a slide trusts the start of it, and does not look at the queue.
CommitUnbounded ==
  /\ mounted /\ timer
  /\ isSwapping' = TRUE
  /\ index' = IF flying = "next" THEN index + 1 ELSE (IF index > 0 THEN index - 1 ELSE 0)
  /\ flying' = "none" /\ timer' = FALSE
  /\ drag' = IF drag \in {"left", "right"} THEN "little" ELSE drag
  /\ UNCHANGED <<page, queue, decisions, undoFor, isResumeOpen, network>>

\* Mutant: no timer stands in for the transitionend that a finger on the carousel prevents.
CommitWithoutTimer ==
  /\ mounted /\ timer /\ drag = "none"
  /\ isSwapping' = TRUE
  /\ index' = IF flying = "next" THEN (IF index + 1 < total THEN index + 1 ELSE total - 1)
              ELSE (IF index > 0 THEN index - 1 ELSE 0)
  /\ flying' = "none" /\ timer' = FALSE
  /\ UNCHANGED <<page, queue, decisions, undoFor, drag, isResumeOpen, network>>

\* The end of the animation: transitionend, or the timer that stands in for it.
CommitSlide ==
  /\ mounted /\ timer
  /\ isSwapping' = TRUE
  /\ index' = IF flying = "next" THEN (IF index + 1 < total THEN index + 1 ELSE total - 1)
              ELSE (IF index > 0 THEN index - 1 ELSE 0)
  /\ flying' = "none" /\ timer' = FALSE
  /\ drag' = IF drag \in {"left", "right"} THEN "little" ELSE drag
  /\ UNCHANGED <<page, queue, decisions, undoFor, isResumeOpen, network>>

\* Two animation frames later.
EndSwap ==
  /\ mounted /\ isSwapping
  /\ isSwapping' = FALSE
  /\ UNCHANGED <<page, queue, session, flying, timer, drag, isResumeOpen, network>>

\* A finger on the carousel; one that was down when the carousel left the screen is forgotten.
TouchStart ==
  /\ mounted /\ Uncovered /\ ~Sliding
  /\ drag' = "start"
  /\ UNCHANGED <<page, queue, session, carousel, isResumeOpen, network>>

\* The first ten pixels choose the axis; at an end of the queue the drag is held below SWIPE_TRIGGER.
TouchMove ==
  /\ mounted /\ RenderGate = "carousel" /\ drag \notin {"none", "vertical"}
  /\ drag' \in {"little"} \cup (IF drag = "start" THEN {"vertical"} ELSE {})
                          \cup (IF nextApp # none THEN {"left"} ELSE {})
                          \cup (IF prevApp # none THEN {"right"} ELSE {})
  /\ UNCHANGED <<page, queue, session, carousel, isResumeOpen, network>>

TouchEnd ==
  /\ mounted /\ RenderGate = "carousel" /\ drag # "none"
  /\ drag' = "none"
  /\ flying' = CASE drag = "left"  /\ nextApp # none -> "next"
                 [] drag = "right" /\ prevApp # none -> "prev"
                 [] OTHER -> flying
  /\ UNCHANGED <<page, queue, session, isSwapping, isResumeOpen, network>>
  /\ SlideEffect

OpenResume ==
  /\ mounted /\ Uncovered
  /\ "resume" \in CardOffers(current)
  /\ isResumeOpen' = TRUE
  /\ UNCHANGED <<page, queue, session, carousel, drag, network>>

\* The viewer's own button, or Escape.
CloseResume ==
  /\ mounted /\ isResumeOpen
  /\ isResumeOpen' = FALSE
  /\ UNCHANGED <<page, queue, session, carousel, drag, network>>

-----------------------------------------------------------------------------
(* Coming and going.                                                        *)

\* What a page starts from, and all that is left of it when it goes.
Fresh ==
  /\ items' = <<>> /\ isLoading' = TRUE /\ error' = FALSE /\ load' = FirstFetch
  /\ index' = 0 /\ decisions' = [a \in App |-> Undecided] /\ undoFor' = none
  /\ flying' = "none" /\ isSwapping' = FALSE /\ timer' = FALSE /\ drag' = "none"
  /\ isResumeOpen' = FALSE

Mount ==
  /\ ~mounted /\ visits < MaxVisits
  /\ mounted' = TRUE /\ visits' = visits + 1
  /\ UNCHANGED <<queue, session, carousel, drag, isResumeOpen, network>>

Abandon ==
  /\ calls' = {[c EXCEPT !.orphan = TRUE] : c \in calls}
  /\ doubtful' = doubtful \cup {c.app : c \in calls}
  /\ UNCHANGED <<sent, server>>

\* Leaving aborts the fetch of the queue; updates under way keep going, with nobody to answer.
Leave ==
  /\ mounted /\ ~isResumeOpen
  /\ mounted' = FALSE /\ UNCHANGED visits
  /\ Fresh
  /\ Abandon

\* The summary's "start a new review" reloads the document.
StartNewReview ==
  /\ mounted /\ RenderGate = "summary" /\ visits < MaxVisits
  /\ visits' = visits + 1 /\ UNCHANGED mounted
  /\ Fresh
  /\ Abandon

\* The error screen's "retry": reload().
Reload ==
  /\ mounted /\ RenderGate = "error"
  /\ isLoading' = TRUE /\ error' = FALSE /\ load' = FirstFetch
  /\ UNCHANGED <<page, items, session, carousel, drag, isResumeOpen, network>>

-----------------------------------------------------------------------------
Init ==
  /\ mounted = TRUE /\ visits = 1
  /\ items = <<>> /\ isLoading = TRUE /\ error = FALSE /\ load = FirstFetch
  /\ index = 0 /\ decisions = [a \in App |-> Undecided] /\ undoFor = none
  /\ flying = "none" /\ isSwapping = FALSE /\ timer = FALSE /\ drag = "none"
  /\ isResumeOpen = FALSE
  /\ calls = {} /\ sent = 0 /\ doubtful = {}
  /\ server = [a \in App |-> IF a \in Settled THEN "REJECTED" ELSE "NEW"]

Deciding == \/ \E d \in Decision : Decide(d)
            \/ UndoLast \/ UndoExpires
            \/ \E a \in {prevApp, current, nextApp} : ClearDecision(a)

Browsing == \/ \E dir \in {"next", "prev"} : Step(dir)
            \/ \E i \in DOMAIN items : JumpTo(StripItems[i])
            \/ CommitSlide \/ EndSwap
            \/ TouchStart \/ TouchMove \/ TouchEnd
            \/ OpenResume \/ CloseResume

Network == \E c \in calls : Serve(c) \/ Refuse(c) \/ LoseAnswer(c) \/ Answer(c)

Next == \/ LoadPage \/ LoadFails \/ Reload
        \/ Deciding \/ Browsing \/ Network
        \/ Mount \/ Leave \/ StartNewReview

\* Timers that were set fire, animation frames are drawn, and the server answers a fetch.
Fairness == WF_vars(CommitSlide) /\ WF_vars(EndSwap) /\ WF_vars(LoadPage)

Spec == Init /\ [][Next]_vars /\ Fairness

-----------------------------------------------------------------------------
(* Properties.                                                              *)

TypeOK ==
  /\ mounted \in BOOLEAN /\ visits \in 0..MaxVisits \cup {1}
  /\ items \in Seq(App) /\ isLoading \in BOOLEAN /\ error \in BOOLEAN
  /\ load \in {none} \cup [pages : Nat, got : Seq(App), next : Nat]
  /\ index \in Nat
  /\ decisions \in [App -> Entry] /\ undoFor \in {none} \cup Undo
  /\ flying \in {"none", "next", "prev"} /\ isSwapping \in BOOLEAN /\ timer \in BOOLEAN
  /\ drag \in {"none", "start", "vertical", "little", "left", "right"}
  /\ isResumeOpen \in BOOLEAN
  /\ calls \subseteq Call /\ sent \in Nat
  /\ server \in [App -> Status] /\ doubtful \subseteq App

\* A candidate is on screen whenever the queue is not empty: slides, jumps, undos and the
\* slides they overtake never carry the index past an end, nor an undo back past it.
IndexInQueue ==
  /\ (total > 0 => index < total) /\ (total = 0 => index = 0)
  /\ \A a \in App : Decided(a) => decisions[a].prevIndex < total
  /\ undoFor # none => undoFor.prevIndex < total

\* The undo offered is for a decision that still stands: whatever is retracted, rolled back by
\* a failed save or re-decided meanwhile, z never takes back what the page shows as undecided.
UndoNamesADecidedCandidate == undoFor # none => Decided(undoFor.app)

\* A decision on screen is the one in the database once nothing is under way for the candidate,
\* unless two updates of the candidate overlapped, an answer was lost or the page was left meanwhile.
ShownDecisionIsSaved ==
  \A a \in App \ doubtful : mounted /\ ~Outstanding(a) /\ Decided(a) => server[a] = decisions[a].decision

\* A slide begun with the carousel on screen ends, whatever finger, jump, undo or late answer
\* comes meanwhile, and the page takes decisions again.  One a key begins on the summary has no
\* timer: it never ends, and should the carousel come back it takes no decision.
SlideEnds == mounted /\ timer ~> (~mounted \/ flying = "none")

=============================================================================
