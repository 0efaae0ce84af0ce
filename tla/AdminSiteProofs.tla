--------------------------- MODULE AdminSiteProofs ---------------------------
(***************************************************************************)
(* Proofs about the administrator's pages, for any set of scenes: whatever *)
(* rows come and go, the record on the pane is the selected one; a list    *)
(* that shows it is loading has a request in flight; a row leaves it for a *)
(* reason that concerns it; and a button is disabled exactly while the one *)
(* request it stands for is under way.                                     *)
(*                                                                         *)
(* The first needs the invariant of the pane alone. The others are proved  *)
(* in two rounds: every action is first shown to be one of a few steps on  *)
(* the list (ListStep, ListPaging), on the flags (FlagStep) and on the     *)
(* dialogs (DialogStep), and the invariant is then carried over those.     *)
(* FrameInv says what lists, dialogs and requests look like, FlagsInv      *)
(* which requests a flag stands for.                                       *)
(***************************************************************************)
EXTENDS AdminSite, FiniteSetTheorems, TLAPS

(* A pane that is not idle holds the selected record, or nothing yet.      *)
PaneInv ==
  \/ pane = Idle
  \/ /\ pane = [state |-> pane.state, id |-> pane.id, row |-> pane.row]
     /\ pane.id = selected
     /\ pane.row # none => pane.row.id = pane.id

(* What a step does to the pane: it follows the new list and selection, is *)
(* left alone with the selection, or is mounted anew.                      *)
Attended == pane' = PaneAfter(list', selected')
PaneStep == Attended \/ UNCHANGED <<selected, pane>> \/ FreshPage

-----------------------------------------------------------------------------
(* The pane follows.                                                        *)

(* Setting the list or the selection makes the pane follow both.            *)
LEMMA LookAttends ==
  ASSUME NEW l, NEW id, Look(l, id)
  PROVE  Attended
  BY DEF Look, Attended

LEMMA SetListAttends ==
  ASSUME NEW l, SetList(l)
  PROVE  Attended
  BY LookAttends DEF SetList

(* Confirming, and opening a dialog, leave list, selection and pane.        *)
LEMMA ConfirmLeavesPane ==
  ASSUME NEW k, NEW flag, NEW kind, NEW op, NEW to, Confirm(k, flag, kind, op, to)
  PROVE  PaneStep
  BY DEF Confirm, PaneStep, view

LEMMA OpenLeavesPane ==
  ASSUME NEW k, NEW row, OpenFor(k, row)
  PROVE  PaneStep
  BY DEF OpenFor, PaneStep, view

(* Another query, or another filter in the browser, goes through SetList.   *)
LEMMA BrowseAttends ==
  /\ \A q : NewFetcher(q) => PaneStep
  /\ ToggleNarrow => PaneStep
  BY SetListAttends DEF NewFetcher, ToggleNarrow, PaneStep

(* The page of jobs.                                                        *)
LEMMA JobsPageAttends == JobsPage => PaneStep
  <1>1. JobsBrowse => PaneStep
    BY BrowseAttends DEF JobsBrowse, Browse
  <1>2. JobsOpen \/ JobsOpenCreate => PaneStep
    BY OpenLeavesPane DEF JobsOpen, JobsOpenCreate
  <1>3. JobsReject \/ JobsDelete => PaneStep
    BY ConfirmLeavesPane DEF JobsReject, JobsDelete
  <1>4. JobsApprove \/ JobDialogSave \/ JobCreateSave => PaneStep
    BY DEF JobsApprove, JobDialogSave, JobCreateSave, PaneStep, view
  <1>5. \A k : JobDialogHandsOver(k) => PaneStep
    BY DEF JobDialogHandsOver, PaneStep, view
  <1>6. ASSUME NEW c \in calls,
               \/ JobsApproved(c) \/ JobsRejected(c) \/ JobsDeleted(c)
               \/ JobDialogSaved(c) \/ JobCreated(c)
        PROVE  PaneStep
    BY <1>6, LookAttends
       DEF JobsApproved, JobsRejected, JobsDeleted, DeletedFromList, JobDialogSaved,
           JobCreated, SetList, PaneStep
  <1>7. QED
    BY <1>1, <1>2, <1>3, <1>4, <1>5, <1>6 DEF JobsPage

(* The page of applications.                                                *)
LEMMA ApplicationsPageAttends == ApplicationsPage => PaneStep
  <1>1. ApplicationsBrowse => PaneStep
    BY BrowseAttends DEF ApplicationsBrowse, Browse
  <1>2. ApplicationsOpen => PaneStep
    BY OpenLeavesPane DEF ApplicationsOpen
  <1>3. ApplicationsDelete \/ NotesDialogSave => PaneStep
    BY ConfirmLeavesPane DEF ApplicationsDelete, NotesDialogSave
  <1>4. HeaderSaveNotes \/ (\E to : HeaderSaveStatus(to)) => PaneStep
    BY DEF HeaderSaveNotes, HeaderSaveStatus, PaneStep, view
  <1>5. ASSUME NEW c \in calls,
               \/ ApplicationsDeleted(c) \/ NotesDialogSaved(c)
               \/ HeaderStatusSaved(c) \/ HeaderNotesSaved(c)
        PROVE  PaneStep
    BY <1>5, LookAttends
       DEF ApplicationsDeleted, DeletedFromList, NotesDialogSaved, HeaderStatusSaved,
           HeaderNotesSaved, SetList, PaneStep
  <1>6. QED
    BY <1>1, <1>2, <1>3, <1>4, <1>5 DEF ApplicationsPage

(* The page of candidates.                                                  *)
LEMMA CandidatesPageAttends == CandidatesPage => PaneStep
  <1>1. CandidatesBrowse => PaneStep
    BY BrowseAttends DEF CandidatesBrowse
  <1>2. CandidatesOpen => PaneStep
    BY OpenLeavesPane DEF CandidatesOpen
  <1>3. CandidatesDelete \/ CandidatePaneDelete => PaneStep
    BY ConfirmLeavesPane DEF CandidatesDelete, CandidatePaneDelete
  <1>4. ASSUME NEW c \in calls, CandidatesDeleted(c) \/ CandidatePaneDeleted(c)
        PROVE  PaneStep
    BY <1>4, LookAttends
       DEF CandidatesDeleted, DeletedFromList, CandidatePaneDeleted, SetList, PaneStep
  <1>5. QED
    BY <1>1, <1>2, <1>3, <1>4 DEF CandidatesPage

(* The tab of active companies and a company's record.                      *)
LEMMA CompaniesPageAttends == CompaniesPage => PaneStep
  <1>1. CompaniesBrowse => PaneStep
    BY BrowseAttends DEF CompaniesBrowse
  <1>2. CompaniesOpen \/ CreateCompany => PaneStep
    BY OpenLeavesPane DEF CompaniesOpen, CreateCompany
  <1>3. TabDelete \/ PaneDelete \/ CreateCompanySave => PaneStep
    BY ConfirmLeavesPane DEF TabDelete, PaneDelete, CreateCompanySave
  <1>4. \A k : EditCompanySave(k) => PaneStep
    BY ConfirmLeavesPane DEF EditCompanySave
  <1>5. ASSUME NEW c \in calls, TabDeleted(c) \/ TabEditSaved(c) \/ PaneEditSaved(c)
        PROVE  PaneStep
    BY <1>5, LookAttends DEF TabDeleted, TabEditSaved, PaneEditSaved, SetList, PaneStep
  <1>6. ASSUME NEW c \in calls, PaneDeleted(c) \/ CompanyCreated(c)
        PROVE  PaneStep
    BY <1>6 DEF PaneDeleted, CompanyCreated, PaneStep, view
  <1>7. QED
    BY <1>1, <1>2, <1>3, <1>4, <1>5, <1>6 DEF CompaniesPage

(* The tabs of pending companies and of invites.                            *)
LEMMA PendingPageAttends == PendingPage => PaneStep
  <1>1. PendingBrowse => PaneStep
    BY BrowseAttends DEF PendingBrowse
  <1>2. PendingOpenReject => PaneStep
    BY OpenLeavesPane DEF PendingOpenReject
  <1>3. PendingReject => PaneStep
    BY ConfirmLeavesPane DEF PendingReject
  <1>4. PendingApprove => PaneStep
    BY DEF PendingApprove, PaneStep, view
  <1>5. ASSUME NEW c \in calls, PendingApproved(c) \/ PendingRejected(c)
        PROVE  PaneStep
    BY <1>5, LookAttends DEF PendingApproved, PendingRejected, SetList, PaneStep
  <1>6. QED
    BY <1>1, <1>2, <1>3, <1>4, <1>5 DEF PendingPage

LEMMA InvitesPageAttends == InvitesPage => PaneStep
  <1>1. InvitesBrowse => PaneStep
    BY BrowseAttends DEF InvitesBrowse
  <1>2. InvitesOpen \/ InviteOpenForm => PaneStep
    BY OpenLeavesPane DEF InvitesOpen, InviteOpenForm
  <1>3. InviteRevoke \/ InviteDelete \/ InviteCreate => PaneStep
    BY ConfirmLeavesPane DEF InviteRevoke, InviteDelete, InviteCreate
  <1>4. InviteResend => PaneStep
    BY DEF InviteResend, PaneStep, view
  <1>5. ASSUME NEW c \in calls,
               InviteRevoked(c) \/ InviteDeleted(c) \/ InviteResent(c) \/ InviteCreated(c)
        PROVE  PaneStep
    BY <1>5, LookAttends
       DEF InviteRevoked, InviteDeleted, InviteResent, InviteCreated, SetList, PaneStep
  <1>6. QED
    BY <1>1, <1>2, <1>3, <1>4, <1>5 DEF InvitesPage

(* The three tabs of the review queue.                                      *)
LEMMA QueuePagesAttend == JobsQueuePage \/ ApplicationsQueuePage \/ CompaniesQueuePage => PaneStep
  <1>1. ASSUME NEW to, JobsQueueDecide(to) \/ ApplicationsQueueDecide(to) PROVE PaneStep
    BY <1>1, LookAttends DEF JobsQueueDecide, ApplicationsQueueDecide, Advance, PaneStep
  <1>2. ASSUME NEW c \in calls,
               \/ JobsQueueDecided(c) \/ ApplicationsQueueDecided(c) \/ DecisionUndone(c)
               \/ QueueStatusSaved(c) \/ HeaderNotesSaved(c) \/ CompaniesQueueDecided(c)
        PROVE  PaneStep
    BY <1>2, LookAttends
       DEF JobsQueueDecided, ApplicationsQueueDecided, DecisionUndone, QueueStatusSaved,
           HeaderNotesSaved, CompaniesQueueDecided, Advance, SetList, PaneStep
  <1>3. HeaderSaveNotes \/ (\E to : HeaderSaveStatus(to)) => PaneStep
    BY DEF HeaderSaveNotes, HeaderSaveStatus, PaneStep, view
  <1>4. UndoDecision \/ BannerExpires => PaneStep
    BY DEF UndoDecision, BannerExpires, PaneStep, view
  <1>5. \A kind, op : CompaniesQueueDecide(kind, op) => PaneStep
    BY DEF CompaniesQueueDecide, PaneStep, view
  <1>6. QED
    BY <1>1, <1>2, <1>3, <1>4, <1>5
       DEF JobsQueuePage, ApplicationsQueuePage, CompaniesQueuePage

(* An answer that comes too late only ever goes to the list.                *)
LEMMA LateAttends ==
  ASSUME NEW c \in calls, AnsweredLate(c)
  PROVE  PaneStep
  <1>1. ToTheList => PaneStep
    BY LookAttends DEF ToTheList, Here, PaneStep, view
  <1>2. QED
    BY <1>1 DEF AnsweredLate, PaneStep, view

-----------------------------------------------------------------------------
(* The invariant.                                                           *)

(* A page is mounted with the pane of its first record.                     *)
LEMMA InitPane == InitConsole => PaneInv
  BY DEF InitConsole, FirstPane, PaneInv, Idle

(* Whatever of the three a step does, the pane keeps its invariant.         *)
LEMMA PaneStepKeeps ==
  ASSUME PaneInv, PaneStep
  PROVE  PaneInv'
  <1>1. CASE Attended
    BY <1>1 DEF Attended, PaneAfter, PaneInv, Idle
  <1>2. CASE UNCHANGED <<selected, pane>>
    BY <1>2 DEF PaneInv, Idle
  <1>3. CASE FreshPage
    BY <1>3 DEF FreshPage, FirstPane, PaneInv, Idle
  <1>4. QED
    BY <1>1, <1>2, <1>3 DEF PaneStep

(* An answer for the pane is about the record it is loading, or dropped.    *)
LEMMA PaneAnswered ==
  ASSUME PaneInv, PaneFetched \/ PaneFails
  PROVE  PaneInv'
  <1>1. /\ pane = [state |-> pane.state, id |-> pane.id, row |-> pane.row]
        /\ pane.id = selected /\ (pane.row # none => pane.row.id = pane.id)
    BY DEF PaneInv, PaneFetched, PaneFails, Idle
  <1>2. selected' = selected
    BY DEF PaneFetched, PaneFails
  <1>3. \/ pane' = [state |-> "fetched", id |-> pane.id, row |-> Copy(pane.id)]
        \/ pane' = [state |-> "missing", id |-> pane.id, row |-> pane.row]
        \/ pane' = [state |-> "failed", id |-> pane.id, row |-> pane.row]
    BY <1>1 DEF PaneFetched, PaneFails
  <1>4. Copy(pane.id).id = pane.id
    BY DEF Copy
  <1>5. QED
    BY <1>1, <1>2, <1>3, <1>4 DEF PaneInv

(* Every action does one of the three.                                      *)
LEMMA NextPane == PaneInv /\ [Next]_vars => PaneInv'
  <1> SUFFICES ASSUME PaneInv, [Next]_vars PROVE PaneInv'
    OBVIOUS
  <1>1. ServePage \/ LandPage \/ PageFails \/ ScrollToEnd \/ Retry => PaneStep
    BY SetListAttends DEF ServePage, LandPage, PageFails, ScrollToEnd, Retry, PaneStep
  <1>2. \A id : Select(id) => PaneStep
    BY LookAttends DEF Select, PaneStep
  <1>3. (\E k \in Dialogs : Dismiss(k)) => PaneStep
    BY DEF Dismiss, PaneStep, view
  <1>4. PageStep => PaneStep
    BY JobsPageAttends, ApplicationsPageAttends, CandidatesPageAttends,
       CompaniesPageAttends, PendingPageAttends, InvitesPageAttends, QueuePagesAttend
       DEF PageStep
  <1>5. (\E c \in calls : Serve(c) \/ Fail(c) \/ AnsweredLate(c)) => PaneStep
    BY LateAttends DEF Serve, Fail, PaneStep, view
  <1>6. Leave \/ Return \/ UNCHANGED vars => PaneStep
    BY DEF Leave, Return, PaneStep, view, vars
  <1>7. QED
    BY <1>1, <1>2, <1>3, <1>4, <1>5, <1>6, PaneStepKeeps, PaneAnswered DEF Next

(* On every page, the record on the pane is the selected one: one fetched  *)
(* for an earlier selection is dropped, and so is one that the list brings *)
(* meanwhile (RecordPane's effect with its abort).                          *)
THEOREM PaneShowsItsRecordHolds == Spec => []PaneShowsItsRecord
  <1>1. InitConsole => PaneInv
    BY InitPane
  <1>2. PaneInv /\ [Next]_vars => PaneInv'
    BY NextPane
  <1>3. PaneInv => PaneShowsItsRecord
    <2> SUFFICES ASSUME PaneInv, PaneValue # none PROVE PaneValue.id = selected
      BY DEF PaneShowsItsRecord
    <2>1. CASE selected # none /\ Known(list, selected)
      <3>1. PICK i \in DOMAIN list.items : list.items[i].id = selected
        BY <2>1 DEF Known, InList
      <3>2. RowOf(list, selected).id = selected
        BY <3>1 DEF RowOf
      <3>3. QED
        BY <2>1, <3>2 DEF PaneValue
    <2>2. CASE ~(selected # none /\ Known(list, selected))
      BY <2>2 DEF PaneValue, PaneInv, Idle
    <2>3. QED
      BY <2>1, <2>2
  <1>4. QED
    BY <1>1, <1>2, <1>3, PTL DEF Spec

-----------------------------------------------------------------------------
(* Rows picked by their places.                                             *)

(* How many members of a finite set of numbers are below one of them.      *)
Below(S, x) == {y \in S : y < x}

(* Fewer members than the whole set are below one, and more below a greater *)
(* one.                                                                     *)
LEMMA BelowSizes ==
  ASSUME NEW S \in SUBSET Nat, IsFiniteSet(S)
  PROVE  /\ \A x \in S : Cardinality(Below(S, x)) \in 0..(Cardinality(S) - 1)
         /\ \A x, z \in S : x < z => Cardinality(Below(S, x)) < Cardinality(Below(S, z))
  <1>1. Cardinality(S) \in Nat
    BY FS_CardinalityType
  <1>2. \A x \in S : IsFiniteSet(Below(S, x)) /\ Cardinality(Below(S, x)) \in Nat
    <2> TAKE x \in S
    <2>1. Below(S, x) \in SUBSET S
      BY DEF Below
    <2>2. QED
      BY <2>1, FS_Subset, FS_CardinalityType
  <1>3. ASSUME NEW T, IsFiniteSet(T), NEW U \in SUBSET T, U # T
        PROVE  Cardinality(U) < Cardinality(T)
    BY <1>3, FS_Subset, FS_CardinalityType
  <1>4. ASSUME NEW x \in S
        PROVE  Cardinality(Below(S, x)) \in 0..(Cardinality(S) - 1)
    <2>1. Below(S, x) \in SUBSET S /\ Below(S, x) # S
      BY DEF Below
    <2>2. Cardinality(Below(S, x)) < Cardinality(S)
      BY <1>3, <2>1
    <2>3. QED
      BY <1>1, <1>2, <2>2
  <1>5. ASSUME NEW x \in S, NEW z \in S, x < z
        PROVE  Cardinality(Below(S, x)) < Cardinality(Below(S, z))
    <2>1. Below(S, x) \in SUBSET Below(S, z)
      <3> SUFFICES ASSUME NEW y \in S, y < x PROVE y < z
        BY DEF Below
      <3>1. x \in Nat /\ y \in Nat /\ z \in Nat
        OBVIOUS
      <3>2. QED
        BY <1>5, <3>1
    <2>2. x \in Below(S, z) /\ x \notin Below(S, x)
      BY <1>5 DEF Below
    <2>3. QED
      BY <1>2, <1>3, <2>1, <2>2
  <1>6. QED
    BY <1>4, <1>5

(* Nth numbers the members of a finite set, each of them once.             *)
LEMMA NthIsMember ==
  ASSUME NEW S \in SUBSET Nat, IsFiniteSet(S), NEW n \in 1..Cardinality(S)
  PROVE  Nth(S, n) \in S /\ Cardinality(Below(S, Nth(S, n))) = n - 1
  <1> DEFINE size == Cardinality(S)
             f == [x \in S |-> Cardinality(Below(S, x))]
  <1>1. size \in Nat
    BY FS_CardinalityType
  <1>2. f \in [S -> 0..(size - 1)]
    BY BelowSizes
  <1>3. \A x, z \in S : f[x] = f[z] => x = z
    <2> TAKE x, z \in S
    <2>1. x \in Nat /\ z \in Nat
      OBVIOUS
    <2>2. x < z \/ z < x \/ x = z
      BY <2>1
    <2>3. f[x] \in Int /\ f[z] \in Int
      BY <1>2
    <2>4. (x < z => f[x] < f[z]) /\ (z < x => f[z] < f[x])
      BY BelowSizes
    <2> HIDE DEF f
    <2>5. QED
      BY <2>2, <2>3, <2>4
  <1>4. \A x \in S : f[x] = Cardinality(Below(S, x))
    OBVIOUS
  <1>5. n \in 1..size /\ size = Cardinality(S)
    OBVIOUS
  <1> HIDE DEF f, size
  <1>6. f \in Injection(S, 0..(size - 1))
    BY <1>2, <1>3 DEF Injection, IsInjective
  <1>7. IsFiniteSet(0..(size - 1)) /\ Cardinality(0..(size - 1)) = size
    BY <1>1, FS_Interval
  <1>8. f \in Surjection(S, 0..(size - 1))
    BY <1>6, <1>7, <1>5, FS_Injection
  <1>9. PICK x \in S : f[x] = n - 1
    BY <1>1, <1>8, <1>5 DEF Surjection
  <1>10. QED
    BY <1>9, <1>4 DEF Nth, Below

(* Every member has a number.                                               *)
LEMMA NthOnto ==
  ASSUME NEW S \in SUBSET Nat, IsFiniteSet(S), NEW x \in S
  PROVE  \E n \in 1..Cardinality(S) : Nth(S, n) = x
  <1> DEFINE n == Cardinality(Below(S, x)) + 1
             y == Nth(S, n)
  <1>1. n \in 1..Cardinality(S) /\ Cardinality(Below(S, x)) = n - 1
    BY BelowSizes, FS_CardinalityType
  <1>2. y \in S /\ Cardinality(Below(S, y)) = n - 1
    BY <1>1, NthIsMember
  <1>3. x \in Nat /\ y \in Nat
    BY <1>2
  <1>4. /\ x < y => Cardinality(Below(S, x)) < Cardinality(Below(S, y))
        /\ y < x => Cardinality(Below(S, y)) < Cardinality(Below(S, x))
    BY <1>2, BelowSizes
  <1> HIDE DEF y
  <1>5. x = y
    BY <1>1, <1>2, <1>3, <1>4
  <1>6. QED
    BY <1>1, <1>5 DEF y

(* The rows of a sequence, and what it is to be one.                        *)
RowsOf(s) == {s[i] : i \in DOMAIN s}
IsRows(s) == s \in Seq(RowsOf(s))

(* A function on 1..k is a sequence of its rows, and a sequence is one.     *)
LEMMA MakeRows ==
  ASSUME NEW k \in Nat, NEW s, DOMAIN s = 1..k, s = [i \in 1..k |-> s[i]]
  PROVE  IsRows(s)
  BY DEF IsRows, RowsOf

LEMMA RowsSpan ==
  ASSUME NEW s, IsRows(s)
  PROVE  Len(s) \in Nat /\ DOMAIN s = 1..Len(s) /\ s = [i \in 1..Len(s) |-> s[i]]
  BY DEF IsRows

(* Joining two sequences joins their rows.                                  *)
LEMMA JoinRows ==
  ASSUME NEW s, NEW t, IsRows(s), IsRows(t)
  PROVE  IsRows(s \o t) /\ RowsOf(s \o t) = RowsOf(s) \cup RowsOf(t)
  <1> DEFINE all == RowsOf(s) \cup RowsOf(t)
  <1>1. s \in Seq(all) /\ t \in Seq(all)
    BY DEF IsRows
  <1>2. /\ Len(s) \in Nat /\ Len(t) \in Nat
        /\ DOMAIN s = 1..Len(s) /\ DOMAIN t = 1..Len(t)
    BY RowsSpan
  <1>3. /\ s \o t \in Seq(all) /\ Len(s \o t) = Len(s) + Len(t)
        /\ \A i \in 1..(Len(s) + Len(t)) :
             (s \o t)[i] = IF i <= Len(s) THEN s[i] ELSE t[i - Len(s)]
    <2> HIDE DEF all
    <2>1. QED
      BY <1>1
  <1>4. DOMAIN (s \o t) = 1..(Len(s) + Len(t))
    BY <1>3
  <1>5. RowsOf(s \o t) \subseteq all
    BY <1>2, <1>3, <1>4 DEF RowsOf
  <1>6. \A i \in 1..Len(s) : i \in 1..(Len(s) + Len(t)) /\ (s \o t)[i] = s[i]
    BY <1>2, <1>3
  <1>7. \A i \in 1..Len(t) : Len(s) + i \in 1..(Len(s) + Len(t)) /\ (s \o t)[Len(s) + i] = t[i]
    BY <1>2, <1>3
  <1>8. all \subseteq RowsOf(s \o t)
    BY <1>2, <1>4, <1>6, <1>7 DEF RowsOf
  <1>9. QED
    BY <1>3, <1>5, <1>8 DEF IsRows

(* A single row.                                                            *)
LEMMA OneRow ==
  ASSUME NEW r
  PROVE  IsRows(<<r>>) /\ RowsOf(<<r>>) = {r}
  BY DEF IsRows, RowsOf

(* RowsAt picks the rows at the places it is given, and no other.           *)
LEMMA PickedRows ==
  ASSUME NEW s, NEW places \in SUBSET Nat, IsFiniteSet(places), places \subseteq DOMAIN s
  PROVE  IsRows(RowsAt(s, places)) /\ RowsOf(RowsAt(s, places)) = {s[i] : i \in places}
  <1> DEFINE t == RowsAt(s, places)
             k == Cardinality(places)
  <1>1. k \in Nat
    BY FS_CardinalityType
  <1>2. DOMAIN t = 1..k /\ t = [n \in 1..k |-> t[n]] /\ \A n \in 1..k : t[n] = s[Nth(places, n)]
    BY DEF RowsAt
  <1>3. \A n \in 1..k : Nth(places, n) \in places
    BY NthIsMember
  <1>4. \A i \in places : \E n \in 1..k : Nth(places, n) = i
    BY NthOnto
  <1> HIDE DEF t, k
  <1>5. IsRows(t)
    BY <1>1, <1>2, MakeRows
  <1>6. RowsOf(t) = {s[i] : i \in places}
    BY <1>2, <1>3, <1>4 DEF RowsOf
  <1>7. QED
    BY <1>5, <1>6 DEF t

(* A list has the fields useInfiniteList gives it, its rows are a sequence, *)
(* and it shows that it loads only while a page of it is in flight.         *)
ListOK(l) ==
  /\ {"items", "isLoading", "isFetchingMore", "inFlight", "request"} \subseteq DOMAIN l
  /\ l.isLoading \in BOOLEAN /\ l.isFetchingMore \in BOOLEAN /\ l.inFlight \in BOOLEAN
  /\ (l.isLoading \/ l.isFetchingMore) => l.inFlight
  /\ IsRows(l.items)
  /\ l.inFlight => {"page", "replace"} \subseteq DOMAIN l.request /\ l.request.replace \in BOOLEAN
  /\ l.inFlight /\ l.request.page # none => IsRows(l.request.page.items)

(* What an operator of the list makes of it: a list again, with the rows it *)
(* had and maybe one more, and no page it did not have.                      *)
LEMMA EmptyKeeps ==
  ASSUME NEW q
  PROVE  ListOK(Mounted(q)) /\ Mounted(q).items = <<>> /\ RowsOf(<<>>) = {}
  <1>1. Mounted(q).items = <<>>
    BY DEF Mounted, Reload, EmptyList, FetchPage
  <1>2. IsRows(<<>>) /\ RowsOf(<<>>) = {}
    BY DEF IsRows, RowsOf
  <1>3. QED
    BY <1>1, <1>2 DEF ListOK, Mounted, Reload, EmptyList, FetchPage

(* A reload keeps the rows until its page lands.                            *)
LEMMA ReloadKeeps ==
  ASSUME NEW l, ListOK(l), NEW q
  PROVE  ListOK(Reload(l, q)) /\ Reload(l, q).items = l.items
  BY DEF ListOK, Reload, EmptyList, FetchPage

(* The rows of a list may be exchanged for others.                          *)
LEMMA FreshRows ==
  ASSUME NEW l, ListOK(l), NEW items, IsRows(items)
  PROVE  ListOK([l EXCEPT !.items = items]) /\ [l EXCEPT !.items = items].items = items
  BY DEF ListOK

(* A row put first.                                                         *)
LEMMA PrependKeeps ==
  ASSUME NEW l, ListOK(l), NEW row
  PROVE  /\ ListOK(PrependItem(l, row))
         /\ RowsOf(PrependItem(l, row).items) = {row} \cup RowsOf(l.items)
  <1>1. IsRows(<<row>> \o l.items) /\ RowsOf(<<row>> \o l.items) = {row} \cup RowsOf(l.items)
    BY OneRow, JoinRows DEF ListOK
  <1>2. QED
    BY <1>1, FreshRows DEF PrependItem

(* A row removed: the rows with its id go, and only those.                  *)
LEMMA RemoveKeeps ==
  ASSUME NEW l, ListOK(l), NEW id
  PROVE  /\ ListOK(RemoveItem(l, id))
         /\ RowsOf(RemoveItem(l, id).items) = {r \in RowsOf(l.items) : r.id # id}
  <1> DEFINE places == {i \in DOMAIN l.items : l.items[i].id # id}
             items  == RowsAt(l.items, places)
  <1>1. Len(l.items) \in Nat /\ DOMAIN l.items = 1..Len(l.items)
    BY RowsSpan DEF ListOK
  <1>2. places \in SUBSET Nat /\ places \subseteq DOMAIN l.items
    BY <1>1
  <1>3. IsFiniteSet(places)
    <2>1. IsFiniteSet(1..Len(l.items))
      BY <1>1, FS_Interval
    <2>2. QED
      BY <1>1, <1>2, <2>1, FS_Subset
  <1>4. {l.items[i] : i \in places} = {r \in RowsOf(l.items) : r.id # id}
    BY DEF RowsOf
  <1>5. RemoveItem(l, id) = [l EXCEPT !.items = items]
    BY Zenon DEF RemoveItem
  <1> HIDE DEF places
  <1>6. IsRows(items) /\ RowsOf(items) = {l.items[i] : i \in places}
    BY <1>2, <1>3, PickedRows
  <1> HIDE DEF items
  <1>7. QED
    BY <1>4, <1>5, <1>6, FreshRows

(* A page that fails ends the loading, and takes no row away.               *)
LEMMA FailedKeeps ==
  ASSUME NEW l, ListOK(l)
  PROVE  ListOK(Failed(l)) /\ Failed(l).items = l.items
  BY DEF ListOK, Failed

(* A page that is served is kept with the request, the rows stay.           *)
LEMMA ServedKeeps ==
  ASSUME NEW l, ListOK(l), l.inFlight, NEW page, IsRows(page.items)
  PROVE  /\ ListOK(Served(l, page)) /\ Served(l, page).items = l.items
         /\ Served(l, page).request.page = page
  <1> DEFINE request == [[l.request EXCEPT !.page = page] EXCEPT !.query = none]
  <1>1. Served(l, page) = [l EXCEPT !.request = request]
    BY Zenon DEF Served
  <1>2. /\ DOMAIN request = DOMAIN l.request
        /\ "page" \in DOMAIN l.request /\ "replace" \in DOMAIN l.request
        /\ request.page = page /\ request.replace = l.request.replace
    BY DEF ListOK
  <1> HIDE DEF request
  <1>3. QED
    BY <1>1, <1>2 DEF ListOK

(* A page that lands ends the loading; its rows take the place of the       *)
(* others, or join them.                                                    *)
LEMMA LandedKeeps ==
  ASSUME NEW l, ListOK(l), l.inFlight, l.request.page # none
  PROVE  /\ ListOK(Landed(l))
         /\ RowsOf(Landed(l).items) \subseteq RowsOf(l.items) \cup RowsOf(l.request.page.items)
         /\ ~l.request.replace => RowsOf(l.items) \subseteq RowsOf(Landed(l).items)
         /\ ~Landed(l).inFlight
  <1> DEFINE items == IF l.request.replace THEN l.request.page.items
                      ELSE l.items \o l.request.page.items
             next  == l.request.page.next
  <1>1. Landed(l) = [l EXCEPT !.items = items, !.cursor = next, !.hasMore = next # none,
                              !.isLoading = FALSE, !.isFetchingMore = FALSE, !.error = FALSE,
                              !.inFlight = FALSE, !.request = none]
    BY Zenon DEF Landed
  <1>2. IsRows(l.items) /\ IsRows(l.request.page.items) /\ l.request.replace \in BOOLEAN
    BY DEF ListOK
  <1>3. /\ IsRows(items)
        /\ RowsOf(items) \subseteq RowsOf(l.items) \cup RowsOf(l.request.page.items)
        /\ ~l.request.replace => RowsOf(l.items) \subseteq RowsOf(items)
    BY <1>2, JoinRows
  <1> HIDE DEF items, next
  <1>4. Landed(l).items = items /\ ~Landed(l).inFlight
    BY <1>1 DEF ListOK
  <1>5. ListOK(Landed(l))
    BY <1>1, <1>3 DEF ListOK
  <1>6. QED
    BY <1>3, <1>4, <1>5

(* A row has an id that is not null.                                         *)
Named(r) == "id" \in DOMAIN r /\ r.id # none

(* Asking for more takes no row away.                                       *)
LEMMA MoreKeeps ==
  ASSUME NEW l, ListOK(l), NEW q
  PROVE  ListOK(FetchMore(l, q)) /\ FetchMore(l, q).items = l.items
  BY DEF ListOK, FetchMore, FetchPage

(* The ids of a scene are finitely many numbers.                            *)
LEMMA SceneIds ==
  ASSUME scene \in Scenes
  PROVE  /\ Id \in SUBSET Nat /\ IsFiniteSet(Id) /\ none \notin Id
         /\ \A S \in SUBSET Id : IsFiniteSet(S) /\ Cardinality(S) \in Nat
  <1>1. scene.old + scene.new \in Nat /\ scene.size \in Nat /\ none \notin Nat
    BY ConsoleAssumption DEF Scene
  <1>2. Id \in SUBSET Nat /\ IsFiniteSet(Id)
    BY <1>1, FS_Interval DEF Id
  <1>3. QED
    BY <1>1, <1>2, FS_Subset, FS_CardinalityType

(* A page read from the database is a sequence of rows with ids.            *)
LEMMA PageRead ==
  ASSUME scene \in Scenes, NEW q, NEW cursor
  PROVE  /\ IsRows(ReadPage(q, cursor).items)
         /\ \A r \in RowsOf(ReadPage(q, cursor).items) : Named(r)
  <1> DEFINE hits == {id \in Id : Exists(id) /\ Matches(q, id) /\ (cursor = none \/ id < cursor)}
             k == Cardinality(hits)
             Newest(n) == Nth(hits, k + 1 - n)
             size == IF k > scene.size THEN scene.size ELSE k
             items == ReadPage(q, cursor).items
  <1>1. hits \in SUBSET Nat /\ IsFiniteSet(hits) /\ k \in Nat /\ none \notin hits
    BY SceneIds
  <1>2. size \in Nat /\ size <= k
    BY <1>1, ConsoleAssumption DEF Scene
  <1>3. items = [n \in 1..size |-> Copy(Newest(n))]
    BY Zenon DEF ReadPage
  <1> HIDE DEF hits, k, size
  <1>4. \A n \in 1..size : Newest(n) \in hits
    <2> TAKE n \in 1..size
    <2>1. k + 1 - n \in 1..k
      BY <1>1, <1>2
    <2>2. QED
      BY <1>1, <2>1, NthIsMember DEF k
  <1>5. \A n \in 1..size : Named(Copy(Newest(n)))
    BY <1>1, <1>4 DEF Named, Copy
  <1> HIDE DEF items, Newest
  <1>6. DOMAIN items = 1..size /\ items = [n \in 1..size |-> items[n]]
    BY <1>3
  <1>7. IsRows(items)
    BY <1>2, <1>6, MakeRows
  <1>8. \A r \in RowsOf(items) : Named(r)
    BY <1>3, <1>5, <1>6 DEF RowsOf
  <1>9. QED
    BY <1>7, <1>8 DEF items

-----------------------------------------------------------------------------
(* What every step does to the list.                                        *)

(* What a step of a page does to the list: it leaves it, loads it anew, is  *)
(* mounted afresh, or does something to a row that a request of this visit  *)
(* is about.                                                                *)
Rewritten(c) ==
  \/ /\ c.kind \in {"jobApprove", "jobSave", "companySave"}
     /\ list' = UpdateItem(list, c.row, LAMBDA r : c.result)
  \/ /\ c.kind \in {"jobReject", "inviteRevoke"}
     /\ list' = UpdateItem(list, c.row, LAMBDA r : [c.saw.from EXCEPT !.status = "CLOSED"])
  \/ \E edit : list' = UpdateItem(list, c.row, LAMBDA r : [r EXCEPT !.edit = edit])
  \/ \E status : list' = UpdateItem(list, c.row, LAMBDA r : [r EXCEPT !.status = status])
Prepended(c) ==
  /\ c.kind \in {"jobCreate", "inviteCreate"} /\ c.at = "done"
  /\ list' = PrependItem(list, c.result)
Handled(c) ==
  /\ c.visit = visit
  /\ list' = RemoveItem(list, c.row) \/ Rewritten(c) \/ Prepended(c)
ListStep ==
  \/ list' = list
  \/ \E q : list' = Reload(list, q)
  \/ away' /\ FreshPage
  \/ \E c \in calls : Handled(c)
  \/ \E c \in calls' : c.visit = visit /\ list' = RemoveItem(list, c.row)

(* The request a handler sends.                                             *)
CallFields == {"n", "kind", "op", "row", "to", "saw", "visit", "live", "at", "result"}
Fresh(c, kind, op, row, to) ==
  /\ DOMAIN c = CallFields
  /\ c.kind = kind /\ c.op = op /\ c.row = row.id /\ c.to = to
  /\ c.saw = Closure(kind, row) /\ c.visit = visit /\ c.at = "sent"

(* What sending adds to the requests.                                       *)
LEMMA SentCall ==
  ASSUME NEW others, NEW kind, NEW op, NEW row, NEW to, SendBeside(others, kind, op, row, to)
  PROVE  \E c : Fresh(c, kind, op, row, to) /\ calls' = others \cup {c}
  <1> DEFINE c == [n |-> sent + 1, kind |-> kind, op |-> op, row |-> row.id, to |-> to,
                   saw |-> Closure(kind, row), visit |-> visit, live |-> TRUE,
                   at |-> "sent", result |-> none]
  <1>1. calls' = others \cup {c}
    BY Zenon DEF SendBeside
  <1>2. Fresh(c, kind, op, row, to)
    BY DEF Fresh, CallFields
  <1> HIDE DEF c
  <1>3. QED
    BY <1>1, <1>2

(* Confirming, and opening a dialog, leave the list.                        *)
LEMMA ConfirmLeavesList ==
  ASSUME NEW k, NEW flag, NEW kind, NEW op, NEW to, Confirm(k, flag, kind, op, to)
  PROVE  ListStep
  BY DEF Confirm, view, ListStep

LEMMA OpenLeavesList ==
  ASSUME NEW k, NEW row, OpenFor(k, row)
  PROVE  ListStep
  BY DEF OpenFor, view, ListStep

(* Another query, or another filter in the browser.                         *)
LEMMA BrowseReloads ==
  /\ \A q : NewFetcher(q) => ListStep
  /\ ToggleNarrow => ListStep
  BY DEF NewFetcher, SetList, Look, ToggleNarrow, ListStep

(* The page of jobs.                                                        *)
LEMMA JobsPageLists == JobsPage => ListStep
  <1>1. JobsBrowse => ListStep
    BY BrowseReloads DEF JobsBrowse, Browse
  <1>2. JobsOpen \/ JobsOpenCreate => ListStep
    BY OpenLeavesList DEF JobsOpen, JobsOpenCreate
  <1>3. JobsReject \/ JobsDelete => ListStep
    BY ConfirmLeavesList DEF JobsReject, JobsDelete
  <1>4. JobsApprove \/ JobDialogSave \/ JobCreateSave => ListStep
    BY DEF JobsApprove, JobDialogSave, JobCreateSave, view, ListStep
  <1>5. (\E k : JobDialogHandsOver(k)) => ListStep
    BY DEF JobDialogHandsOver, view, ListStep
  <1>6. ASSUME NEW c \in calls,
               \/ JobsApproved(c) \/ JobsRejected(c) \/ JobsDeleted(c) \/ JobDialogSaved(c)
               \/ JobCreated(c)
        PROVE  ListStep
    <2>1. CASE JobsApproved(c)
      BY <2>1
         DEF JobsApproved, Answered, SetList, Look, Handled, Rewritten, UpdateItem,
             Succeeded, ListStep
    <2>2. CASE JobsRejected(c)
      BY <2>2
         DEF JobsRejected, Answered, SetList, Look, Handled, Rewritten, UpdateItem,
             Succeeded, ListStep
    <2>3. CASE JobsDeleted(c)
      BY <2>3
         DEF JobsDeleted, DeletedFromList, Answered, Look, Handled, ListStep
    <2>4. CASE JobDialogSaved(c)
      BY <2>4
         DEF JobDialogSaved, Answered, SetList, Look, Handled, Rewritten, UpdateItem,
             Succeeded, ListStep
    <2>5. CASE JobCreated(c)
      BY <2>5
         DEF JobCreated, Answered, SetList, Look, Handled, Prepended, Succeeded, ListStep
    <2>6. QED
      BY <1>6, <2>1, <2>2, <2>3, <2>4, <2>5
  <1>7. QED
    BY <1>1, <1>2, <1>3, <1>4, <1>5, <1>6 DEF JobsPage

(* The page of applications.                                                *)
LEMMA ApplicationsPageLists == ApplicationsPage => ListStep
  <1>1. ApplicationsBrowse => ListStep
    BY BrowseReloads DEF ApplicationsBrowse, Browse
  <1>2. ApplicationsOpen => ListStep
    BY OpenLeavesList DEF ApplicationsOpen
  <1>3. ApplicationsDelete \/ NotesDialogSave => ListStep
    BY ConfirmLeavesList DEF ApplicationsDelete, NotesDialogSave
  <1>4. HeaderSaveNotes \/ (\E to : HeaderSaveStatus(to)) => ListStep
    BY DEF HeaderSaveNotes, HeaderSaveStatus, view, ListStep
  <1>5. ASSUME NEW c \in calls,
               \/ ApplicationsDeleted(c) \/ NotesDialogSaved(c) \/ HeaderStatusSaved(c)
               \/ HeaderNotesSaved(c)
        PROVE  ListStep
    <2>1. CASE ApplicationsDeleted(c)
      BY <2>1
         DEF ApplicationsDeleted, DeletedFromList, Answered, Look, Handled, ListStep
    <2>2. CASE NotesDialogSaved(c)
      BY <2>2
         DEF NotesDialogSaved, Answered, SetList, Look, Handled, Rewritten, UpdateItem,
             Succeeded, ListStep
    <2>3. CASE HeaderStatusSaved(c)
      BY <2>3
         DEF HeaderStatusSaved, Answered, SetList, Look, Handled, Rewritten, UpdateItem,
             Succeeded, ListStep
    <2>4. CASE HeaderNotesSaved(c)
      BY <2>4
         DEF HeaderNotesSaved, Answered, SetList, Look, Handled, Rewritten, UpdateItem,
             Succeeded, ListStep
    <2>5. QED
      BY <1>5, <2>1, <2>2, <2>3, <2>4
  <1>6. QED
    BY <1>1, <1>2, <1>3, <1>4, <1>5 DEF ApplicationsPage

(* The page of candidates.                                                  *)
LEMMA CandidatesPageLists == CandidatesPage => ListStep
  <1>1. CandidatesBrowse => ListStep
    BY BrowseReloads DEF CandidatesBrowse
  <1>2. CandidatesOpen => ListStep
    BY OpenLeavesList DEF CandidatesOpen
  <1>3. CandidatesDelete \/ CandidatePaneDelete => ListStep
    BY ConfirmLeavesList DEF CandidatesDelete, CandidatePaneDelete
  <1>4. ASSUME NEW c \in calls,
               CandidatesDeleted(c) \/ CandidatePaneDeleted(c)
        PROVE  ListStep
    <2>1. CASE CandidatesDeleted(c)
      BY <2>1
         DEF CandidatesDeleted, DeletedFromList, Answered, Look, Handled, ListStep
    <2>2. CASE CandidatePaneDeleted(c)
      BY <2>2
         DEF CandidatePaneDeleted, Answered, SetList, Look, Handled, ListStep
    <2>3. QED
      BY <1>4, <2>1, <2>2
  <1>5. QED
    BY <1>1, <1>2, <1>3, <1>4 DEF CandidatesPage

(* The tab of active companies and a company's record.                      *)
LEMMA CompaniesPageLists == CompaniesPage => ListStep
  <1>1. CompaniesBrowse => ListStep
    BY BrowseReloads DEF CompaniesBrowse
  <1>2. CompaniesOpen \/ CreateCompany => ListStep
    BY OpenLeavesList DEF CompaniesOpen, CreateCompany
  <1>3. TabDelete \/ PaneDelete \/ CreateCompanySave => ListStep
    BY ConfirmLeavesList DEF TabDelete, PaneDelete, CreateCompanySave
  <1>4. (\E k : EditCompanySave(k)) => ListStep
    BY ConfirmLeavesList DEF EditCompanySave
  <1>5. ASSUME NEW c \in calls,
               \/ TabDeleted(c) \/ TabEditSaved(c) \/ PaneEditSaved(c) \/ PaneDeleted(c)
               \/ CompanyCreated(c)
        PROVE  ListStep
    <2>1. CASE TabDeleted(c)
      BY <2>1
         DEF TabDeleted, Answered, SetList, Look, Handled, ListStep
    <2>2. CASE TabEditSaved(c)
      BY <2>2
         DEF TabEditSaved, Answered, SetList, Look, Handled, Rewritten, UpdateItem,
             Succeeded, ListStep
    <2>3. CASE PaneEditSaved(c)
      BY <2>3
         DEF PaneEditSaved, SetList, Look, ListStep
    <2>4. CASE PaneDeleted(c)
      BY <2>4
         DEF PaneDeleted, view, ListStep
    <2>5. CASE CompanyCreated(c)
      BY <2>5
         DEF CompanyCreated, view, ListStep
    <2>6. QED
      BY <1>5, <2>1, <2>2, <2>3, <2>4, <2>5
  <1>6. QED
    BY <1>1, <1>2, <1>3, <1>4, <1>5 DEF CompaniesPage

(* The tabs of pending companies and of invites.                            *)
LEMMA PendingPageLists == PendingPage => ListStep
  <1>1. PendingBrowse => ListStep
    BY BrowseReloads DEF PendingBrowse
  <1>2. PendingOpenReject => ListStep
    BY OpenLeavesList DEF PendingOpenReject
  <1>3. PendingReject => ListStep
    BY ConfirmLeavesList DEF PendingReject
  <1>4. PendingApprove => ListStep
    BY DEF PendingApprove, view, ListStep
  <1>5. ASSUME NEW c \in calls,
               PendingApproved(c) \/ PendingRejected(c)
        PROVE  ListStep
    <2>1. CASE PendingApproved(c)
      BY <2>1
         DEF PendingApproved, Answered, SetList, Look, Handled, Rewritten, UpdateItem,
             Succeeded, ListStep
    <2>2. CASE PendingRejected(c)
      BY <2>2
         DEF PendingRejected, Answered, SetList, Look, Handled, ListStep
    <2>3. QED
      BY <1>5, <2>1, <2>2
  <1>6. QED
    BY <1>1, <1>2, <1>3, <1>4, <1>5 DEF PendingPage

LEMMA InvitesPageLists == InvitesPage => ListStep
  <1>1. InvitesBrowse => ListStep
    BY BrowseReloads DEF InvitesBrowse
  <1>2. InvitesOpen \/ InviteOpenForm => ListStep
    BY OpenLeavesList DEF InvitesOpen, InviteOpenForm
  <1>3. InviteRevoke \/ InviteDelete \/ InviteCreate => ListStep
    BY ConfirmLeavesList DEF InviteRevoke, InviteDelete, InviteCreate
  <1>4. InviteResend => ListStep
    BY DEF InviteResend, view, ListStep
  <1>5. ASSUME NEW c \in calls,
               \/ InviteRevoked(c) \/ InviteDeleted(c) \/ InviteResent(c)
               \/ InviteCreated(c)
        PROVE  ListStep
    <2>1. CASE InviteRevoked(c)
      BY <2>1
         DEF InviteRevoked, Answered, SetList, Look, Handled, Rewritten, UpdateItem,
             Succeeded, ListStep
    <2>2. CASE InviteDeleted(c)
      BY <2>2
         DEF InviteDeleted, Answered, SetList, Look, Handled, ListStep
    <2>3. CASE InviteResent(c)
      BY <2>3
         DEF InviteResent, SetList, Look, ListStep
    <2>4. CASE InviteCreated(c)
      BY <2>4
         DEF InviteCreated, Answered, SetList, Look, Handled, Prepended, Succeeded, ListStep
    <2>5. QED
      BY <1>5, <2>1, <2>2, <2>3, <2>4
  <1>6. QED
    BY <1>1, <1>2, <1>3, <1>4, <1>5 DEF InvitesPage

(* A decision in a queue takes its row away and sends a request about it.   *)
LEMMA QueueDecides ==
  ASSUME NEW to, JobsQueueDecide(to) \/ ApplicationsQueueDecide(to)
  PROVE  ListStep
  <1>1. ASSUME NEW others, NEW kind, NEW op, NEW row, SendBeside(others, kind, op, row, to),
               list' = RemoveItem(list, row.id)
        PROVE  ListStep
    BY <1>1, SentCall DEF Fresh, ListStep
  <1>2. CASE JobsQueueDecide(to)
    BY <1>1, <1>2 DEF JobsQueueDecide, Send, Advance, Look
  <1>3. CASE ApplicationsQueueDecide(to)
    <2>1. [Blank EXCEPT !.id = selected].id = selected
      BY DEF Blank
    <2>2. QED
      BY <1>1, <1>3, <2>1 DEF ApplicationsQueueDecide, Advance, Look
  <1>4. QED
    BY <1>2, <1>3

(* The three tabs of the review queue.                                      *)
LEMMA QueuePagesList == JobsQueuePage \/ ApplicationsQueuePage \/ CompaniesQueuePage => ListStep
  <1>1. (\E to : JobsQueueDecide(to) \/ ApplicationsQueueDecide(to)) => ListStep
    BY QueueDecides
  <1>2. HeaderSaveNotes \/ (\E to : HeaderSaveStatus(to)) => ListStep
    BY DEF HeaderSaveNotes, HeaderSaveStatus, view, ListStep
  <1>3. UndoDecision \/ BannerExpires => ListStep
    BY DEF UndoDecision, BannerExpires, view, ListStep
  <1>4. (\E kind, op : CompaniesQueueDecide(kind, op)) => ListStep
    BY DEF CompaniesQueueDecide, view, ListStep
  <1>5. ASSUME NEW c \in calls,
               \/ JobsQueueDecided(c) \/ ApplicationsQueueDecided(c) \/ DecisionUndone(c)
               \/ QueueStatusSaved(c) \/ HeaderNotesSaved(c) \/ CompaniesQueueDecided(c)
        PROVE  ListStep
    <2>1. CASE JobsQueueDecided(c)
      BY <2>1
         DEF JobsQueueDecided, SetList, Look, ListStep
    <2>2. CASE ApplicationsQueueDecided(c)
      BY <2>2
         DEF ApplicationsQueueDecided, SetList, Look, ListStep
    <2>3. CASE DecisionUndone(c)
      BY <2>3
         DEF DecisionUndone, SetList, Look, ListStep
    <2>4. CASE QueueStatusSaved(c)
      BY <2>4
         DEF QueueStatusSaved, Answered, SetList, Look, Handled, Advance, ListStep
    <2>5. CASE HeaderNotesSaved(c)
      BY <2>5
         DEF HeaderNotesSaved, Answered, SetList, Look, Handled, Rewritten, UpdateItem,
             Succeeded, ListStep
    <2>6. CASE CompaniesQueueDecided(c)
      BY <2>6
         DEF CompaniesQueueDecided, Answered, SetList, Look, Handled, Advance, ListStep
    <2>7. QED
      BY <1>5, <2>1, <2>2, <2>3, <2>4, <2>5, <2>6
  <1>6. QED
    BY <1>1, <1>2, <1>3, <1>4, <1>5 DEF JobsQueuePage, ApplicationsQueuePage,
       CompaniesQueuePage

(* An answer that comes too late only ever goes to the list.                *)
LEMMA LateLists ==
  ASSUME NEW c \in calls, AnsweredLate(c)
  PROVE  ListStep
  <1>1. ToTheList => ListStep
    BY DEF ToTheList, Here, Look, view, ListStep
  <1>2. QED
    BY <1>1 DEF AnsweredLate, view, ListStep

(* A page of rows under way: served, landed, failed, or the next one asked. *)
ListPaging ==
  /\ Here
  /\ \/ ServePage
     \/ list.inFlight /\ list.request.page # none /\ list' = Landed(list)
     \/ list' = Failed(list)
     \/ \E q : list' = FetchMore(list, q)

(* Every action is one of the steps above, or a step of the paging.         *)
LEMMA NextLists == [Next]_vars => ListStep \/ ListPaging
  <1> SUFFICES ASSUME [Next]_vars PROVE ListStep \/ ListPaging
    OBVIOUS
  <1>1. ServePage \/ LandPage \/ PageFails \/ ScrollToEnd => ListPaging
    BY DEF ServePage, LandPage, PageFails, ScrollToEnd, SetList, Look, ListPaging
  <1>2. Retry => ListStep
    BY DEF Retry, SetList, Look, ListStep
  <1>3. PaneFetched \/ PaneFails => ListStep
    BY DEF PaneFetched, PaneFails, ListStep
  <1>4. (\E id : Select(id)) => ListStep
    BY DEF Select, Look, ListStep
  <1>5. (\E k \in Dialogs : Dismiss(k)) => ListStep
    BY DEF Dismiss, ListStep, view
  <1>6. PageStep => ListStep
    BY JobsPageLists, ApplicationsPageLists, CandidatesPageLists, CompaniesPageLists,
       PendingPageLists, InvitesPageLists, QueuePagesList DEF PageStep
  <1>7. (\E c \in calls : Serve(c) \/ Fail(c) \/ AnsweredLate(c)) => ListStep
    BY LateLists DEF Serve, Fail, ListStep, view
  <1>8. Leave \/ Return \/ UNCHANGED vars => ListStep
    BY DEF Leave, Return, ListStep, view, vars
  <1>9. QED
    BY <1>1, <1>2, <1>3, <1>4, <1>5, <1>6, <1>7, <1>8 DEF Next

Closed(c) == [c.saw.from EXCEPT !.status = "CLOSED"]

(* Rewriting rows leaves the ones with another id.                          *)
LEMMA RewrittenKeeps ==
  ASSUME ListOK(list), NEW c, Rewritten(c)
  PROVE  \E items :
           /\ list' = [list EXCEPT !.items = items]
           /\ IsRows(items) /\ DOMAIN items = DOMAIN list.items
           /\ \A i \in DOMAIN items :
                \/ list.items[i].id # c.row /\ items[i] = list.items[i]
                \/ /\ list.items[i].id = c.row
                   /\ \/ c.kind \in {"jobApprove", "jobSave", "companySave"}
                      \/ /\ c.kind \in {"jobReject", "inviteRevoke"}
                         /\ items[i] = Closed(c)
                      \/ Named(list.items[i]) => Named(items[i])
  <1> DEFINE old == list.items
             With(new) == [i \in DOMAIN old |-> IF old[i].id = c.row THEN new[i] ELSE old[i]]
  <1>1. Len(old) \in Nat /\ DOMAIN old = 1..Len(old)
    BY RowsSpan DEF ListOK
  <1>2. \A new : /\ IsRows(With(new)) /\ DOMAIN With(new) = DOMAIN old
                 /\ \A i \in DOMAIN old :
                      With(new)[i] = IF old[i].id = c.row THEN new[i] ELSE old[i]
    <2> TAKE new
    <2> DEFINE items == With(new)
    <2>1. DOMAIN items = 1..Len(old) /\ items = [i \in 1..Len(old) |-> items[i]]
      BY <1>1
    <2>2. \A i \in DOMAIN old : items[i] = IF old[i].id = c.row THEN new[i] ELSE old[i]
      OBVIOUS
    <2> HIDE DEF items
    <2>3. IsRows(items)
      BY <1>1, <2>1, MakeRows
    <2>4. QED
      BY <1>1, <2>1, <2>2, <2>3 DEF items
  <1>3. CASE /\ c.kind \in {"jobApprove", "jobSave", "companySave"}
             /\ list' = UpdateItem(list, c.row, LAMBDA r : c.result)
    <2> DEFINE new == [i \in DOMAIN old |-> c.result]
               items == With(new)
    <2>1. list' = [list EXCEPT !.items = items]
      BY <1>3 DEF UpdateItem
    <2> HIDE DEF new
    <2>2. /\ IsRows(items) /\ DOMAIN items = DOMAIN old
          /\ \A i \in DOMAIN old : items[i] = IF old[i].id = c.row THEN new[i] ELSE old[i]
      BY <1>2
    <2> HIDE DEF items
    <2>3. QED
      BY <1>3, <2>1, <2>2
  <1>4. CASE /\ c.kind \in {"jobReject", "inviteRevoke"}
             /\ list' = UpdateItem(list, c.row, LAMBDA r : [c.saw.from EXCEPT !.status = "CLOSED"])
    <2> DEFINE new == [i \in DOMAIN old |-> [c.saw.from EXCEPT !.status = "CLOSED"]]
               items == With(new)
    <2>1. list' = [list EXCEPT !.items = items]
      BY <1>4 DEF UpdateItem
    <2>2. \A i \in DOMAIN old : new[i] = Closed(c)
      BY DEF Closed
    <2> HIDE DEF new
    <2>3. /\ IsRows(items) /\ DOMAIN items = DOMAIN old
          /\ \A i \in DOMAIN old : items[i] = IF old[i].id = c.row THEN new[i] ELSE old[i]
      BY <1>2
    <2> HIDE DEF items
    <2>4. \A i \in DOMAIN items :
            \/ old[i].id # c.row /\ items[i] = old[i]
            \/ old[i].id = c.row /\ items[i] = Closed(c)
      BY <2>2, <2>3
    <2> HIDE DEF With
    <2>5. QED
      BY <1>4, <2>1, <2>3, <2>4
  <1>5. CASE \E edit : list' = UpdateItem(list, c.row, LAMBDA r : [r EXCEPT !.edit = edit])
    <2> PICK edit : list' = UpdateItem(list, c.row, LAMBDA r : [r EXCEPT !.edit = edit])
      BY <1>5
    <2> DEFINE new == [i \in DOMAIN old |-> [old[i] EXCEPT !.edit = edit]]
               items == With(new)
    <2>1. list' = [list EXCEPT !.items = items]
      BY DEF UpdateItem
    <2>2. \A i \in DOMAIN old : new[i] = [old[i] EXCEPT !.edit = edit]
      OBVIOUS
    <2> HIDE DEF new
    <2>3. /\ IsRows(items) /\ DOMAIN items = DOMAIN old
          /\ \A i \in DOMAIN old : items[i] = IF old[i].id = c.row THEN new[i] ELSE old[i]
      BY <1>2
    <2> HIDE DEF items
    <2>4. \A i \in DOMAIN items :
            \/ old[i].id # c.row /\ items[i] = old[i]
            \/ old[i].id = c.row /\ (Named(old[i]) => Named(items[i]))
      BY <2>2, <2>3 DEF Named
    <2> HIDE DEF With
    <2>5. QED
      BY <2>1, <2>3, <2>4
  <1>6. CASE \E status : list' = UpdateItem(list, c.row, LAMBDA r : [r EXCEPT !.status = status])
    <2> PICK status : list' = UpdateItem(list, c.row, LAMBDA r : [r EXCEPT !.status = status])
      BY <1>6
    <2> DEFINE new == [i \in DOMAIN old |-> [old[i] EXCEPT !.status = status]]
               items == With(new)
    <2>1. list' = [list EXCEPT !.items = items]
      BY DEF UpdateItem
    <2>2. \A i \in DOMAIN old : new[i] = [old[i] EXCEPT !.status = status]
      OBVIOUS
    <2> HIDE DEF new
    <2>3. /\ IsRows(items) /\ DOMAIN items = DOMAIN old
          /\ \A i \in DOMAIN old : items[i] = IF old[i].id = c.row THEN new[i] ELSE old[i]
      BY <1>2
    <2> HIDE DEF items
    <2>4. \A i \in DOMAIN items :
            \/ old[i].id # c.row /\ items[i] = old[i]
            \/ old[i].id = c.row /\ (Named(old[i]) => Named(items[i]))
      BY <2>2, <2>3 DEF Named
    <2> HIDE DEF With
    <2>5. QED
      BY <2>1, <2>3, <2>4
  <1>7. QED
    BY <1>3, <1>4, <1>5, <1>6 DEF Rewritten

(* A step of a page leaves a list as it should be.                          *)
LEMMA ListStepKeeps ==
  ASSUME ListOK(list), ListStep
  PROVE  ListOK(list')
  <1>1. ASSUME NEW c, Rewritten(c) PROVE ListOK(list')
    BY <1>1, RewrittenKeeps, FreshRows
  <1>2. ASSUME NEW c, Handled(c) PROVE ListOK(list')
    BY <1>1, <1>2, RemoveKeeps, PrependKeeps DEF Handled, Prepended
  <1>3. FreshPage => ListOK(list')
    BY EmptyKeeps DEF FreshPage
  <1>4. QED
    BY <1>2, <1>3, ReloadKeeps, RemoveKeeps DEF ListStep

(* So does a step of the paging.                                            *)
LEMMA ListPagingKeeps ==
  ASSUME scene \in Scenes, ListOK(list), ListPaging
  PROVE  ListOK(list')
  <1>1. ServePage => ListOK(list')
    <2> DEFINE page == ReadPage(list.request.query, list.request.cursor)
    <2>1. IsRows(page.items)
      BY PageRead
    <2>2. ServePage => list.inFlight /\ list' = Served(list, page)
      BY DEF ServePage
    <2> HIDE DEF page
    <2>3. QED
      BY <2>1, <2>2, ServedKeeps
  <1>2. list.inFlight /\ list.request.page # none /\ list' = Landed(list) => ListOK(list')
    BY LandedKeeps
  <1>3. \A q : ListOK(FetchMore(list, q))
    BY MoreKeeps
  <1>4. QED
    BY <1>1, <1>2, <1>3, FailedKeeps DEF ListPaging

(* While the page stays, a row leaves the list only with a page that takes  *)
(* the place of all rows, or because of a request about it.                 *)
Excused(id) ==
  \/ list.inFlight /\ list.request.replace /\ ~list'.inFlight
  \/ \E c \in calls \cup calls' : c.visit = visit /\ c.row = id

LEMMA RowsStay ==
  ASSUME scene \in Scenes, ListOK(list), [Next]_vars, ~away', NEW id,
         InList(list, id), ~InList(list', id)
  PROVE  Excused(id)
  <1> DEFINE Has(l) == \E r \in RowsOf(l.items) : r.id = id
  <1>1. \A l : InList(l, id) <=> Has(l)
    BY DEF InList, RowsOf
  <1>2. Has(list) /\ ~Has(list')
    BY <1>1
  <1>3. CASE ListPaging
    <2>1. \A q : FetchMore(list, q).items = list.items
      BY MoreKeeps
    <2>2. ServePage => list'.items = list.items
      <3> DEFINE page == ReadPage(list.request.query, list.request.cursor)
      <3>1. IsRows(page.items)
        BY PageRead
      <3>2. ServePage => list.inFlight /\ list' = Served(list, page)
        BY DEF ServePage
      <3> HIDE DEF page
      <3>3. QED
        BY <3>1, <3>2, ServedKeeps
    <2>3. list.inFlight /\ list.request.page # none /\ list' = Landed(list)
      BY <1>2, <1>3, <2>1, <2>2, FailedKeeps DEF ListPaging
    <2>4. list.request.replace /\ ~list'.inFlight
      BY <1>2, <2>3, LandedKeeps DEF ListOK
    <2>5. QED
      BY <2>3, <2>4 DEF Excused
  <1>4. CASE ListStep
    <2>1. \A q : Reload(list, q).items = list.items
      BY ReloadKeeps
    <2>2. ASSUME NEW x, list' = RemoveItem(list, x) PROVE x = id
      BY <1>2, <2>2, RemoveKeeps
    <2>3. ASSUME NEW c, Rewritten(c) PROVE c.row = id
      <3>1. PICK items : /\ list' = [list EXCEPT !.items = items]
                         /\ IsRows(items) /\ DOMAIN items = DOMAIN list.items
                         /\ \A i \in DOMAIN items : \/ items[i] = list.items[i]
                                                    \/ list.items[i].id = c.row
        BY <2>3, RewrittenKeeps
      <3>2. list'.items = items
        BY <3>1, FreshRows
      <3>3. QED
        BY <1>2, <3>1, <3>2 DEF RowsOf
    <2>4. ASSUME NEW c, Prepended(c) PROVE FALSE
      BY <1>2, <2>4, PrependKeeps DEF Prepended
    <2>5. QED
      BY <1>2, <1>4, <2>1, <2>2, <2>3, <2>4 DEF ListStep, Handled, Excused
  <1>5. QED
    BY <1>3, <1>4, NextLists

-----------------------------------------------------------------------------
(* What every step does to the flags, and to the requests they stand for.   *)

(* Requests of two pages are of kinds no other page sends.                  *)
KindFits(kind) ==
  /\ (home = "pending") <=> kind \in {"pendingApprove", "pendingReject"}
  /\ (home = "invites") <=> 
         kind \in {"inviteRevoke", "inviteDelete", "inviteResend", "inviteCreate"}

(* What a step does to the flag of the confirmations, to the acting id and  *)
(* to the requests that one of them stands for.                             *)
HasFlags    == DOMAIN busy = Flags
SameConfirm == busy'["confirm"] = busy["confirm"]
SamePlace   == UNCHANGED <<away, visit>>
Back        == away /\ ~away' /\ visit' = visit + 1
Leaves(cs)  == calls' = cs \/ calls' = PaneGone(cs)

Rests == SamePlace /\ SameConfirm /\ UNCHANGED acting /\ Leaves(calls)
Asks(kind, op, row, to) ==
  /\ Here /\ SamePlace /\ KindFits(kind)
  /\ SendBeside(calls, kind, op, row, to) \/ SendBeside(PaneGone(calls), kind, op, row, to)
  /\ kind = "inviteCreate" => op = "create"
  /\ kind = "inviteRevoke" => row = dlg["revoke"] /\ row # none
  /\ \/ /\ kind \notin Confirmed \cup Acted
        /\ SameConfirm /\ (UNCHANGED acting \/ home \notin {"pending", "invites"})
     \/ kind \in Confirmed /\ ~busy["confirm"] /\ busy'["confirm"] = TRUE /\ UNCHANGED acting
     \/ kind \in Acted /\ row \in ShownRows /\ acting = none /\ acting' = row.id /\ SameConfirm
Answers(c) ==
  /\ Here /\ c.visit = visit /\ SamePlace /\ Leaves(calls \ {c})
  /\ \/ /\ c.kind \notin Confirmed \cup Acted
        /\ SameConfirm /\ (UNCHANGED acting \/ c.kind \in {"queueInvite", "queueTurnDown"})
     \/ c.kind \in Confirmed /\ busy'["confirm"] = FALSE /\ UNCHANGED acting
     \/ c.kind \in Acted /\ acting' = none /\ SameConfirm
Departs(cs) == Here /\ away' /\ visit' = visit /\ FreshPage /\ Leaves(cs)
Late(c) ==
  /\ away \/ c.visit # visit
  /\ Leaves(calls \ {c}) /\ SameConfirm /\ UNCHANGED acting
  /\ SamePlace \/ Back
Returns == Back /\ SameConfirm /\ UNCHANGED <<acting, calls>>
Replies(c) == Serve(c) \/ Fail(c)

FlagStep ==
  /\ UNCHANGED scene /\ HasFlags'
  /\ \/ Rests \/ Returns
     \/ \E kind, op, row, to : Asks(kind, op, row, to)
     \/ \E c \in calls : Answers(c) \/ Late(c) \/ Replies(c) \/ Departs(calls \ {c})
     \/ Departs(calls)

(* Opening a dialog, and browsing, leave the flags.                         *)
LEMMA OpenLeavesFlags ==
  ASSUME HasFlags, NEW k, NEW row, OpenFor(k, row)
  PROVE  FlagStep
  BY DEF OpenFor, place, server, FlagStep, Rests, SamePlace, SameConfirm, Leaves, HasFlags

LEMMA BrowseLeavesFlags ==
  ASSUME HasFlags
  PROVE  /\ \A q : NewFetcher(q) => FlagStep
         /\ ToggleNarrow => FlagStep
  BY DEF NewFetcher, ToggleNarrow, place, modals, server, FlagStep, Rests, SamePlace,
         SameConfirm, Leaves, HasFlags

(* A confirmation raises a flag that was down and sends one request.        *)
LEMMA ConfirmAsks ==
  ASSUME HasFlags, NEW k, NEW flag \in Flags, NEW kind, NEW op, NEW to,
         Confirm(k, flag, kind, op, to), KindFits(kind),
         kind = "inviteCreate" => op = "create",
         kind = "inviteRevoke" => k = "revoke",
         flag = "confirm" => kind \in Confirmed,
         flag # "confirm" => kind \notin Confirmed \cup Acted
  PROVE  FlagStep
  <1>1. Here /\ dlg[k] # none /\ ~busy[flag] /\ busy' = [busy EXCEPT ![flag] = TRUE]
    BY DEF Confirm, Raise
  <1>2. SendBeside(calls, kind, op, dlg[k], to) /\ UNCHANGED <<scene, away, visit, acting>>
    BY DEF Confirm, Send, place
  <1>3. HasFlags' /\ busy'[flag] = TRUE
    BY <1>1 DEF HasFlags
  <1>4. flag # "confirm" => busy'["confirm"] = busy["confirm"]
    BY <1>1 DEF HasFlags, Flags
  <1>5. Asks(kind, op, dlg[k], to)
    BY <1>1, <1>2, <1>3, <1>4 DEF Asks, SamePlace, SameConfirm
  <1>6. QED
    BY <1>2, <1>3, <1>5 DEF FlagStep

(* The page of jobs.                                                        *)
LEMMA JobsPageFlags ==
  ASSUME HasFlags, JobsPage
  PROVE  FlagStep
  <1>1. JobsBrowse => FlagStep
    BY BrowseLeavesFlags DEF JobsBrowse, Browse
  <1>2. JobsOpen \/ JobsOpenCreate => FlagStep
    BY OpenLeavesFlags DEF JobsOpen, JobsOpenCreate
  <1>3. JobsReject => FlagStep
    BY ConfirmAsks DEF JobsReject, KindFits, Confirmed, Acted, Flags
  <1>4. JobsDelete => FlagStep
    BY ConfirmAsks DEF JobsDelete, KindFits, Confirmed, Acted, Flags
  <1>5. JobsApprove => FlagStep
    BY DEF JobsApprove, At, Asks, Send, place, view, modals, FlagStep, SamePlace,
           SameConfirm, HasFlags, Flags, KindFits, Confirmed, Acted
  <1>6. JobDialogSave => FlagStep
    BY DEF JobDialogSave, At, Asks, Send, place, view, modals, FlagStep, SamePlace,
           SameConfirm, HasFlags, Flags, KindFits, Confirmed, Acted
  <1>7. JobCreateSave => FlagStep
    BY DEF JobCreateSave, At, Asks, Send, place, view, modals, FlagStep, SamePlace,
           SameConfirm, HasFlags, Flags, KindFits, Confirmed, Acted
  <1>8. (\E k : JobDialogHandsOver(k)) => FlagStep
    BY DEF JobDialogHandsOver, server, Rests, Leaves, place, view, modals, FlagStep,
           SamePlace, SameConfirm, HasFlags, Flags
  <1>9. ASSUME NEW c \in calls,
               \/ JobsApproved(c) \/ JobsRejected(c) \/ JobsDeleted(c) \/ JobDialogSaved(c)
               \/ JobCreated(c)
        PROVE  FlagStep
    <2>1. CASE JobsApproved(c)
      BY <2>1, HasFlags
         DEF JobsApproved, Answered, Done, Answers, Leaves, Confirmed, Acted, place, view,
             modals, FlagStep, SamePlace, SameConfirm, HasFlags, Flags
    <2>2. CASE JobsRejected(c)
      BY <2>2, HasFlags
         DEF JobsRejected, Lower, Answered, Done, Answers, Leaves, Confirmed, Acted, place,
             view, modals, FlagStep, SamePlace, SameConfirm, HasFlags, Flags
    <2>3. CASE JobsDeleted(c)
      BY <2>3, HasFlags
         DEF JobsDeleted, DeletedFromList, Answered, Done, Answers, Leaves, Confirmed,
             Acted, place, view, modals, FlagStep, SamePlace, SameConfirm, HasFlags, Flags
    <2>4. CASE JobDialogSaved(c)
      BY <2>4, HasFlags
         DEF JobDialogSaved, Lower, Answered, Done, Answers, Leaves, Confirmed, Acted,
             place, view, modals, FlagStep, SamePlace, SameConfirm, HasFlags, Flags
    <2>5. CASE JobCreated(c)
      BY <2>5, HasFlags
         DEF JobCreated, Lower, Answered, Done, Answers, Leaves, Confirmed, Acted, place,
             view, modals, FlagStep, SamePlace, SameConfirm, HasFlags, Flags
    <2>6. QED
      BY <1>9, <2>1, <2>2, <2>3, <2>4, <2>5
  <1>10. QED
    BY <1>1, <1>2, <1>3, <1>4, <1>5, <1>6, <1>7, <1>8, <1>9 DEF JobsPage

(* The header of a record.                                                  *)
LEMMA HeaderAsks ==
  ASSUME HasFlags, HeaderSaveNotes \/ (\E to : HeaderSaveStatus(to))
  PROVE  FlagStep
  <1>1. HeaderSaveNotes => FlagStep
    BY DEF HeaderSaveNotes, At, Raise, Asks, Send, place, view, modals, FlagStep, SamePlace,
           SameConfirm, HasFlags, Flags, KindFits, Confirmed, Acted
  <1>2. (\E to : HeaderSaveStatus(to)) => FlagStep
    BY DEF HeaderSaveStatus, At, Raise, Asks, Send, place, view, modals, FlagStep,
           SamePlace, SameConfirm, HasFlags, Flags, KindFits, Confirmed, Acted
  <1>3. QED
    BY <1>1, <1>2

(* The page of applications.                                                *)
LEMMA ApplicationsPageFlags ==
  ASSUME HasFlags, ApplicationsPage
  PROVE  FlagStep
  <1>1. ApplicationsBrowse => FlagStep
    BY BrowseLeavesFlags DEF ApplicationsBrowse, Browse
  <1>2. ApplicationsOpen => FlagStep
    BY OpenLeavesFlags DEF ApplicationsOpen
  <1>3. ApplicationsDelete => FlagStep
    BY ConfirmAsks DEF ApplicationsDelete, KindFits, Confirmed, Acted, Flags
  <1>4. NotesDialogSave => FlagStep
    BY ConfirmAsks DEF NotesDialogSave, KindFits, Confirmed, Acted, Flags
  <1>5. HeaderSaveNotes \/ (\E to : HeaderSaveStatus(to)) => FlagStep
    BY HeaderAsks
  <1>6. ASSUME NEW c \in calls,
               \/ ApplicationsDeleted(c) \/ NotesDialogSaved(c) \/ HeaderStatusSaved(c)
               \/ HeaderNotesSaved(c)
        PROVE  FlagStep
    <2>1. CASE ApplicationsDeleted(c)
      BY <2>1, HasFlags
         DEF ApplicationsDeleted, DeletedFromList, Answered, Done, Answers, Leaves,
             Confirmed, Acted, place, view, modals, FlagStep, SamePlace, SameConfirm,
             HasFlags, Flags
    <2>2. CASE NotesDialogSaved(c)
      BY <2>2, HasFlags
         DEF NotesDialogSaved, Lower, Answered, Done, Answers, Leaves, Confirmed, Acted,
             place, view, modals, FlagStep, SamePlace, SameConfirm, HasFlags, Flags
    <2>3. CASE HeaderStatusSaved(c)
      BY <2>3, HasFlags
         DEF HeaderStatusSaved, LowerIfLive, Lower, Answered, Done, Answers, Leaves,
             Confirmed, Acted, place, view, modals, FlagStep, SamePlace, SameConfirm,
             HasFlags, Flags
    <2>4. CASE HeaderNotesSaved(c)
      BY <2>4, HasFlags
         DEF HeaderNotesSaved, LowerIfLive, Lower, Answered, Done, Answers, Leaves,
             Confirmed, Acted, place, view, modals, FlagStep, SamePlace, SameConfirm,
             HasFlags, Flags
    <2>5. QED
      BY <1>6, <2>1, <2>2, <2>3, <2>4
  <1>7. QED
    BY <1>1, <1>2, <1>3, <1>4, <1>5, <1>6 DEF ApplicationsPage

(* The page of candidates.                                                  *)
LEMMA CandidatesPageFlags ==
  ASSUME HasFlags, CandidatesPage
  PROVE  FlagStep
  <1>1. CandidatesBrowse => FlagStep
    BY BrowseLeavesFlags DEF CandidatesBrowse
  <1>2. CandidatesOpen => FlagStep
    BY OpenLeavesFlags DEF CandidatesOpen
  <1>3. CandidatesDelete => FlagStep
    BY ConfirmAsks DEF CandidatesDelete, KindFits, Confirmed, Acted, Flags
  <1>4. CandidatePaneDelete => FlagStep
    BY ConfirmAsks DEF CandidatePaneDelete, KindFits, Confirmed, Acted, Flags
  <1>5. ASSUME NEW c \in calls,
               CandidatesDeleted(c) \/ CandidatePaneDeleted(c)
        PROVE  FlagStep
    <2>1. CASE CandidatesDeleted(c)
      BY <2>1, HasFlags
         DEF CandidatesDeleted, DeletedFromList, Answered, Done, Answers, Leaves, Confirmed,
             Acted, place, view, modals, FlagStep, SamePlace, SameConfirm, HasFlags, Flags
    <2>2. CASE CandidatePaneDeleted(c)
      BY <2>2, HasFlags
         DEF CandidatePaneDeleted, LowerIfLive, Lower, Answered, Done, Answers, Leaves,
             Confirmed, Acted, place, view, modals, FlagStep, SamePlace, SameConfirm,
             HasFlags, Flags
    <2>3. QED
      BY <1>5, <2>1, <2>2
  <1>6. QED
    BY <1>1, <1>2, <1>3, <1>4, <1>5 DEF CandidatesPage

(* The tab of active companies and a company's record.                      *)
LEMMA CompaniesPageFlags ==
  ASSUME HasFlags, CompaniesPage
  PROVE  FlagStep
  <1>1. CompaniesBrowse => FlagStep
    BY BrowseLeavesFlags DEF CompaniesBrowse
  <1>2. CompaniesOpen \/ CreateCompany => FlagStep
    BY OpenLeavesFlags DEF CompaniesOpen, CreateCompany
  <1>3. TabDelete => FlagStep
    BY ConfirmAsks DEF TabDelete, KindFits, Confirmed, Acted, Flags
  <1>4. PaneDelete => FlagStep
    BY ConfirmAsks DEF PaneDelete, KindFits, Confirmed, Acted, Flags
  <1>5. CreateCompanySave => FlagStep
    BY ConfirmAsks DEF CreateCompanySave, KindFits, Confirmed, Acted, Flags
  <1>6. (\E k : EditCompanySave(k)) => FlagStep
    BY ConfirmAsks DEF EditCompanySave, KindFits, Confirmed, Acted, Flags
  <1>7. ASSUME NEW c \in calls,
               \/ TabDeleted(c) \/ TabEditSaved(c) \/ PaneEditSaved(c) \/ PaneDeleted(c)
               \/ CompanyCreated(c)
        PROVE  FlagStep
    <2>1. CASE TabDeleted(c)
      BY <2>1, HasFlags
         DEF TabDeleted, Lower, Answered, Done, Answers, Leaves, Confirmed, Acted, place,
             view, modals, FlagStep, SamePlace, SameConfirm, HasFlags, Flags
    <2>2. CASE TabEditSaved(c)
      BY <2>2, HasFlags
         DEF TabEditSaved, Lower, Answered, Done, Answers, Leaves, Confirmed, Acted, place,
             view, modals, FlagStep, SamePlace, SameConfirm, HasFlags, Flags
    <2>3. CASE PaneEditSaved(c)
      BY <2>3, HasFlags
         DEF PaneEditSaved, Lower, Answered, Done, Answers, Leaves, Confirmed, Acted, place,
             view, modals, FlagStep, SamePlace, SameConfirm, HasFlags, Flags
    <2>4. CASE PaneDeleted(c)
      BY <2>4, HasFlags
         DEF PaneDeleted, Lower, Departs, FreshPage, NoFlags, Answered, Done, Answers,
             Leaves, Confirmed, Acted, place, view, modals, FlagStep, SamePlace,
             SameConfirm, HasFlags, Flags
    <2>5. CASE CompanyCreated(c)
      BY <2>5, HasFlags
         DEF CompanyCreated, Lower, Departs, FreshPage, NoFlags, Answered, Done, Answers,
             Leaves, Confirmed, Acted, place, view, modals, FlagStep, SamePlace,
             SameConfirm, HasFlags, Flags
    <2>6. QED
      BY <1>7, <2>1, <2>2, <2>3, <2>4, <2>5
  <1>8. QED
    BY <1>1, <1>2, <1>3, <1>4, <1>5, <1>6, <1>7 DEF CompaniesPage

(* The tabs of pending companies and of invites.                            *)
LEMMA PendingPageFlags ==
  ASSUME HasFlags, PendingPage
  PROVE  FlagStep
  <1>1. PendingBrowse => FlagStep
    BY BrowseLeavesFlags DEF PendingBrowse
  <1>2. PendingOpenReject => FlagStep
    BY OpenLeavesFlags DEF PendingOpenReject
  <1>3. PendingReject => FlagStep
    BY ConfirmAsks DEF PendingReject, KindFits, Confirmed, Acted, Flags
  <1>4. PendingApprove => FlagStep
    BY DEF PendingApprove, At, PendingOffers, Asks, Send, place, view, modals, FlagStep,
           SamePlace, SameConfirm, HasFlags, Flags, KindFits, Confirmed, Acted
  <1>5. ASSUME NEW c \in calls,
               PendingApproved(c) \/ PendingRejected(c)
        PROVE  FlagStep
    <2>1. CASE PendingApproved(c)
      BY <2>1, HasFlags
         DEF PendingApproved, Answered, Done, Answers, Leaves, Confirmed, Acted, place,
             view, modals, FlagStep, SamePlace, SameConfirm, HasFlags, Flags
    <2>2. CASE PendingRejected(c)
      BY <2>2, HasFlags
         DEF PendingRejected, Lower, Answered, Done, Answers, Leaves, Confirmed, Acted,
             place, view, modals, FlagStep, SamePlace, SameConfirm, HasFlags, Flags
    <2>3. QED
      BY <1>5, <2>1, <2>2
  <1>6. QED
    BY <1>1, <1>2, <1>3, <1>4, <1>5 DEF PendingPage

LEMMA InvitesPageFlags ==
  ASSUME HasFlags, InvitesPage
  PROVE  FlagStep
  <1>1. InvitesBrowse => FlagStep
    BY BrowseLeavesFlags DEF InvitesBrowse
  <1>2. InvitesOpen \/ InviteOpenForm => FlagStep
    BY OpenLeavesFlags DEF InvitesOpen, InviteOpenForm
  <1>3. InviteRevoke => FlagStep
    BY ConfirmAsks DEF InviteRevoke, KindFits, Confirmed, Acted, Flags
  <1>4. InviteDelete => FlagStep
    BY ConfirmAsks DEF InviteDelete, KindFits, Confirmed, Acted, Flags
  <1>5. InviteCreate => FlagStep
    BY ConfirmAsks DEF InviteCreate, KindFits, Confirmed, Acted, Flags
  <1>6. InviteResend => FlagStep
    BY DEF InviteResend, At, InviteMenu, Asks, Send, place, view, modals, FlagStep,
           SamePlace, SameConfirm, HasFlags, Flags, KindFits, Confirmed, Acted
  <1>7. ASSUME NEW c \in calls,
               \/ InviteRevoked(c) \/ InviteDeleted(c) \/ InviteResent(c)
               \/ InviteCreated(c)
        PROVE  FlagStep
    <2>1. CASE InviteRevoked(c)
      BY <2>1, HasFlags
         DEF InviteRevoked, Lower, Answered, Done, Answers, Leaves, Confirmed, Acted, place,
             view, modals, FlagStep, SamePlace, SameConfirm, HasFlags, Flags
    <2>2. CASE InviteDeleted(c)
      BY <2>2, HasFlags
         DEF InviteDeleted, Lower, Answered, Done, Answers, Leaves, Confirmed, Acted, place,
             view, modals, FlagStep, SamePlace, SameConfirm, HasFlags, Flags
    <2>3. CASE InviteResent(c)
      BY <2>3, HasFlags
         DEF InviteResent, Answered, Done, Answers, Leaves, Confirmed, Acted, place, view,
             modals, FlagStep, SamePlace, SameConfirm, HasFlags, Flags
    <2>4. CASE InviteCreated(c)
      BY <2>4, HasFlags
         DEF InviteCreated, Lower, Answered, Done, Answers, Leaves, Confirmed, Acted, place,
             view, modals, FlagStep, SamePlace, SameConfirm, HasFlags, Flags
    <2>5. QED
      BY <1>7, <2>1, <2>2, <2>3, <2>4
  <1>8. QED
    BY <1>1, <1>2, <1>3, <1>4, <1>5, <1>6, <1>7 DEF InvitesPage

(* The three tabs of the review queue.                                      *)
LEMMA QueuePagesFlags ==
  ASSUME HasFlags, JobsQueuePage \/ ApplicationsQueuePage \/ CompaniesQueuePage
  PROVE  FlagStep
  <1>1. (\E to : JobsQueueDecide(to)) => FlagStep
    BY DEF JobsQueueDecide, At, Asks, Send, place, view, modals, FlagStep, SamePlace,
           SameConfirm, HasFlags, Flags, KindFits, Confirmed, Acted
  <1>2. (\E to : ApplicationsQueueDecide(to)) => FlagStep
    BY DEF ApplicationsQueueDecide, At, FlagsBeside, Asks, Send, place, view, modals,
           FlagStep, SamePlace, SameConfirm, HasFlags, Flags, KindFits, Confirmed, Acted
  <1>3. HeaderSaveNotes \/ (\E to : HeaderSaveStatus(to)) => FlagStep
    BY HeaderAsks
  <1>4. UndoDecision => FlagStep
    BY DEF UndoDecision, At, Asks, Send, place, view, modals, FlagStep, SamePlace,
           SameConfirm, HasFlags, Flags, KindFits, Confirmed, Acted
  <1>5. BannerExpires => FlagStep
    BY DEF BannerExpires, server, Rests, Leaves, place, view, modals, FlagStep, SamePlace,
           SameConfirm, HasFlags, Flags
  <1>6. (\E kind \in {"queueInvite", "queueTurnDown"} : \E op : CompaniesQueueDecide(kind, op))
          => FlagStep
    BY DEF CompaniesQueueDecide, At, Asks, Send, place, view, modals, FlagStep, SamePlace,
           SameConfirm, HasFlags, Flags, KindFits, Confirmed, Acted
  <1>7. ASSUME NEW c \in calls,
               \/ JobsQueueDecided(c) \/ ApplicationsQueueDecided(c) \/ DecisionUndone(c)
               \/ QueueStatusSaved(c) \/ HeaderNotesSaved(c) \/ CompaniesQueueDecided(c)
        PROVE  FlagStep
    <2>1. CASE JobsQueueDecided(c)
      BY <2>1, HasFlags
         DEF JobsQueueDecided, Answered, Done, Answers, Leaves, Confirmed, Acted, place,
             view, modals, FlagStep, SamePlace, SameConfirm, HasFlags, Flags
    <2>2. CASE ApplicationsQueueDecided(c)
      BY <2>2, HasFlags
         DEF ApplicationsQueueDecided, Answered, Done, Answers, Leaves, Confirmed, Acted,
             place, view, modals, FlagStep, SamePlace, SameConfirm, HasFlags, Flags
    <2>3. CASE DecisionUndone(c)
      BY <2>3, HasFlags
         DEF DecisionUndone, Answered, Done, Answers, Leaves, Confirmed, Acted, place, view,
             modals, FlagStep, SamePlace, SameConfirm, HasFlags, Flags
    <2>4. CASE QueueStatusSaved(c)
      BY <2>4, HasFlags
         DEF QueueStatusSaved, LowerIfLive, Lower, FlagsBeside, Answered, Done, Answers,
             Leaves, Confirmed, Acted, place, view, modals, FlagStep, SamePlace,
             SameConfirm, HasFlags, Flags
    <2>5. CASE HeaderNotesSaved(c)
      BY <2>5, HasFlags
         DEF HeaderNotesSaved, LowerIfLive, Lower, Answered, Done, Answers, Leaves,
             Confirmed, Acted, place, view, modals, FlagStep, SamePlace, SameConfirm,
             HasFlags, Flags
    <2>6. CASE CompaniesQueueDecided(c)
      BY <2>6, HasFlags
         DEF CompaniesQueueDecided, Answered, Done, Answers, Leaves, Confirmed, Acted,
             place, view, modals, FlagStep, SamePlace, SameConfirm, HasFlags, Flags
    <2>7. QED
      BY <1>7, <2>1, <2>2, <2>3, <2>4, <2>5, <2>6
  <1>8. QED
    BY <1>1, <1>2, <1>3, <1>4, <1>5, <1>6, <1>7 DEF JobsQueuePage, ApplicationsQueuePage,
       CompaniesQueuePage

(* An answer that comes too late takes no flag down.                        *)
LEMMA LateFlags ==
  ASSUME HasFlags, NEW c \in calls, AnsweredLate(c)
  PROVE  FlagStep
  <1>1. CASE UNCHANGED <<place, view, modals>> /\ Done(c)
    BY <1>1
       DEF AnsweredLate, Done, Late, Leaves, place, modals, FlagStep, SamePlace,
           SameConfirm, HasFlags
  <1>2. CASE ToTheList /\ calls' = PaneGone(calls \ {c})
    <2>1. CASE Here /\ home # "companyRecord"
      BY <1>2, <2>1
         DEF ToTheList, AnsweredLate, FlagsBeside, Late, Leaves, Here, place, FlagStep,
             SamePlace, SameConfirm, HasFlags, Flags
    <2>2. CASE Here /\ home = "companyRecord"
      BY <1>2, <2>2
         DEF ToTheList, Departs, Leaves, Here, FreshPage, NoFlags, FlagStep, HasFlags
    <2>3. CASE away
      BY <1>2, <2>3
         DEF ToTheList, AnsweredLate, Late, Back, Leaves, Here, place, modals, FlagStep,
             SamePlace, SameConfirm, HasFlags
    <2>4. QED
      BY <2>1, <2>2, <2>3 DEF Here
  <1>3. QED
    BY <1>1, <1>2 DEF AnsweredLate

(* Every action is one of the steps above.                                  *)
LEMMA NextFlags ==
  ASSUME HasFlags, [Next]_vars
  PROVE  FlagStep
  <1>1. ServePage \/ LandPage \/ PageFails \/ ScrollToEnd \/ Retry \/ PaneFetched \/ PaneFails
        \/ UNCHANGED vars => FlagStep
    BY HasFlags
       DEF ServePage, LandPage, PageFails, ScrollToEnd, Retry, PaneFetched, PaneFails, vars,
           place, modals, server, FlagStep, Rests, SamePlace, SameConfirm, Leaves, HasFlags
  <1>2. (\E id : Select(id)) => FlagStep
    BY HasFlags
       DEF Select, place, FlagsBeside, FlagStep, Rests, SamePlace, SameConfirm, Leaves,
           HasFlags, Flags
  <1>3. (\E k \in Dialogs : Dismiss(k)) => FlagStep
    BY HasFlags
       DEF Dismiss, place, server, FlagStep, Rests, SamePlace, SameConfirm, Leaves, HasFlags
  <1>4. PageStep => FlagStep
    BY JobsPageFlags, ApplicationsPageFlags, CandidatesPageFlags, CompaniesPageFlags,
       PendingPageFlags, InvitesPageFlags, QueuePagesFlags DEF PageStep
  <1>5. (\E c \in calls : Serve(c) \/ Fail(c)) => FlagStep
    BY HasFlags DEF Serve, Fail, place, modals, FlagStep, Replies, HasFlags
  <1>6. (\E c \in calls : AnsweredLate(c)) => FlagStep
    BY LateFlags
  <1>7. Leave => FlagStep
    BY DEF Leave, Departs, Leaves, server, FreshPage, NoFlags, FlagStep, HasFlags
  <1>8. Return => FlagStep
    BY HasFlags DEF Return, Returns, Back, modals, server, FlagStep, SameConfirm, HasFlags
  <1>9. QED
    BY <1>1, <1>2, <1>3, <1>4, <1>5, <1>6, <1>7, <1>8 DEF Next

-----------------------------------------------------------------------------
(* What every step does to the dialogs.                                     *)

(* The dialog that revokes an invite is opened for a row that is shown.     *)
HasDialogs == DOMAIN dlg = Dialogs
DialogStep ==
  /\ HasDialogs'
  /\ dlg'["revoke"] \in {dlg["revoke"], none} \/ dlg'["revoke"] \in ShownRows

(* Dialogs are opened with a row that is shown, kept, or closed.            *)
LEMMA OpenOther ==
  ASSUME HasDialogs, NEW k, NEW row, OpenFor(k, row), k # "revoke" \/ row \in ShownRows
  PROVE  DialogStep
  BY DEF OpenFor, DialogStep, HasDialogs, Dialogs

LEMMA SameDialogs ==
  ASSUME HasDialogs, UNCHANGED dlg
  PROVE  DialogStep
  BY DEF DialogStep, HasDialogs

LEMMA FreshDialogs ==
  ASSUME FreshPage
  PROVE  DialogStep
  BY DEF FreshPage, NoDialogs, DialogStep, HasDialogs, Dialogs

LEMMA CloseDialog ==
  ASSUME HasDialogs, NEW k, dlg' = [dlg EXCEPT ![k] = none]
  PROVE  DialogStep
  BY DEF DialogStep, HasDialogs, Dialogs

LEMMA ConfirmLeavesDialogs ==
  ASSUME HasDialogs, NEW k, NEW flag, NEW kind, NEW op, NEW to, Confirm(k, flag, kind, op, to)
  PROVE  DialogStep
  BY SameDialogs DEF Confirm

(* The page of jobs.                                                        *)
LEMMA JobsPageDialogs ==
  ASSUME HasDialogs, JobsPage
  PROVE  DialogStep
  <1>1. JobsOpen \/ JobsOpenCreate => DialogStep
    BY OpenOther DEF JobsOpen, JobsOpenCreate, JobInList, JobInPane, JobMenu
  <1>2. JobsReject \/ JobsDelete => DialogStep
    BY ConfirmLeavesDialogs DEF JobsReject, JobsDelete
  <1>3. JobsBrowse => DialogStep
    BY SameDialogs DEF JobsBrowse, Browse, NewFetcher, ToggleNarrow, modals
  <1>4. JobsApprove => DialogStep
    BY HasDialogs, CloseDialog, SameDialogs DEF JobsApprove
  <1>5. JobDialogSave \/ JobCreateSave => DialogStep
    BY SameDialogs DEF JobDialogSave, JobCreateSave
  <1>6. (\E k : JobDialogHandsOver(k)) => DialogStep
    BY DEF JobDialogHandsOver, DialogStep, HasDialogs, Dialogs
  <1>7. (\E c \in calls : JobDialogSaved(c)) => DialogStep
    BY HasDialogs, SameDialogs DEF JobDialogSaved, DialogStep, HasDialogs, Dialogs
  <1>8. ASSUME NEW c \in calls,
               JobsRejected(c) \/ JobsDeleted(c) \/ JobCreated(c)
        PROVE  DialogStep
    BY <1>8, HasDialogs, CloseDialog, SameDialogs, FreshDialogs
       DEF JobsRejected, JobsDeleted, JobCreated, DeletedFromList
  <1>9. ASSUME NEW c \in calls,
               JobsApproved(c)
        PROVE  DialogStep
    BY <1>9, SameDialogs DEF JobsApproved, modals, view
  <1>10. QED
    BY <1>1, <1>2, <1>3, <1>4, <1>5, <1>6, <1>7, <1>8, <1>9 DEF JobsPage

(* The page of applications.                                                *)
LEMMA ApplicationsPageDialogs ==
  ASSUME HasDialogs, ApplicationsPage
  PROVE  DialogStep
  <1>1. ApplicationsOpen => DialogStep
    BY OpenOther DEF ApplicationsOpen
  <1>2. ApplicationsDelete \/ NotesDialogSave => DialogStep
    BY ConfirmLeavesDialogs DEF ApplicationsDelete, NotesDialogSave
  <1>3. ApplicationsBrowse => DialogStep
    BY SameDialogs DEF ApplicationsBrowse, Browse, NewFetcher, ToggleNarrow, modals
  <1>4. HeaderSaveNotes \/ (\E to : HeaderSaveStatus(to)) => DialogStep
    BY SameDialogs DEF HeaderSaveNotes, HeaderSaveStatus
  <1>5. ASSUME NEW c \in calls,
               ApplicationsDeleted(c) \/ NotesDialogSaved(c)
        PROVE  DialogStep
    BY <1>5, HasDialogs, CloseDialog, SameDialogs, FreshDialogs
       DEF ApplicationsDeleted, NotesDialogSaved, DeletedFromList
  <1>6. ASSUME NEW c \in calls,
               HeaderStatusSaved(c) \/ HeaderNotesSaved(c)
        PROVE  DialogStep
    BY <1>6, SameDialogs DEF HeaderStatusSaved, HeaderNotesSaved, modals, view
  <1>7. QED
    BY <1>1, <1>2, <1>3, <1>4, <1>5, <1>6 DEF ApplicationsPage

(* The page of candidates.                                                  *)
LEMMA CandidatesPageDialogs ==
  ASSUME HasDialogs, CandidatesPage
  PROVE  DialogStep
  <1>1. CandidatesOpen => DialogStep
    BY OpenOther DEF CandidatesOpen
  <1>2. CandidatesDelete \/ CandidatePaneDelete => DialogStep
    BY ConfirmLeavesDialogs DEF CandidatesDelete, CandidatePaneDelete
  <1>3. CandidatesBrowse => DialogStep
    BY SameDialogs DEF CandidatesBrowse, NewFetcher, modals
  <1>4. ASSUME NEW c \in calls,
               CandidatesDeleted(c) \/ CandidatePaneDeleted(c)
        PROVE  DialogStep
    BY <1>4, HasDialogs, CloseDialog, SameDialogs, FreshDialogs
       DEF CandidatesDeleted, CandidatePaneDeleted, DeletedFromList
  <1>5. QED
    BY <1>1, <1>2, <1>3, <1>4 DEF CandidatesPage

(* The tab of active companies and a company's record.                      *)
LEMMA CompaniesPageDialogs ==
  ASSUME HasDialogs, CompaniesPage
  PROVE  DialogStep
  <1>1. CompaniesOpen \/ CreateCompany => DialogStep
    BY OpenOther DEF CompaniesOpen, CreateCompany
  <1>2. TabDelete \/ PaneDelete \/ CreateCompanySave \/ (\E k : EditCompanySave(k)) => DialogStep
    BY ConfirmLeavesDialogs DEF TabDelete, PaneDelete, CreateCompanySave, EditCompanySave
  <1>3. CompaniesBrowse => DialogStep
    BY SameDialogs DEF CompaniesBrowse, NewFetcher, ToggleNarrow, modals
  <1>4. ASSUME NEW c \in calls,
               \/ TabDeleted(c) \/ TabEditSaved(c) \/ PaneEditSaved(c) \/ PaneDeleted(c)
               \/ CompanyCreated(c)
        PROVE  DialogStep
    BY <1>4, HasDialogs, CloseDialog, SameDialogs, FreshDialogs
       DEF TabDeleted, TabEditSaved, PaneEditSaved, PaneDeleted, CompanyCreated,
           DeletedFromList
  <1>5. QED
    BY <1>1, <1>2, <1>3, <1>4 DEF CompaniesPage

(* The tabs of pending companies and of invites.                            *)
LEMMA PendingPageDialogs ==
  ASSUME HasDialogs, PendingPage
  PROVE  DialogStep
  <1>1. PendingOpenReject => DialogStep
    BY OpenOther DEF PendingOpenReject
  <1>2. PendingReject => DialogStep
    BY ConfirmLeavesDialogs DEF PendingReject
  <1>3. PendingBrowse \/ PendingApprove => DialogStep
    BY SameDialogs DEF PendingBrowse, PendingApprove, ToggleNarrow, modals
  <1>4. ASSUME NEW c \in calls,
               PendingRejected(c)
        PROVE  DialogStep
    BY <1>4, HasDialogs, CloseDialog, SameDialogs, FreshDialogs
       DEF PendingRejected
  <1>5. ASSUME NEW c \in calls,
               PendingApproved(c)
        PROVE  DialogStep
    BY <1>5, SameDialogs DEF PendingApproved, modals, view
  <1>6. QED
    BY <1>1, <1>2, <1>3, <1>4, <1>5 DEF PendingPage

LEMMA InvitesPageDialogs ==
  ASSUME HasDialogs, InvitesPage
  PROVE  DialogStep
  <1>1. InvitesOpen \/ InviteOpenForm => DialogStep
    BY OpenOther DEF InvitesOpen, InviteOpenForm
  <1>2. InviteRevoke \/ InviteDelete \/ InviteCreate => DialogStep
    BY ConfirmLeavesDialogs DEF InviteRevoke, InviteDelete, InviteCreate
  <1>3. InvitesBrowse \/ InviteResend => DialogStep
    BY SameDialogs DEF InvitesBrowse, InviteResend, ToggleNarrow, modals
  <1>4. ASSUME NEW c \in calls,
               InviteRevoked(c) \/ InviteDeleted(c) \/ InviteCreated(c)
        PROVE  DialogStep
    BY <1>4, HasDialogs, CloseDialog, SameDialogs, FreshDialogs
       DEF InviteRevoked, InviteDeleted, InviteCreated, DeletedFromList
  <1>5. ASSUME NEW c \in calls,
               InviteResent(c)
        PROVE  DialogStep
    BY <1>5, SameDialogs DEF InviteResent, modals, view
  <1>6. QED
    BY <1>1, <1>2, <1>3, <1>4, <1>5 DEF InvitesPage

(* The three tabs of the review queue.                                      *)
LEMMA QueuePagesDialogs ==
  ASSUME HasDialogs, JobsQueuePage \/ ApplicationsQueuePage \/ CompaniesQueuePage
  PROVE  DialogStep
  <1>1. (\E to : JobsQueueDecide(to) \/ ApplicationsQueueDecide(to)) => DialogStep
    BY SameDialogs DEF JobsQueueDecide, ApplicationsQueueDecide, modals
  <1>2. HeaderSaveNotes \/ (\E to : HeaderSaveStatus(to)) => DialogStep
    BY SameDialogs DEF HeaderSaveNotes, HeaderSaveStatus
  <1>3. UndoDecision \/ BannerExpires => DialogStep
    BY SameDialogs DEF UndoDecision, BannerExpires
  <1>4. (\E kind, op : CompaniesQueueDecide(kind, op)) => DialogStep
    BY SameDialogs DEF CompaniesQueueDecide
  <1>5. ASSUME NEW c \in calls,
               \/ JobsQueueDecided(c) \/ ApplicationsQueueDecided(c) \/ DecisionUndone(c)
               \/ QueueStatusSaved(c) \/ HeaderNotesSaved(c) \/ CompaniesQueueDecided(c)
        PROVE  DialogStep
    BY <1>5, SameDialogs
       DEF JobsQueueDecided, ApplicationsQueueDecided, DecisionUndone, QueueStatusSaved,
           HeaderNotesSaved, CompaniesQueueDecided, modals, view
  <1>6. QED
    BY <1>1, <1>2, <1>3, <1>4, <1>5 DEF JobsQueuePage, ApplicationsQueuePage,
       CompaniesQueuePage

(* Every action does one of these.                                          *)
LEMMA NextDialogs ==
  ASSUME HasDialogs, [Next]_vars
  PROVE  DialogStep
  <1>1. ServePage \/ LandPage \/ PageFails \/ ScrollToEnd \/ Retry \/ PaneFetched \/ PaneFails
        \/ (\E id : Select(id)) \/ Return \/ UNCHANGED vars => DialogStep
    BY SameDialogs
       DEF ServePage, LandPage, PageFails, ScrollToEnd, Retry, PaneFetched, PaneFails,
           Select, Return, vars, modals
  <1>2. (\E k \in Dialogs : Dismiss(k)) => DialogStep
    BY CloseDialog DEF Dismiss
  <1>3. PageStep => DialogStep
    BY JobsPageDialogs, ApplicationsPageDialogs, CandidatesPageDialogs,
       CompaniesPageDialogs, PendingPageDialogs, InvitesPageDialogs, QueuePagesDialogs
       DEF PageStep
  <1>4. ToTheList => DialogStep
    BY SameDialogs, FreshDialogs DEF ToTheList, Here, modals
  <1>5. (\E c \in calls : Serve(c) \/ Fail(c) \/ AnsweredLate(c)) => DialogStep
    BY <1>4, SameDialogs DEF Serve, Fail, AnsweredLate, modals
  <1>6. Leave => DialogStep
    BY FreshDialogs DEF Leave
  <1>7. QED
    BY <1>1, <1>2, <1>3, <1>4, <1>5, <1>6 DEF Next

-----------------------------------------------------------------------------
(* What is known in every state.                                            *)

(* What is known of a request: its fields, its visit, its page, and that an *)
(* invite it is about, or brings, has an id.                                *)
CallOK(c) ==
  /\ DOMAIN c = CallFields
  /\ c.visit \in Nat /\ c.visit <= visit
  /\ KindFits(c.kind)
  /\ c.kind = "inviteRevoke" => Named(c.saw.from)
  /\ c.kind = "inviteCreate" => c.op = "create" /\ (c.at = "done" => Named(c.result))

(* On the two pages that keep an acting id, rows have ids.                  *)
RowsNamed(l) ==
  /\ \A r \in RowsOf(l.items) : Named(r)
  /\ l.inFlight /\ l.request.page # none => \A r \in RowsOf(l.request.page.items) : Named(r)
NamesInv ==
  /\ home \in {"pending", "invites"} => RowsNamed(list)
  /\ home = "invites" /\ dlg["revoke"] # none => Named(dlg["revoke"])

(* The frame: everything but the flags.                                     *)
FrameInv ==
  /\ scene \in Scenes /\ visit \in Nat
  /\ HasFlags /\ HasDialogs /\ ListOK(list)
  /\ \A c \in calls : CallOK(c)
  /\ NamesInv

(* The flag of the confirmations stands for one request, so does acting.    *)
One(S) == \A c, d \in S : c = d
FlagsInv ==
  /\ busy["confirm"] \in BOOLEAN
  /\ away => ~busy["confirm"] /\ acting = none
  /\ Here => /\ busy["confirm"] <=> UnderWay(Confirmed) # {}
             /\ One(UnderWay(Confirmed))
  /\ Here /\ home \in {"pending", "invites"} =>
       /\ acting = none <=> UnderWay(Acted) = {}
       /\ \A c \in UnderWay(Acted) : c.row = acting
       /\ One(UnderWay(Acted))

-----------------------------------------------------------------------------
(* Requests.                                                                *)

(* A finite set of numbers has a least member: the first one.               *)
LEMMA LeastMember ==
  ASSUME NEW S \in SUBSET Nat, IsFiniteSet(S), S # {}
  PROVE  \E x \in S : \A y \in S : x <= y
  <1>1. Cardinality(S) \in Nat /\ Cardinality(S) # 0
    BY FS_CardinalityType, FS_EmptySet
  <1>2. PICK x \in S : Cardinality(Below(S, x)) = 0
    <2>1. 1 \in 1..Cardinality(S)
      BY <1>1
    <2> DEFINE first == Nth(S, 1)
    <2>2. first \in S /\ Cardinality(Below(S, first)) = 1 - 1
      BY <2>1, NthIsMember
    <2> HIDE DEF first
    <2>3. Cardinality(Below(S, first)) = 0
      BY <2>2
    <2>4. QED
      BY <2>2, <2>3
  <1>3. Below(S, x) \in SUBSET S
    BY DEF Below
  <1>4. Below(S, x) = {}
    BY <1>2, <1>3, FS_Subset, FS_EmptySet
  <1>5. QED
    BY <1>4 DEF Below

(* The page is that of the scene, which no step changes.                    *)
LEMMA SameFits ==
  ASSUME UNCHANGED scene
  PROVE  /\ home' = home
         /\ \A kind : KindFits(kind)' <=> KindFits(kind)
  BY DEF home, KindFits

(* A pane that goes marks requests, and leaves all else about them.         *)
LEMMA GoneCalls ==
  ASSUME NEW cs, \A c \in cs : CallOK(c)
  PROVE  /\ \A c \in PaneGone(cs) : CallOK(c)
         /\ \A kinds : kinds \cap PaneKinds = {} =>
              {c \in PaneGone(cs) : c.kind \in kinds} = {c \in cs : c.kind \in kinds}
  <1>1. ASSUME NEW c \in cs
        PROVE  LET d == [c EXCEPT !.live = FALSE]
               IN  CallOK(d) /\ d.kind = c.kind
    BY DEF CallOK, CallFields
  <1>2. \A d \in PaneGone(cs) : \E c \in cs :
          \/ c.kind \notin PaneKinds /\ d = c
          \/ c.kind \in PaneKinds /\ d = [c EXCEPT !.live = FALSE]
    BY DEF PaneGone
  <1>3. \A c \in cs : c.kind \notin PaneKinds => c \in PaneGone(cs)
    BY DEF PaneGone
  <1>4. \A c \in PaneGone(cs) : CallOK(c)
    BY <1>1, <1>2
  <1>5. ASSUME NEW kinds, kinds \cap PaneKinds = {}
        PROVE  {c \in PaneGone(cs) : c.kind \in kinds} = {c \in cs : c.kind \in kinds}
    BY <1>1, <1>2, <1>3, <1>5
  <1>6. QED
    BY <1>4, <1>5

(* The server's answer keeps what the request is about.                     *)
LEMMA ReplyTwin ==
  ASSUME scene \in Scenes, NEW c \in calls, CallOK(c), Replies(c)
  PROVE  \E d : /\ calls' = (calls \ {c}) \cup {d}
               /\ CallOK(d) /\ d.kind = c.kind /\ d.visit = c.visit /\ d.row = c.row
  <1>1. ASSUME NEW at, NEW result, at = "done" /\ c.kind = "inviteCreate" => Named(result)
        PROVE  LET d == [c EXCEPT !.at = at, !.result = result]
               IN  CallOK(d) /\ d.kind = c.kind /\ d.visit = c.visit /\ d.row = c.row
    BY <1>1 DEF CallOK, CallFields
  <1>2. CASE calls' = (calls \ {c}) \cup {[c EXCEPT !.at = "failed", !.result = none]}
    <2> DEFINE d == [c EXCEPT !.at = "failed", !.result = none]
    <2>1. CallOK(d) /\ d.kind = c.kind /\ d.visit = c.visit /\ d.row = c.row
      BY <1>1
    <2> HIDE DEF d
    <2>2. QED
      BY <1>2, <2>1 DEF d
  <1>3. CASE Serve(c) /\ Permitted(c)
    <2> DEFINE result == [id |-> Target(c), status |-> Written(c).status, edit |-> Written(c).edit]
               d == [c EXCEPT !.at = "done", !.result = result]
    <2>1. calls' = (calls \ {c}) \cup {d}
      BY <1>3 DEF Serve
    <2>2. c.kind = "inviteCreate" => Named(result)
      <3> SUFFICES ASSUME c.kind = "inviteCreate" PROVE Named(result)
        OBVIOUS
      <3>1. c.op = "create" /\ Unborn # {}
        BY <1>3 DEF CallOK, Permitted
      <3>2. Unborn \in SUBSET Id /\ none \notin Id
        BY SceneIds DEF Unborn
      <3>3. \E id \in Unborn : \A other \in Unborn : id <= other
        BY <3>1, <3>2, SceneIds, LeastMember
      <3>4. Target(c) \in Id
        BY <3>1, <3>2, <3>3 DEF Target
      <3>5. QED
        BY <3>2, <3>4 DEF Named
    <2> HIDE DEF result
    <2>3. CallOK(d) /\ d.kind = c.kind /\ d.visit = c.visit /\ d.row = c.row
      BY <1>1, <2>2
    <2> HIDE DEF d
    <2>4. QED
      BY <2>1, <2>3
  <1>4. QED
    BY <1>2, <1>3 DEF Replies, Serve, Fail

(* A step leaves the requests it finds as they are known, and sends one     *)
(* that is known as well.                                                   *)
LEMMA NextCalls ==
  ASSUME FrameInv, FlagStep
  PROVE  \A c \in calls' : CallOK(c)'
  <1>1. UNCHANGED scene /\ visit \in Nat /\ visit' \in {visit, visit + 1}
    BY DEF FrameInv, FlagStep, Rests, Returns, Asks, Answers, Late, Replies, Departs,
           SamePlace, Back, Serve, Fail, place
  <1>2. ASSUME NEW c, CallOK(c) PROVE CallOK(c)'
    <2>1. c.visit <= visit'
      BY <1>1, <1>2 DEF CallOK
    <2>2. QED
      BY <1>1, <1>2, <2>1, SameFits DEF CallOK
  <1>3. ASSUME NEW cs, cs \subseteq calls, NEW c \in cs \cup PaneGone(cs)
        PROVE  CallOK(c)
    BY <1>3, GoneCalls DEF FrameInv
  <1>4. ASSUME NEW kind, NEW op, NEW row, NEW to, Asks(kind, op, row, to), NEW c \in calls'
        PROVE  CallOK(c)
    <2>1. PICK others, d : /\ others \in {calls, PaneGone(calls)}
                           /\ Fresh(d, kind, op, row, to) /\ calls' = others \cup {d}
      BY <1>4, SentCall DEF Asks
    <2>2. CallOK(d)
      <3>1. kind = "inviteRevoke" => d.saw.from = row
        BY <2>1 DEF Fresh, Closure
      <3>2. kind = "inviteRevoke" => Named(row)
        BY <1>4 DEF Asks, KindFits, FrameInv, NamesInv
      <3>3. QED
        BY <1>1, <1>4, <2>1, <3>1, <3>2 DEF CallOK, Fresh, Asks
    <2>3. QED
      BY <1>3, <2>1, <2>2
  <1>5. ASSUME NEW c \in calls, Replies(c), NEW x \in calls'
        PROVE  CallOK(x)
    BY <1>5, ReplyTwin DEF FrameInv
  <1>6. ASSUME NEW x \in calls' PROVE CallOK(x)
    <2>1. CASE \E cs : cs \subseteq calls /\ Leaves(cs)
      BY <1>3, <1>6, <2>1 DEF Leaves
    <2>2. Rests \/ Returns \/ Departs(calls) => \E cs : cs \subseteq calls /\ Leaves(cs)
      BY DEF Rests, Returns, Departs, Leaves
    <2>3. ASSUME NEW c \in calls, Answers(c) \/ Late(c) \/ Departs(calls \ {c})
          PROVE  \E cs : cs \subseteq calls /\ Leaves(cs)
      <3>1. Leaves(calls \ {c}) /\ calls \ {c} \subseteq calls
        BY <2>3 DEF Answers, Late, Departs
      <3>2. QED
        BY <3>1
    <2>4. QED
      BY <1>4, <1>5, <1>6, <2>1, <2>2, <2>3 DEF FlagStep
  <1>7. QED
    BY <1>2, <1>6

-----------------------------------------------------------------------------
(* The frame.                                                               *)

(* The rows shown are among those of the list, filtered or not.             *)
LEMMA ShownNamed ==
  ASSUME ListOK(list), NEW r \in ShownRows, RowsNamed(list)
  PROVE  Named(r)
  <1>1. PICK i \in DOMAIN Shown(list) : r = Shown(list)[i]
    BY DEF ShownRows
  <1>2. r \in RowsOf(list.items)
    <2> DEFINE places == {j \in DOMAIN list.items : list.items[j].id \in scene.narrow}
    <2>1. Len(list.items) \in Nat /\ DOMAIN list.items = 1..Len(list.items)
      BY RowsSpan DEF ListOK
    <2>2. places \in SUBSET Nat /\ places \subseteq DOMAIN list.items
      BY <2>1
    <2>3. IsFiniteSet(places)
      <3>1. IsFiniteSet(1..Len(list.items))
        BY <2>1, FS_Interval
      <3>2. QED
        BY <2>1, <2>2, <3>1, FS_Subset
    <2>4. Shown(list) = IF narrow THEN RowsAt(list.items, places) ELSE list.items
      BY Zenon DEF Shown
    <2> HIDE DEF places
    <2>5. RowsOf(RowsAt(list.items, places)) = {list.items[j] : j \in places}
      BY <2>2, <2>3, PickedRows
    <2>6. QED
      BY <1>1, <2>2, <2>4, <2>5 DEF RowsOf
  <1>3. QED
    BY <1>2 DEF RowsNamed

(* Rows come with ids, and keep them when a handler rewrites them.          *)
LEMMA NextNames ==
  ASSUME FrameInv, [Next]_vars
  PROVE  NamesInv'
  <1>1. UNCHANGED scene /\ home' = home
    BY NextFlags, SameFits DEF FrameInv, FlagStep
  <1>2. ASSUME home \in {"pending", "invites"}, ListPaging PROVE RowsNamed(list')
    <2>1. ListOK(list) /\ RowsNamed(list) /\ scene \in Scenes
      BY <1>2 DEF FrameInv, NamesInv
    <2>2. CASE ServePage
      <3> DEFINE page == ReadPage(list.request.query, list.request.cursor)
      <3>1. IsRows(page.items) /\ \A r \in RowsOf(page.items) : Named(r)
        BY <2>1, PageRead
      <3>2. list.inFlight /\ list' = Served(list, page)
        BY <2>2 DEF ServePage
      <3> HIDE DEF page
      <3>3. list'.items = list.items /\ list'.request.page = page
        BY <2>1, <3>1, <3>2, ServedKeeps
      <3>4. QED
        BY <2>1, <3>1, <3>3 DEF RowsNamed
    <2>3. CASE list.inFlight /\ list.request.page # none /\ list' = Landed(list)
      BY <2>1, <2>3, LandedKeeps DEF RowsNamed
    <2>4. CASE list' = Failed(list)
      BY <2>1, <2>4 DEF RowsNamed, Failed, ListOK
    <2>5. CASE \E q : list' = FetchMore(list, q)
      BY <2>1, <2>5 DEF RowsNamed, FetchMore, FetchPage, ListOK
    <2>6. QED
      BY <1>2, <2>2, <2>3, <2>4, <2>5 DEF ListPaging
  <1>3. ASSUME home \in {"pending", "invites"}, ListStep PROVE RowsNamed(list')
    <2>1. ListOK(list) /\ RowsNamed(list) /\ \A c \in calls : CallOK(c)
      BY <1>3 DEF FrameInv, NamesInv
    <2>2. ASSUME NEW items, list' = [list EXCEPT !.items = items], IsRows(items),
                 \A r \in RowsOf(items) : Named(r)
          PROVE  RowsNamed(list')
      BY <2>1, <2>2 DEF RowsNamed, ListOK
    <2>3. ASSUME NEW id, list' = RemoveItem(list, id) PROVE RowsNamed(list')
      <3> DEFINE items == RowsAt(list.items, {i \in DOMAIN list.items : list.items[i].id # id})
      <3>1. list' = [list EXCEPT !.items = items]
        BY <2>3, Zenon DEF RemoveItem
      <3>2. list'.items = items
        <4> HIDE DEF items
        <4>1. QED
          BY <2>1, <3>1 DEF ListOK
      <3>3. ListOK(list') /\ RowsOf(list'.items) \subseteq RowsOf(list.items)
        BY <2>1, <2>3, RemoveKeeps
      <3> HIDE DEF items
      <3>4. QED
        BY <2>1, <2>2, <3>1, <3>2, <3>3 DEF RowsNamed, ListOK
    <2>4. ASSUME NEW c \in calls, Rewritten(c) PROVE RowsNamed(list')
      <3>1. PICK items :
              /\ list' = [list EXCEPT !.items = items]
              /\ IsRows(items) /\ DOMAIN items = DOMAIN list.items
              /\ \A i \in DOMAIN items :
                   \/ items[i] = list.items[i]
                   \/ c.kind \in {"jobApprove", "jobSave", "companySave"}
                   \/ c.kind \in {"jobReject", "inviteRevoke"} /\ items[i] = Closed(c)
                   \/ Named(list.items[i]) => Named(items[i])
        BY <2>1, <2>4, RewrittenKeeps
      <3>2. c.kind \notin {"jobApprove", "jobSave", "companySave", "jobReject"}
        BY <1>3, <2>1 DEF CallOK, KindFits
      <3>3. c.kind = "inviteRevoke" => Named(Closed(c))
        BY <2>1 DEF CallOK, Named, Closed
      <3>4. \A i \in DOMAIN items : Named(items[i])
        BY <2>1, <3>1, <3>2, <3>3 DEF RowsNamed, RowsOf
      <3>5. QED
        BY <2>2, <3>1, <3>4 DEF RowsOf
    <2>5. ASSUME NEW c \in calls, Prepended(c) PROVE RowsNamed(list')
      <3> DEFINE items == <<c.result>> \o list.items
      <3>1. list' = [list EXCEPT !.items = items]
        BY <2>5 DEF Prepended, PrependItem
      <3>2. Named(c.result)
        BY <1>3, <2>1, <2>5 DEF Prepended, CallOK, KindFits
      <3>3. IsRows(items) /\ RowsOf(items) = {c.result} \cup RowsOf(list.items)
        BY <2>1, OneRow, JoinRows DEF ListOK
      <3> HIDE DEF items
      <3>4. QED
        BY <2>1, <2>2, <3>1, <3>2, <3>3 DEF RowsNamed
    <2>6. ASSUME NEW q, list' = Reload(list, q) PROVE RowsNamed(list')
      BY <2>1, <2>6 DEF RowsNamed, Reload, EmptyList, FetchPage, ListOK
    <2>7. CASE FreshPage
      BY <2>7, EmptyKeeps DEF FreshPage, RowsNamed, Mounted, Reload, EmptyList, FetchPage
    <2>8. QED
      BY <1>3, <2>1, <2>3, <2>4, <2>5, <2>6, <2>7 DEF ListStep, Handled
  <1>4. \A r \in ShownRows : RowsNamed(list) => Named(r)
    BY ShownNamed DEF FrameInv
  <1>5. ASSUME home = "invites", dlg'["revoke"] # none PROVE Named(dlg'["revoke"])
    BY <1>4, <1>5, NextDialogs DEF FrameInv, NamesInv, DialogStep
  <1>6. QED
    BY <1>1, <1>2, <1>3, <1>5, NextLists DEF NamesInv

(* The frame is inductive.                                                  *)
LEMMA NextFrame ==
  ASSUME FrameInv, [Next]_vars
  PROVE  FrameInv'
  <1>1. FlagStep /\ DialogStep
    BY NextFlags, NextDialogs DEF FrameInv
  <1>2. scene' \in Scenes /\ visit' \in Nat /\ HasFlags' /\ HasDialogs'
    <2>1. UNCHANGED scene /\ visit' \in {visit, visit + 1}
      BY <1>1
         DEF FlagStep, Rests, Returns, Asks, Answers, Late, Replies, Departs, SamePlace,
             Back, Serve, Fail, place
    <2>2. HasFlags'
      BY <1>1 DEF FlagStep
    <2>3. HasDialogs'
      BY <1>1 DEF DialogStep
    <2>4. QED
      BY <2>1, <2>2, <2>3 DEF FrameInv
  <1>3. ListOK(list')
    BY NextLists, ListStepKeeps, ListPagingKeeps DEF FrameInv
  <1>4. \A c \in calls' : CallOK(c)'
    BY <1>1, NextCalls
  <1>5. QED
    BY <1>2, <1>3, <1>4, NextNames DEF FrameInv

LEMMA InitFrame == InitConsole => FrameInv
  <1> SUFFICES ASSUME InitConsole PROVE FrameInv
    OBVIOUS
  <1>1. scene \in Scenes /\ visit \in Nat /\ HasFlags /\ HasDialogs /\ ListOK(list) /\ calls = {}
    BY EmptyKeeps DEF InitConsole, HasFlags, HasDialogs, NoFlags, NoDialogs
  <1>2. RowsNamed(list)
    BY EmptyKeeps DEF InitConsole, RowsNamed, Mounted, Reload, EmptyList, FetchPage
  <1>3. dlg["revoke"] = none
    BY DEF InitConsole, NoDialogs, Dialogs
  <1>4. QED
    BY <1>1, <1>2, <1>3 DEF FrameInv, NamesInv

-----------------------------------------------------------------------------
(* The flags.                                                               *)

(* No request of the pane is of a kind a flag of the page stands for, so    *)
(* that what becomes of the pane changes nothing about them.                *)
LEMMA OfKinds ==
  ASSUME FrameInv, NEW cs, cs \subseteq calls, calls' \in {cs, PaneGone(cs)},
         NEW kinds, kinds \cap PaneKinds = {}
  PROVE  {c \in calls' : c.kind \in kinds} = {c \in cs : c.kind \in kinds}
  <1>1. \A c \in cs : CallOK(c)
    BY DEF FrameInv
  <1>2. QED
    BY <1>1, GoneCalls

(* The kinds a flag stands for.                                             *)
LEMMA KindsApart ==
  /\ Confirmed \cap PaneKinds = {} /\ Acted \cap PaneKinds = {}
  /\ Confirmed \cap Acted = {}
  BY DEF Confirmed, Acted, PaneKinds

(* What a step does to the requests of a set of kinds that are under way.   *)
LEMMA LeavesUnderWay ==
  ASSUME FrameInv, NEW cs, cs \subseteq calls, Leaves(cs), visit' = visit,
         NEW kinds, kinds \cap PaneKinds = {}
  PROVE  UnderWay(kinds)' = {c \in UnderWay(kinds) : c \in cs}
  <1>1. {c \in calls' : c.kind \in kinds} = {c \in cs : c.kind \in kinds}
    BY OfKinds DEF Leaves
  <1>2. QED
    BY <1>1 DEF UnderWay

(* A request that is sent joins the ones of its kind.                       *)
LEMMA AsksUnderWay ==
  ASSUME FrameInv, NEW kind, NEW op, NEW row, NEW to, Asks(kind, op, row, to),
         NEW kinds, kinds \cap PaneKinds = {}
  PROVE  /\ kind \notin kinds => UnderWay(kinds)' = UnderWay(kinds)
         /\ kind \in kinds => \E d : d.row = row.id /\ UnderWay(kinds)' = UnderWay(kinds) \cup {d}
  <1>1. PICK others, d : /\ others \in {calls, PaneGone(calls)}
                         /\ Fresh(d, kind, op, row, to) /\ calls' = others \cup {d}
    BY SentCall DEF Asks
  <1>2. {c \in others : c.kind \in kinds} = {c \in calls : c.kind \in kinds}
    BY <1>1, GoneCalls DEF FrameInv
  <1>3. d.kind = kind /\ d.row = row.id /\ d.visit = visit /\ visit' = visit
    BY <1>1 DEF Fresh, Asks, SamePlace
  <1>4. UnderWay(kinds)' = UnderWay(kinds) \cup {c \in {d} : c.kind \in kinds}
    BY <1>1, <1>2, <1>3 DEF UnderWay
  <1>5. QED
    BY <1>3, <1>4

(* The answer of the server leaves as many requests under way.              *)
LEMMA RepliesUnderWay ==
  ASSUME FrameInv, NEW c \in calls, Replies(c), NEW kinds
  PROVE  \/ UnderWay(kinds)' = UnderWay(kinds)
         \/ /\ c \in UnderWay(kinds)
            /\ \E d : d.row = c.row /\ UnderWay(kinds)' = (UnderWay(kinds) \ {c}) \cup {d}
  <1>1. PICK d : /\ calls' = (calls \ {c}) \cup {d}
                 /\ d.kind = c.kind /\ d.visit = c.visit /\ d.row = c.row
    BY ReplyTwin DEF FrameInv
  <1>2. visit' = visit
    BY DEF Replies, Serve, Fail, place
  <1>3. QED
    BY <1>1, <1>2 DEF UnderWay

(* A visit that begins finds no request of its own.                         *)
LEMMA BackUnderWay ==
  ASSUME FrameInv, Back, \A c \in calls' : CallOK(c), NEW kinds
  PROVE  UnderWay(kinds)' = {}
  BY DEF FrameInv, Back, CallOK, UnderWay

(* In its frame the invariant of the flags is inductive: a flag goes up     *)
(* with the one request it stands for, down with the answer of that         *)
(* request, and a new visit begins with every flag down and no request.     *)
LEMMA NextFlagsInv ==
  ASSUME FrameInv, FlagsInv, [Next]_vars
  PROVE  FlagsInv'
  <1>1. FlagStep /\ UNCHANGED scene /\ home' = home
    BY NextFlags, SameFits DEF FrameInv, FlagStep
  <1>2. CASE Rests
    <2>1. UnderWay(Confirmed)' = UnderWay(Confirmed) /\ UnderWay(Acted)' = UnderWay(Acted)
      BY <1>2, LeavesUnderWay, KindsApart DEF Rests, SamePlace, UnderWay
    <2>2. QED
      BY <1>1, <1>2, <2>1 DEF Rests, SamePlace, SameConfirm, FlagsInv, Here, One
  <1>3. ASSUME NEW kind, NEW op, NEW row, NEW to, Asks(kind, op, row, to) PROVE FlagsInv'
    <2>1. Here /\ ~away' /\ KindFits(kind)
      BY <1>3 DEF Asks, SamePlace, Here
    <2>2. CASE kind \notin Confirmed \cup Acted
      <3>1. UnderWay(Confirmed)' = UnderWay(Confirmed) /\ UnderWay(Acted)' = UnderWay(Acted)
        BY <1>3, <2>2, AsksUnderWay, KindsApart
      <3>2. SameConfirm /\ (acting' = acting \/ home \notin {"pending", "invites"})
        BY <1>3, <2>2 DEF Asks, Confirmed, Acted
      <3>3. QED
        BY <1>1, <2>1, <3>1, <3>2 DEF SameConfirm, FlagsInv, Here, One
    <2>3. CASE kind \in Confirmed
      <3>1. ~busy["confirm"] /\ busy'["confirm"] = TRUE /\ UNCHANGED acting
        BY <1>3, <2>3, KindsApart DEF Asks
      <3>2. UnderWay(Acted)' = UnderWay(Acted)
        BY <1>3, <2>3, AsksUnderWay, KindsApart
      <3>3. PICK d : UnderWay(Confirmed)' = UnderWay(Confirmed) \cup {d}
        BY <1>3, <2>3, AsksUnderWay, KindsApart
      <3>4. UnderWay(Confirmed) = {}
        BY <2>1, <3>1 DEF FlagsInv
      <3>5. QED
        BY <1>1, <2>1, <3>1, <3>2, <3>3, <3>4 DEF FlagsInv, Here, One
    <2>4. CASE kind \in Acted
      <3>1. SameConfirm /\ row \in ShownRows /\ acting = none /\ acting' = row.id
        BY <1>3, <2>4, KindsApart DEF Asks
      <3>2. UnderWay(Confirmed)' = UnderWay(Confirmed)
        BY <1>3, <2>4, AsksUnderWay, KindsApart
      <3>3. PICK d : d.row = row.id /\ UnderWay(Acted)' = UnderWay(Acted) \cup {d}
        BY <1>3, <2>4, AsksUnderWay, KindsApart
      <3>4. home \in {"pending", "invites"}
        BY <2>1, <2>4 DEF KindFits, Acted
      <3>5. UnderWay(Acted) = {}
        BY <2>1, <3>1, <3>4 DEF FlagsInv
      <3>6. row.id # none
        BY <3>1, <3>4, ShownNamed DEF FrameInv, NamesInv, Named
      <3>7. QED
        BY <1>1, <2>1, <3>1, <3>2, <3>3, <3>5, <3>6 DEF SameConfirm, FlagsInv, Here, One
    <2>5. QED
      BY <2>2, <2>3, <2>4
  <1>4. ASSUME NEW c \in calls, Answers(c) PROVE FlagsInv'
    <2>1. Here /\ ~away' /\ visit' = visit /\ c.visit = visit /\ Leaves(calls \ {c})
      BY <1>4 DEF Answers, SamePlace, Here
    <2>2. /\ UnderWay(Confirmed)' = UnderWay(Confirmed) \ {c}
          /\ UnderWay(Acted)' = UnderWay(Acted) \ {c}
      BY <2>1, LeavesUnderWay, KindsApart DEF UnderWay
    <2>3. CASE c.kind \notin Confirmed \cup Acted
      <3>1. c \notin UnderWay(Confirmed) /\ c \notin UnderWay(Acted)
        BY <2>3 DEF UnderWay
      <3>2. SameConfirm /\ (acting' = acting \/ c.kind \in {"queueInvite", "queueTurnDown"})
        BY <1>4, <2>3 DEF Answers
      <3>3. KindFits(c.kind)
        BY DEF FrameInv, CallOK
      <3>4. acting' = acting \/ home \notin {"pending", "invites"}
        BY <3>2, <3>3 DEF KindFits
      <3>5. QED
        BY <1>1, <2>1, <2>2, <3>1, <3>2, <3>4 DEF SameConfirm, FlagsInv, Here, One
    <2>4. CASE c.kind \in Confirmed
      <3>1. c \in UnderWay(Confirmed) /\ c \notin UnderWay(Acted)
        BY <2>1, <2>4, KindsApart DEF UnderWay
      <3>2. busy'["confirm"] = FALSE /\ UNCHANGED acting
        BY <1>4, <2>4, KindsApart DEF Answers
      <3>3. UnderWay(Confirmed) \ {c} = {}
        BY <2>1, <3>1 DEF FlagsInv, One
      <3>4. QED
        BY <1>1, <2>1, <2>2, <3>1, <3>2, <3>3 DEF FlagsInv, Here, One
    <2>5. CASE c.kind \in Acted
      <3>1. c \in UnderWay(Acted) /\ c \notin UnderWay(Confirmed)
        BY <2>1, <2>5, KindsApart DEF UnderWay
      <3>2. acting' = none /\ SameConfirm
        BY <1>4, <2>5, KindsApart DEF Answers
      <3>3. home \in {"pending", "invites"}
        BY <2>5 DEF FrameInv, CallOK, KindFits, Acted
      <3>4. UnderWay(Acted) \ {c} = {}
        BY <2>1, <3>1, <3>3 DEF FlagsInv, One
      <3>5. QED
        BY <1>1, <2>1, <2>2, <3>1, <3>2, <3>4 DEF SameConfirm, FlagsInv, Here, One
    <2>6. QED
      BY <2>3, <2>4, <2>5
  <1>5. ASSUME NEW cs, Departs(cs) PROVE FlagsInv'
    BY <1>5 DEF Departs, FreshPage, NoFlags, Flags, FlagsInv, Here
  <1>6. ASSUME Back, SameConfirm, UNCHANGED acting, \A c \in calls' : CallOK(c) PROVE FlagsInv'
    <2>1. UnderWay(Confirmed)' = {} /\ UnderWay(Acted)' = {}
      BY <1>6, BackUnderWay
    <2>2. QED
      BY <1>6, <2>1 DEF Back, SameConfirm, FlagsInv, Here, One
  <1>7. CASE Returns
    BY <1>6, <1>7 DEF Returns, FrameInv
  <1>8. ASSUME NEW c \in calls, Late(c) PROVE FlagsInv'
    <2>1. calls \ {c} \subseteq calls /\ Leaves(calls \ {c}) /\ SameConfirm /\ UNCHANGED acting
      BY <1>8 DEF Late
    <2>2. CASE Back
      <3>1. \A x \in calls' : CallOK(x)
        BY <2>1, GoneCalls DEF FrameInv, Leaves
      <3>2. QED
        BY <1>6, <2>1, <2>2, <3>1
    <2>3. CASE SamePlace
      <3>1. CASE away
        BY <2>1, <2>3, <3>1 DEF SamePlace, SameConfirm, FlagsInv, Here
      <3>2. CASE Here
        <4>1. c.visit # visit /\ visit' = visit
          BY <1>8, <2>3, <3>2 DEF Late, Here, SamePlace
        <4>2. UnderWay(Confirmed)' = UnderWay(Confirmed) /\ UnderWay(Acted)' = UnderWay(Acted)
          BY <2>1, <4>1, LeavesUnderWay, KindsApart DEF UnderWay
        <4>3. QED
          BY <1>1, <2>1, <2>3, <4>2 DEF SamePlace, SameConfirm, FlagsInv, Here, One
      <3>3. QED
        BY <3>1, <3>2 DEF Here
    <2>4. QED
      BY <1>8, <2>2, <2>3 DEF Late
  <1>9. ASSUME NEW c \in calls, Replies(c) PROVE FlagsInv'
    <2>1. UNCHANGED <<away, visit, busy, acting>>
      BY <1>9 DEF Replies, Serve, Fail, place, modals
    <2>2. ASSUME NEW kinds
          PROVE  /\ UnderWay(kinds)' = {} <=> UnderWay(kinds) = {}
                 /\ One(UnderWay(kinds)) => One(UnderWay(kinds)')
                 /\ \A x \in UnderWay(kinds)' : \E y \in UnderWay(kinds) : x.row = y.row
      <3> DEFINE W == UnderWay(kinds)
                 V == UnderWay(kinds)'
      <3>1. V = W \/ (c \in W /\ \E d : d.row = c.row /\ V = (W \ {c}) \cup {d})
        BY <1>9, RepliesUnderWay
      <3> HIDE DEF W, V
      <3>2. /\ V = {} <=> W = {}
            /\ One(W) => One(V)
            /\ \A x \in V : \E y \in W : x.row = y.row
        BY <3>1 DEF One
      <3>3. QED
        BY <3>2 DEF W, V
    <2>3. QED
      BY <1>1, <2>1, <2>2 DEF FlagsInv, Here, One
  <1>10. QED
    BY <1>1, <1>2, <1>3, <1>4, <1>5, <1>7, <1>8, <1>9 DEF FlagStep

-----------------------------------------------------------------------------
(* The other three properties.                                              *)

ConsoleInv == FrameInv /\ FlagsInv

(* Frame and flags, in every state.                                         *)
LEMMA ConsoleKept == Spec => []ConsoleInv
  <1>1. InitConsole => ConsoleInv
    <2> SUFFICES ASSUME InitConsole PROVE ConsoleInv
      OBVIOUS
    <2>1. busy["confirm"] = FALSE /\ acting = none /\ calls = {} /\ away = FALSE
      BY DEF InitConsole, NoFlags, Flags
    <2>2. \A kinds : UnderWay(kinds) = {}
      BY <2>1 DEF UnderWay
    <2>3. QED
      BY <2>1, <2>2, InitFrame DEF ConsoleInv, FlagsInv, One
  <1>2. ConsoleInv /\ [Next]_vars => ConsoleInv'
    BY NextFrame, NextFlagsInv DEF ConsoleInv
  <1>3. QED
    BY <1>1, <1>2, PTL DEF Spec

(* On every page, a skeleton, or the spinner at the end of the list, stands *)
(* for a page that was asked for: useInfiniteList takes both flags down     *)
(* when the request it started last ends, whichever query, reload or answer *)
(* came meanwhile.                                                          *)
THEOREM SkeletonMeansFetchingHolds == Spec => []SkeletonMeansFetching
  <1>1. ConsoleInv => SkeletonMeansFetching
    BY DEF ConsoleInv, FrameInv, ListOK, SkeletonMeansFetching
  <1>2. QED
    BY <1>1, ConsoleKept, PTL

(* While the administrator stays on a page, a row leaves the list only with *)
(* a page that takes the place of all rows, or because a request about that *)
(* very row was sent or answered: the late answers of other handlers take   *)
(* nothing away.                                                            *)
THEOREM RowsLeaveForAReasonHolds == Spec => RowsLeaveForAReason
  <1>1. ConsoleInv /\ [Next]_vars =>
          [\A id \in Id :
             Here /\ ~away' /\ visit' = visit /\ InList(list, id) /\ ~InList(list', id) =>
               \/ list.inFlight /\ list.request.replace /\ ~list'.inFlight
               \/ \E c \in calls \cup calls' : c.visit = visit /\ c.row = id]_vars
    BY RowsStay DEF ConsoleInv, FrameInv, Excused
  <1>2. QED
    BY <1>1, ConsoleKept, PTL DEF Spec, RowsLeaveForAReason

(* The button of a confirmation is disabled exactly while its request is    *)
(* under way, and so are the row buttons of pending companies and invites,  *)
(* by the id of the row; neither stands for two requests, and none is left  *)
(* up by a page that was left and entered again.                            *)
THEOREM FlagsMatchCallsHolds == Spec => []FlagsMatchCalls
  <1>1. ASSUME NEW S, One(S) PROVE Cardinality(S) <= 1
    <2>1. CASE S = {}
      BY <2>1, FS_EmptySet
    <2>2. CASE S # {}
      <3>1. PICK x : S = {x}
        BY <1>1, <2>2 DEF One
      <3>2. QED
        BY <3>1, FS_Singleton
    <2>3. QED
      BY <2>1, <2>2
  <1>2. ASSUME ConsoleInv, Here PROVE FlagsMatchCalls
    <2>1. busy["confirm"] = (UnderWay(Confirmed) # {}) /\ One(UnderWay(Confirmed))
      BY <1>2 DEF ConsoleInv, FlagsInv
    <2>2. CASE home \in {"pending", "invites"}
      <3>1. /\ acting = none <=> UnderWay(Acted) = {}
            /\ \A c \in UnderWay(Acted) : c.row = acting
            /\ One(UnderWay(Acted))
        BY <1>2, <2>2 DEF ConsoleInv, FlagsInv
      <3>2. (acting = none /\ UnderWay(Acted) = {}) \/ {c.row : c \in UnderWay(Acted)} = {acting}
        BY <3>1
      <3>3. QED
        BY <1>1, <2>1, <3>1, <3>2 DEF FlagsMatchCalls
    <2>3. CASE home \notin {"pending", "invites"}
      <3>1. UnderWay(Acted) = {}
        BY <1>2, <2>3 DEF ConsoleInv, FrameInv, CallOK, KindFits, UnderWay, Acted
      <3>2. One(UnderWay(Acted))
        BY <3>1 DEF One
      <3>3. QED
        BY <1>1, <2>1, <2>3, <3>2 DEF FlagsMatchCalls
    <2>4. QED
      BY <2>2, <2>3
  <1>3. ConsoleInv => FlagsMatchCalls
    BY <1>2 DEF FlagsMatchCalls
  <1>4. QED
    BY <1>3, ConsoleKept, PTL

=============================================================================
