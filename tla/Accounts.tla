------------------------------- MODULE Accounts -------------------------------
(***************************************************************************)
(* The account of one e-mail address from its registration to its          *)
(* activation: a candidate registers (alone, or while applying for a job), *)
(* a company registers and is approved, each follows an activation link;   *)
(* with the candidate profile of the address.                              *)
(*                                                                         *)
(* Every request reads, decides and commits in one PostgreSQL transaction  *)
(* at READ COMMITTED.  A DELETE of a row that is gone is no error, an      *)
(* UPDATE of one is (SQLAlchemy raises StaleDataError), and so is an       *)
(* INSERT whose foreign key or unique column another commit has spoilt.    *)
(* The password a registration sets is named by the activation token it    *)
(* mints; password resets are those of module Sessions.                    *)
(***************************************************************************)
EXTENDS Naturals, FiniteSets

CONSTANTS
    Users,     \* user rows ever inserted for the address: a bound
    Tokens,    \* activation tokens ever minted: a bound
    Profiles,  \* candidate profiles ever inserted for the address: a bound
    Requests,  \* requests that can be in flight together
    None       \* the null value

ASSUME ConstantsAssumption ==
    /\ None \notin Users \cup Tokens \cup Profiles
    /\ IsFiniteSet(Tokens)

VARIABLES
    users,     \* the user rows, with the registration that set the password
    tokens,    \* the activationtoken rows
    profiles,  \* the candidateprofile rows
    req,       \* the requests in flight
    approved,  \* the companies an admin approved
    erased     \* whether an admin erased the profile of an active candidate

(* approved and erased are history: no guard of the code reads them.       *)
vars == <<users, tokens, profiles, req, approved, erased>>

-----------------------------------------------------------------------------
User == [state : {"absent", "inactive", "active", "deleted"},
         role : {None, "candidate", "company"}, latest : Tokens \cup {None}]

Token == [state : {"absent", "open", "used", "deleted"}, user : Users \cup {None},
          by : {None, "register", "resend", "approve"}]

Request ==
    [step : {"idle", "insert", "recycle", "locked", "resend", "resending", "approve",
             "approving", "reject", "activate", "linking"},
     claim : BOOLEAN, user : Users \cup {None}, token : Tokens \cup {None},
     stale : SUBSET Tokens, profile : Profiles \cup {None}]

Idle == [step |-> "idle", claim |-> FALSE, user |-> None, token |-> None,
         stale |-> {}, profile |-> None]

TypeOK ==
    /\ users \in [Users -> User]
    /\ tokens \in [Tokens -> Token]
    /\ profiles \in [Profiles -> {"absent", "lead", "linked", "deleted"}]
    /\ req \in [Requests -> Request]
    /\ approved \subseteq Users
    /\ erased \in BOOLEAN

Init ==
    /\ users = [u \in Users |-> [state |-> "absent", role |-> None, latest |-> None]]
    /\ tokens = [t \in Tokens |-> [state |-> "absent", user |-> None, by |-> None]]
    /\ profiles = [p \in Profiles |-> "absent"]
    /\ req = [r \in Requests |-> Idle]
    /\ approved = {}
    /\ erased = FALSE

-----------------------------------------------------------------------------
(* Rows.                                                                   *)

Present == {u \in Users : users[u].state \in {"inactive", "active"}}

Is(u, state, role) == users[u].state = state /\ users[u].role = role

(* The tokens of an account that used == False selects.                    *)
Open(u) == {t \in Tokens : tokens[t].state = "open" /\ tokens[t].user = u}

Profile == {p \in Profiles : profiles[p] \in {"lead", "linked"}}

(* SELECT ... WHERE email: the row of the address, or none.                *)
Finds(p) == p \in Profile \/ (p = None /\ Profile = {})

(* The lock an uncommitted UPDATE holds on a user row.                     *)
Locked(u) == \E r \in Requests : req[r].step = "locked" /\ req[r].user = u

(* Both tables have a unique e-mail column.                                *)
InsertUser(u, row) ==
    /\ Present = {}
    /\ users[u].state = "absent"
    /\ users' = [users EXCEPT ![u] = row]

InsertProfile(state) ==
    /\ Profile = {}
    /\ \E p \in Profiles : /\ profiles[p] = "absent"
                           /\ profiles' = [profiles EXCEPT ![p] = state]

(* The stale tokens of the account go and a new one comes: the foreign key *)
(* wants the account.                                                      *)
Mint(t, u, by, stale) ==
    /\ tokens[t].state = "absent"
    /\ tokens' = [x \in Tokens |->
                    IF x = t THEN [state |-> "open", user |-> u, by |-> by]
                    ELSE IF x \in stale THEN [tokens[x] EXCEPT !.state = "deleted"]
                    ELSE tokens[x]]

Advance(r, state) == req' = [req EXCEPT ![r] = state]
Start(r, state) == req[r] = Idle /\ Advance(r, state)
Unchanged == UNCHANGED <<users, tokens, profiles, approved, erased>>

-----------------------------------------------------------------------------
(* A candidate registers: register_candidate, or _apply_as_claim, which    *)
(* first finds or creates the profile.                                     *)

(* Mutant: any inactive account is recycled, whatever its role.            *)
RecyclesAny(u) == u \in Present /\ users[u].state = "inactive"

Recycles(u) == Is(u, "inactive", "candidate")

RegisterRead(r) ==
    /\ \E claim \in BOOLEAN, p \in Profiles \cup {None} :
          /\ IF claim THEN Finds(p) ELSE p = None
          /\ \/ /\ Present = {}
                /\ Start(r, [Idle EXCEPT !.step = "insert", !.claim = claim, !.profile = p])
             \/ \E u \in Users :
                  /\ Recycles(u)
                  /\ Start(r, [Idle EXCEPT !.step = "recycle", !.user = u,
                                           !.claim = claim, !.profile = p])
    /\ Unchanged

(* The profile of the application a claim sends along.                     *)
ClaimProfile(r) ==
    IF ~req[r].claim THEN UNCHANGED profiles
    ELSE \/ req[r].profile \in Profile /\ UNCHANGED profiles
         \/ req[r].profile = None /\ InsertProfile("lead")

RegisterNewCommit(r, u, t) ==
    /\ req[r].step = "insert"
    /\ InsertUser(u, [state |-> "inactive", role |-> "candidate", latest |-> t])
    /\ Mint(t, u, "register", {})
    /\ ClaimProfile(r)
    /\ Advance(r, Idle)
    /\ UNCHANGED <<approved, erased>>

(* Mutant: the stale tokens are selected before the password is flushed.   *)
RecycleUnlocked(r) ==
    /\ req[r].step = "recycle"
    /\ req[r].user \in Present
    /\ Advance(r, [req[r] EXCEPT !.step = "locked", !.stale = Open(req[r].user)])
    /\ Unchanged

(* The SELECT of the stale tokens flushes the UPDATE of the password first: *)
(* it waits for the row's lock, and holds it from then on.                 *)
RecycleFlush(r) ==
    /\ req[r].step = "recycle"
    /\ req[r].user \in Present
    /\ ~Locked(req[r].user)
    /\ Advance(r, [req[r] EXCEPT !.step = "locked", !.stale = Open(req[r].user)])
    /\ Unchanged

RecycleCommit(r, t) ==
    /\ req[r].step = "locked"
    /\ users' = [users EXCEPT ![req[r].user].latest = t]
    /\ Mint(t, req[r].user, "register", req[r].stale)
    /\ ClaimProfile(r)
    /\ Advance(r, Idle)
    /\ UNCHANGED <<approved, erased>>

-----------------------------------------------------------------------------
(* resend_candidate_activation: the account is read, then its stale tokens *)
(* without a lock.  Whether the hour's limit admits it is left open.       *)

ResendRead(r) ==
    /\ \E u \in Users : /\ Is(u, "inactive", "candidate")
                        /\ Start(r, [Idle EXCEPT !.step = "resend", !.user = u])
    /\ Unchanged

ResendSelect(r) ==
    /\ req[r].step = "resend"
    /\ Advance(r, [req[r] EXCEPT !.step = "resending", !.stale = Open(req[r].user)])
    /\ Unchanged

ResendCommit(r, t) ==
    /\ req[r].step = "resending"
    /\ req[r].user \in Present
    /\ Mint(t, req[r].user, "resend", req[r].stale)
    /\ Advance(r, Idle)
    /\ UNCHANGED <<users, profiles, approved, erased>>

-----------------------------------------------------------------------------
(* Companies.                                                              *)

(* register_company_user, on an invite.                                    *)
RegisterCompany(u) ==
    /\ InsertUser(u, [state |-> "inactive", role |-> "company", latest |-> None])
    /\ UNCHANGED <<tokens, profiles, req, approved, erased>>

(* approve_company, reject_company: validate_company_user_pending.         *)
PendingCompanyRead(r, step) ==
    /\ \E u \in Users : /\ Is(u, "inactive", "company")
                        /\ Start(r, [Idle EXCEPT !.step = step, !.user = u])
    /\ Unchanged

(* scalar_one_or_none raises if two tokens are open.                       *)
ApproveSelect(r) ==
    /\ req[r].step = "approve"
    /\ Cardinality(Open(req[r].user)) <= 1
    /\ Advance(r, [req[r] EXCEPT !.step = "approving", !.stale = Open(req[r].user)])
    /\ Unchanged

ApproveCommit(r, t) ==
    /\ req[r].step = "approving"
    /\ req[r].user \in Present
    /\ Mint(t, req[r].user, "approve", req[r].stale)
    /\ approved' = approved \cup {req[r].user}
    /\ Advance(r, Idle)
    /\ UNCHANGED <<users, profiles, erased>>

(* The account goes, and its tokens by the cascade of the foreign key.     *)
DeleteUser(u) ==
    /\ users' = [users EXCEPT ![u].state = "deleted"]
    /\ tokens' = [t \in Tokens |-> IF tokens[t].user = u
                                   THEN [tokens[t] EXCEPT !.state = "deleted"]
                                   ELSE tokens[t]]

RejectCommit(r) ==
    /\ req[r].step = "reject"
    /\ DeleteUser(req[r].user)
    /\ Advance(r, Idle)
    /\ UNCHANGED <<profiles, approved, erased>>

(* delete_active_company, which does not ask whether the company is active. *)
DeleteCompany(u) ==
    /\ u \in Present
    /\ users[u].role = "company"
    /\ DeleteUser(u)
    /\ UNCHANGED <<profiles, req, approved, erased>>

-----------------------------------------------------------------------------
(* Activation: activate_user.                                              *)

ActivateRead(r, t) ==
    /\ tokens[t].state = "open"
    /\ Start(r, [Idle EXCEPT !.step = "activate", !.token = t, !.user = tokens[t].user])
    /\ Unchanged

(* _link_or_create_candidate_profile looks for the profile.                *)
ActivateFind(r) ==
    /\ req[r].step = "activate"
    /\ users[req[r].user].role = "candidate"
    /\ \E p \in Profiles \cup {None} :
          /\ Finds(p)
          /\ Advance(r, [req[r] EXCEPT !.step = "linking", !.profile = p])
    /\ Unchanged

(* Mutant: a profile deleted since it was found goes unnoticed.            *)
LinkIfThere(p) ==
    \/ p # None /\ profiles' = [q \in Profiles |->
                      IF q = p /\ q \in Profile THEN "linked" ELSE profiles[q]]
    \/ p = None /\ InsertProfile("linked")

(* The profile found is updated, or a new one inserted.                    *)
LinkProfile(p) ==
    \/ p \in Profile /\ profiles' = [profiles EXCEPT ![p] = "linked"]
    \/ p = None /\ InsertProfile("linked")

(* Mutant: the account is marked like its token.                           *)
ActivateAsToken(u, t) ==
    /\ tokens[t].state \in {"open", "used"}
    /\ users' = [users EXCEPT ![u].state = "used"]
    /\ tokens' = [tokens EXCEPT ![t].state = "used"]

(* The token must still have its row; whether it is still unused is not    *)
(* asked again.  An account that is active already is not written.         *)
Activate(u, t) ==
    /\ tokens[t].state \in {"open", "used"}
    /\ users[u].state = "active" \/ ~Locked(u)
    /\ users' = [users EXCEPT ![u].state = "active"]
    /\ tokens' = [tokens EXCEPT ![t].state = "used"]

ActivateCommit(r) ==
    /\ \/ /\ req[r].step = "activate"
          /\ users[req[r].user].role = "company"
          /\ UNCHANGED profiles
       \/ /\ req[r].step = "linking"
          /\ LinkProfile(req[r].profile)
    /\ Activate(req[r].user, req[r].token)
    /\ Advance(r, Idle)
    /\ UNCHANGED <<approved, erased>>

-----------------------------------------------------------------------------
(* Profiles otherwise.                                                     *)

ActiveCandidate == \E u \in Users : Is(u, "active", "candidate")

(* An application without an account makes a lead of the address.          *)
ApplyAsLead ==
    /\ ~ActiveCandidate
    /\ InsertProfile("lead")
    /\ UNCHANGED <<users, tokens, req, approved, erased>>

(* _apply_as_authenticated creates the profile, or links it, if need be.   *)
ApplyAsCandidate ==
    /\ ActiveCandidate
    /\ \/ InsertProfile("linked")
       \/ \E p \in Profile : /\ profiles[p] = "lead"
                             /\ profiles' = [profiles EXCEPT ![p] = "linked"]
    /\ UNCHANGED <<users, tokens, req, approved, erased>>

(* delete_candidate, purge_expired_candidates: the account stays.          *)
EraseCandidate(p) ==
    /\ p \in Profile
    /\ profiles' = [profiles EXCEPT ![p] = "deleted"]
    /\ erased' = (erased \/ ActiveCandidate)
    /\ UNCHANGED <<users, tokens, req, approved>>

(* A constraint is violated, the connection is lost, the process dies.     *)
Rollback(r) ==
    /\ req[r] # Idle
    /\ Advance(r, Idle)
    /\ Unchanged

-----------------------------------------------------------------------------
RequestStep(r) ==
    \/ RegisterRead(r) \/ RecycleFlush(r)
    \/ ResendRead(r) \/ ResendSelect(r)
    \/ PendingCompanyRead(r, "approve") \/ ApproveSelect(r)
    \/ PendingCompanyRead(r, "reject") \/ RejectCommit(r)
    \/ ActivateFind(r) \/ ActivateCommit(r) \/ Rollback(r)
    \/ \E t \in Tokens :
          \/ RecycleCommit(r, t) \/ ResendCommit(r, t) \/ ApproveCommit(r, t)
          \/ ActivateRead(r, t)
          \/ \E u \in Users : RegisterNewCommit(r, u, t)

Next ==
    \/ \E r \in Requests : RequestStep(r)
    \/ \E u \in Users : RegisterCompany(u) \/ DeleteCompany(u)
    \/ \E p \in Profiles : EraseCandidate(p)
    \/ ApplyAsLead \/ ApplyAsCandidate

Spec == Init /\ [][Next]_vars

-----------------------------------------------------------------------------
(* Of the links that registrations minted only the latest is open, however *)
(* registrations, resends and activations overlap: "the old link in the    *)
(* candidate's inbox stops working when they submit a new password".       *)
OnlyLatestLinkOpens ==
    \A t \in Tokens :
        tokens[t].state = "open" /\ tokens[t].by = "register" =>
            users[tokens[t].user].latest = t

(* A company is active only after an admin approved it: no link sent for a *)
(* candidate, or for an account since rejected, activates it.              *)
CompanyIsApproved ==
    \A u \in Users : Is(u, "active", "company") => u \in approved

(* An active candidate has a linked profile unless an admin erased it,     *)
(* though applications insert and admins delete it while the link is used. *)
ActiveCandidateIsLinked ==
    ActiveCandidate /\ ~erased => \E p \in Profiles : profiles[p] = "linked"

=============================================================================
