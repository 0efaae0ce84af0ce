---------------------------- MODULE AccountsProofs ----------------------------
(***************************************************************************)
(* Proofs that the invariants of Accounts hold for any number of user      *)
(* rows, tokens, profiles and concurrent requests.                         *)
(***************************************************************************)
EXTENDS Accounts, TLAPS

-----------------------------------------------------------------------------
(* The inductive invariant.                                                *)

(* Candidates are never deleted.                                           *)
UserOK(u) ==
    users[u].state # "absent" =>
        /\ users[u].role \in {"candidate", "company"}
        /\ users[u].role = "candidate" => users[u].state # "deleted"

(* A token has an account, and one of the kind that it was minted for.     *)
TokenOK(t) ==
    IF tokens[t].state = "absent" THEN tokens[t].user = None
    ELSE /\ tokens[t].user \in Users
         /\ users[tokens[t].user].state # "absent"
         /\ users[tokens[t].user].role = "company" => tokens[t].user \in approved

LatestOnly(t) ==
    tokens[t].state = "open" /\ tokens[t].by = "register" =>
        users[tokens[t].user].latest = t

HasCandidate(q) ==
    q.user \in Users /\ users[q.user].state # "absent" /\ users[q.user].role = "candidate"

HasCompany(q) ==
    q.user \in Users /\ users[q.user].state # "absent" /\ users[q.user].role = "company"

(* What a request in flight may rely on: what it read and no commit undoes. *)
(* One that holds the lock knows every open link of a registration.        *)
RequestOK(q) ==
    /\ q.step \in {"recycle", "locked", "resend", "resending"} => HasCandidate(q)
    /\ q.step \in {"approve", "approving", "reject"} => HasCompany(q)
    /\ q.step \in {"activate", "linking"} =>
          /\ q.token \in Tokens
          /\ tokens[q.token].state # "absent"
          /\ tokens[q.token].user = q.user
    /\ q.step = "linking" => users[q.user].role = "candidate"
    /\ \A t \in q.stale : tokens[t].state # "absent"
    /\ q.step = "locked" =>
          \A t \in Tokens : /\ tokens[t].state = "open"
                            /\ tokens[t].by = "register"
                            /\ tokens[t].user = q.user
                            => t \in q.stale

OneLock ==
    \A r, s \in Requests :
        req[r].step = "locked" /\ req[s].step = "locked" /\ req[r].user = req[s].user
            => r = s

RowsInv ==
    /\ \A u \in Users : UserOK(u)
    /\ \A t \in Tokens : TokenOK(t) /\ LatestOnly(t)
    /\ CompanyIsApproved

RequestsInv == OneLock /\ \A r \in Requests : RequestOK(req[r])

IInv == TypeOK /\ RowsInv /\ RequestsInv /\ ActiveCandidateIsLinked

-----------------------------------------------------------------------------
LEMMA IdleFacts == Idle \in Request /\ Idle.step = "idle" /\ RequestOK(Idle)
  BY DEF Idle, Request, RequestOK

(* The initial state satisfies the invariant.                              *)
LEMMA InitIInv == Init => IInv
  <1> SUFFICES ASSUME Init PROVE IInv
    OBVIOUS
  <1>1. TypeOK
    BY IdleFacts DEF Init, TypeOK, User, Token
  <1>2. RowsInv
    BY DEF Init, RowsInv, UserOK, TokenOK, LatestOnly, CompanyIsApproved, Is
  <1>3. RequestsInv
    BY IdleFacts DEF Init, RequestsInv, OneLock
  <1>4. ActiveCandidateIsLinked
    BY DEF Init, ActiveCandidateIsLinked, ActiveCandidate, Is
  <1>5. QED
    BY <1>1, <1>2, <1>3, <1>4 DEF IInv

(* What every commit keeps of the rows that others have read.              *)
Kept ==
    /\ \A u \in Users : users[u].state # "absent" =>
          /\ users'[u].role = users[u].role
          /\ users'[u].state # "absent"
    /\ \A t \in Tokens : tokens[t].state # "absent" =>
          /\ tokens'[t].user = tokens[t].user
          /\ tokens'[t].by = tokens[t].by
          /\ tokens'[t].state # "absent"
          /\ tokens'[t].state = "open" => tokens[t].state = "open"

(* No link of a registration comes for an account that q has locked.       *)
NoFreshLink(q) ==
    q.step = "locked" =>
        \A t \in Tokens : /\ tokens[t].state = "absent"
                          /\ tokens'[t].state = "open"
                          /\ tokens'[t].by = "register"
                          => tokens'[t].user # q.user

LEMMA KeptRequest ==
  ASSUME IInv, Kept, NEW q \in Request, RequestOK(q), NoFreshLink(q)
  PROVE  RequestOK(q)'
  <1>1. HasCandidate(q) => HasCandidate(q)'
    BY DEF HasCandidate, Kept
  <1>2. HasCompany(q) => HasCompany(q)'
    BY DEF HasCompany, Kept
  <1>3. ASSUME q.step \in {"activate", "linking"}
        PROVE  /\ q.token \in Tokens
               /\ tokens'[q.token].state # "absent"
               /\ tokens'[q.token].user = q.user
               /\ q.user \in Users
               /\ users[q.user].state # "absent"
    BY <1>3 DEF RequestOK, Kept, IInv, RowsInv, TokenOK
  <1>4. q.step = "linking" => users'[q.user].role = "candidate"
    BY <1>3 DEF RequestOK, Kept
  <1>5. ASSUME q.step = "locked", NEW t \in Tokens, tokens'[t].state = "open",
               tokens'[t].by = "register", tokens'[t].user = q.user
        PROVE  t \in q.stale
    BY <1>5 DEF RequestOK, Kept, NoFreshLink
  <1>6. \A t \in q.stale : tokens'[t].state # "absent"
    BY DEF RequestOK, Kept, Request
  <1>7. QED
    BY <1>1, <1>2, <1>3, <1>4, <1>5, <1>6 DEF RequestOK

(* One request moves on, and all may still rely on what they read.         *)
LEMMA StepRequests ==
  ASSUME IInv, Kept, NEW r \in Requests, NEW q \in Request, Advance(r, q), RequestOK(q)',
         q.step = "locked" => ~Locked(q.user),
         \A s \in Requests \ {r} : NoFreshLink(req[s])
  PROVE  RequestsInv' /\ req' \in [Requests -> Request]
  <1>1. req'[r] = q /\ \A s \in Requests \ {r} : req'[s] = req[s]
    BY DEF IInv, TypeOK, Advance
  <1>2. req' \in [Requests -> Request]
    BY DEF IInv, TypeOK, Advance
  <1>3. OneLock'
    BY <1>1 DEF IInv, RequestsInv, OneLock, Locked
  <1>4. ASSUME NEW s \in Requests
        PROVE  RequestOK(req[s])'
    <2>1. CASE s = r
      BY <1>1, <2>1 DEF RequestOK, HasCandidate, HasCompany
    <2>2. CASE s # r
      <3>1. PICK v \in Request : v = req[s]
        BY DEF IInv, TypeOK
      <3>2. RequestOK(v) /\ NoFreshLink(v) /\ v = req'[s]
        BY <1>1, <2>2, <3>1 DEF IInv, RequestsInv
      <3>3. RequestOK(v)'
        BY <3>2, KeptRequest
      <3>4. QED
        BY <3>2, <3>3 DEF RequestOK, HasCandidate, HasCompany
    <2>3. QED
      BY <2>1, <2>2
  <1>5. QED
    BY <1>2, <1>3, <1>4 DEF RequestsInv

(* A request that ends relies on nothing.                                  *)
LEMMA FinishRequests ==
  ASSUME IInv, Kept, NEW r \in Requests, Advance(r, Idle),
         \A s \in Requests \ {r} : NoFreshLink(req[s])
  PROVE  RequestsInv' /\ req' \in [Requests -> Request]
  <1>1. Idle \in Request /\ Idle.step = "idle"
    BY IdleFacts
  <1>2. RequestOK(Idle)'
    BY DEF RequestOK, Idle
  <1>3. QED
    BY <1>1, <1>2, StepRequests

(* A request that only reads: what it read must be so, and the lock free.  *)
LEMMA ReadInv ==
  ASSUME IInv, Unchanged, NEW r \in Requests, NEW q \in Request, Advance(r, q),
         RequestOK(q), q.step = "locked" => ~Locked(q.user)
  PROVE  IInv'
  <1>1. Kept
    BY DEF Unchanged, Kept
  <1>2. \A s \in Requests : NoFreshLink(req[s])
    BY DEF Unchanged, NoFreshLink
  <1>3. RequestOK(q)'
    BY DEF Unchanged, RequestOK, HasCandidate, HasCompany
  <1>4. RequestsInv' /\ req' \in [Requests -> Request]
    BY <1>1, <1>2, <1>3, StepRequests
  <1>5. TypeOK'
    BY <1>4 DEF Unchanged, IInv, TypeOK
  <1>6. RowsInv'
    BY DEF Unchanged, IInv, RowsInv, UserOK, TokenOK, LatestOnly, CompanyIsApproved, Is
  <1>7. ActiveCandidateIsLinked'
    BY DEF Unchanged, IInv, ActiveCandidateIsLinked, ActiveCandidate, Is
  <1>8. QED
    BY <1>4, <1>5, <1>6, <1>7 DEF IInv

-----------------------------------------------------------------------------
(* The reads.                                                              *)

LEMMA RegisterReadInv ==
  ASSUME IInv, NEW r \in Requests, RegisterRead(r)
  PROVE  IInv'
  <1>1. PICK claim \in BOOLEAN, p \in Profiles \cup {None} :
          \/ Start(r, [Idle EXCEPT !.step = "insert", !.claim = claim, !.profile = p])
          \/ \E u \in Users :
               /\ Recycles(u)
               /\ Start(r, [Idle EXCEPT !.step = "recycle", !.user = u,
                                        !.claim = claim, !.profile = p])
    BY DEF RegisterRead
  <1>2. Unchanged
    BY DEF RegisterRead
  <1>3. CASE Start(r, [Idle EXCEPT !.step = "insert", !.claim = claim, !.profile = p])
    <2> DEFINE q == [Idle EXCEPT !.step = "insert", !.claim = claim, !.profile = p]
    <2>1. q \in Request /\ q.step = "insert" /\ q.stale = {}
      BY DEF Idle, Request
    <2>2. Advance(r, q)
      BY <1>3 DEF Start
    <2> HIDE DEF q
    <2>3. RequestOK(q)
      BY <2>1 DEF RequestOK
    <2>4. QED
      BY <1>2, <2>1, <2>2, <2>3, ReadInv
  <1>4. ASSUME NEW u \in Users, Recycles(u),
               Start(r, [Idle EXCEPT !.step = "recycle", !.user = u,
                                     !.claim = claim, !.profile = p])
        PROVE  IInv'
    <2> DEFINE q == [Idle EXCEPT !.step = "recycle", !.user = u,
                                 !.claim = claim, !.profile = p]
    <2>1. q \in Request /\ q.step = "recycle" /\ q.user = u /\ q.stale = {}
      BY DEF Idle, Request
    <2>2. Advance(r, q)
      BY <1>4 DEF Start
    <2> HIDE DEF q
    <2>3. RequestOK(q)
      BY <1>4, <2>1 DEF RequestOK, HasCandidate, Recycles, Is
    <2>4. QED
      BY <1>2, <2>1, <2>2, <2>3, ReadInv
  <1>5. QED
    BY <1>1, <1>3, <1>4

(* A request that begins with an account of the role its step wants.       *)
LEMMA StartInv ==
  ASSUME IInv, Unchanged, NEW r \in Requests, NEW u \in Users,
         NEW step \in {"resend", "approve", "reject"},
         Start(r, [Idle EXCEPT !.step = step, !.user = u]),
         Is(u, "inactive", IF step = "resend" THEN "candidate" ELSE "company")
  PROVE  IInv'
  <1> DEFINE q == [Idle EXCEPT !.step = step, !.user = u]
  <1>1. q \in Request /\ q.step = step /\ q.user = u /\ q.stale = {}
    BY DEF Idle, Request
  <1>2. Advance(r, q)
    BY DEF Start
  <1> HIDE DEF q
  <1>3. RequestOK(q)
    BY <1>1 DEF RequestOK, HasCandidate, HasCompany, Is
  <1>4. QED
    BY <1>1, <1>2, <1>3, ReadInv

LEMMA ActivateReadInv ==
  ASSUME IInv, NEW r \in Requests, NEW t \in Tokens, ActivateRead(r, t)
  PROVE  IInv'
  <1>1. PICK u \in Users : u = tokens[t].user
    BY DEF ActivateRead, IInv, RowsInv, TokenOK
  <1> DEFINE q == [Idle EXCEPT !.step = "activate", !.token = t, !.user = u]
  <1>2. q \in Request /\ q.step = "activate" /\ q.token = t /\ q.user = u /\ q.stale = {}
    BY DEF Idle, Request
  <1>3. Unchanged /\ Advance(r, q) /\ tokens[t].state = "open"
    BY <1>1 DEF ActivateRead, Start
  <1> HIDE DEF q
  <1>4. RequestOK(q)
    BY <1>1, <1>2, <1>3 DEF RequestOK
  <1>5. QED
    BY <1>2, <1>3, <1>4, ReadInv

(* A request selects the open tokens of its account.                       *)
LEMMA SelectInv ==
  ASSUME IInv, Unchanged, NEW r \in Requests, NEW step \in {"locked", "resending", "approving"},
         Advance(r, [req[r] EXCEPT !.step = step, !.stale = Open(req[r].user)]),
         step \in {"locked", "resending"} => req[r].step \in {"recycle", "resend"},
         step = "approving" => req[r].step = "approve",
         step = "locked" => ~Locked(req[r].user)
  PROVE  IInv'
  <1>1. PICK v \in Request : v = req[r]
    BY DEF IInv, TypeOK
  <1>2. PICK stale \in SUBSET Tokens : stale = Open(v.user)
    BY DEF Open
  <1> DEFINE q == [v EXCEPT !.step = step, !.stale = stale]
  <1>3. q \in Request /\ q.step = step /\ q.stale = stale /\ q.user = v.user
    BY DEF Request
  <1>4. Advance(r, q) /\ RequestOK(v)
    BY <1>1, <1>2 DEF IInv, RequestsInv
  <1> HIDE DEF q
  <1>5. \A t \in Tokens : t \in stale <=> tokens[t].state = "open" /\ tokens[t].user = v.user
    BY <1>2 DEF Open
  <1>6. HasCandidate(v) => HasCandidate(q)
    BY <1>3 DEF HasCandidate
  <1>7. HasCompany(v) => HasCompany(q)
    BY <1>3 DEF HasCompany
  <1>8. RequestOK(q)
    BY <1>1, <1>3, <1>4, <1>5, <1>6, <1>7 DEF RequestOK
  <1>9. q.step = "locked" => ~Locked(q.user)
    BY <1>1, <1>3
  <1>10. QED
    BY <1>3, <1>4, <1>8, <1>9, ReadInv

LEMMA ActivateFindInv ==
  ASSUME IInv, NEW r \in Requests, ActivateFind(r)
  PROVE  IInv'
  <1>1. PICK v \in Request : v = req[r]
    BY DEF IInv, TypeOK
  <1>2. PICK p \in Profiles \cup {None} :
          Advance(r, [req[r] EXCEPT !.step = "linking", !.profile = p])
    BY DEF ActivateFind
  <1> DEFINE q == [v EXCEPT !.step = "linking", !.profile = p]
  <1>3. /\ q \in Request /\ q.step = "linking" /\ q.stale = v.stale
        /\ q.user = v.user /\ q.token = v.token
    BY DEF Request
  <1>4. Unchanged /\ Advance(r, q) /\ RequestOK(v)
    BY <1>1, <1>2 DEF IInv, RequestsInv, ActivateFind
  <1> HIDE DEF q
  <1>5. v.step = "activate" /\ users[v.user].role = "candidate"
    BY <1>1 DEF ActivateFind
  <1>6. RequestOK(q)
    BY <1>3, <1>4, <1>5 DEF RequestOK
  <1>7. QED
    BY <1>3, <1>4, <1>6, ReadInv

(* A rollback leaves the rows as they are.                                 *)
LEMMA RollbackInv ==
  ASSUME IInv, NEW r \in Requests, Rollback(r)
  PROVE  IInv'
  BY IdleFacts, ReadInv DEF Rollback

LEMMA ReadsInv ==
  ASSUME IInv, NEW r \in Requests,
         \/ RecycleFlush(r) \/ ResendRead(r) \/ ResendSelect(r) \/ ApproveSelect(r)
         \/ PendingCompanyRead(r, "approve") \/ PendingCompanyRead(r, "reject")
  PROVE  IInv'
  <1>1. CASE RecycleFlush(r)
    BY <1>1, SelectInv DEF RecycleFlush
  <1>2. CASE ResendSelect(r)
    BY <1>2, SelectInv DEF ResendSelect
  <1>3. CASE ApproveSelect(r)
    BY <1>3, SelectInv DEF ApproveSelect
  <1>4. CASE ResendRead(r)
    BY <1>4, StartInv DEF ResendRead
  <1>5. CASE PendingCompanyRead(r, "approve")
    BY <1>5, StartInv DEF PendingCompanyRead
  <1>6. CASE PendingCompanyRead(r, "reject")
    BY <1>6, StartInv DEF PendingCompanyRead
  <1>7. QED
    BY <1>1, <1>2, <1>3, <1>4, <1>5, <1>6

-----------------------------------------------------------------------------
(* The commits that mint a token.                                          *)

LEMMA MintRows ==
  ASSUME IInv, NEW u \in Users, NEW t \in Tokens, NEW by \in {"register", "resend", "approve"},
         NEW stale \in SUBSET Tokens, Mint(t, u, by, stale)
  PROVE  /\ tokens' \in [Tokens -> Token]
         /\ tokens[t].state = "absent"
         /\ tokens'[t].state = "open" /\ tokens'[t].user = u /\ tokens'[t].by = by
         /\ \A x \in Tokens \ {t} :
               /\ tokens'[x].user = tokens[x].user
               /\ tokens'[x].by = tokens[x].by
               /\ tokens'[x].state = IF x \in stale THEN "deleted" ELSE tokens[x].state
  <1>1. \A x \in Tokens : tokens[x] \in Token
    BY DEF IInv, TypeOK
  <1>2. [state |-> "open", user |-> u, by |-> by] \in Token
    BY DEF Token
  <1>3. \A x \in Tokens : /\ [tokens[x] EXCEPT !.state = "deleted"] \in Token
                          /\ [tokens[x] EXCEPT !.state = "deleted"].state = "deleted"
                          /\ [tokens[x] EXCEPT !.state = "deleted"].user = tokens[x].user
                          /\ [tokens[x] EXCEPT !.state = "deleted"].by = tokens[x].by
    BY <1>1 DEF Token
  <1>4. QED
    BY <1>1, <1>2, <1>3 DEF Mint

(* A registration mints for an account whose open links it knows and that  *)
(* no other request has locked; the others leave the latest link alone.    *)
LEMMA MintInv ==
  ASSUME IInv, NEW r \in Requests, Advance(r, Idle),
         NEW u \in Users, NEW t \in Tokens, NEW by \in {"register", "resend", "approve"},
         NEW stale \in SUBSET Tokens, Mint(t, u, by, stale),
         \A x \in stale : tokens[x].state # "absent",
         users' \in [Users -> User],
         \A x \in Users \ {u} : users'[x] = users[x],
         IF users[u].state = "absent" THEN Is(u, "inactive", "candidate")'
            ELSE users'[u].role = users[u].role /\ users'[u].state = users[u].state,
         approved \subseteq approved',
         users'[u].role = "company" => u \in approved',
         by # "register" => users'[u].latest = users[u].latest,
         by = "register" =>
            /\ users'[u].latest = t
            /\ \A x \in Tokens : /\ tokens[x].state = "open"
                                 /\ tokens[x].by = "register"
                                 /\ tokens[x].user = u
                                 => x \in stale
            /\ \A s \in Requests \ {r} : req[s].step = "locked" => req[s].user # u
  PROVE  /\ RowsInv' /\ RequestsInv'
         /\ tokens' \in [Tokens -> Token] /\ req' \in [Requests -> Request]
         /\ ActiveCandidate' => ActiveCandidate
  <1>1. /\ tokens' \in [Tokens -> Token]
        /\ tokens[t].state = "absent"
        /\ tokens'[t].state = "open" /\ tokens'[t].user = u /\ tokens'[t].by = by
        /\ \A x \in Tokens \ {t} :
              /\ tokens'[x].user = tokens[x].user
              /\ tokens'[x].by = tokens[x].by
              /\ tokens'[x].state = IF x \in stale THEN "deleted" ELSE tokens[x].state
    BY MintRows
  <1>2. /\ \A x \in Users : UserOK(x)
        /\ \A x \in Tokens : TokenOK(x) /\ LatestOnly(x)
        /\ \A x \in Users : users[x].state = "active" /\ users[x].role = "company" => x \in approved
    BY DEF IInv, RowsInv, CompanyIsApproved, Is
  <1>3. users'[u].state # "absent"
    BY DEF Is
  <1>4. Kept
    BY <1>1, <1>3 DEF Kept
  <1>5. \A s \in Requests \ {r} : NoFreshLink(req[s])
    BY <1>1 DEF NoFreshLink
  <1>6. RequestsInv' /\ req' \in [Requests -> Request]
    BY <1>4, <1>5, FinishRequests
  <1>7. \A x \in Users : UserOK(x)'
    BY <1>2 DEF UserOK, Is
  <1>8. ASSUME NEW x \in Tokens
        PROVE  TokenOK(x)'
    <2>1. CASE x = t
      BY <1>1, <1>3, <2>1 DEF TokenOK
    <2>2. CASE x # t
      <3>1. /\ tokens'[x].user = tokens[x].user
            /\ tokens'[x].state = "absent" <=> tokens[x].state = "absent"
        BY <1>1, <2>2
      <3>2. SUFFICES ASSUME tokens[x].state # "absent" PROVE TokenOK(x)'
        BY <1>2, <3>1 DEF TokenOK
      <3>3. /\ tokens[x].user \in Users
            /\ users[tokens[x].user].state # "absent"
            /\ users[tokens[x].user].role = "company" => tokens[x].user \in approved
        BY <1>2, <3>2 DEF TokenOK
      <3>4. QED
        BY <3>1, <3>2, <3>3, <1>3 DEF TokenOK
    <2>3. QED
      BY <2>1, <2>2
  <1>9. ASSUME NEW x \in Tokens, tokens'[x].state = "open", tokens'[x].by = "register"
        PROVE  users'[tokens'[x].user].latest = x
    <2>1. CASE x = t
      BY <1>1, <1>9, <2>1
    <2>2. CASE x # t
      <3>1. /\ tokens[x].state = "open" /\ tokens[x].by = "register" /\ x \notin stale
            /\ tokens'[x].user = tokens[x].user /\ tokens[x].user \in Users
            /\ users[tokens[x].user].latest = x
        BY <1>1, <1>2, <1>9, <2>2 DEF TokenOK, LatestOnly
      <3>2. QED
        BY <3>1
    <2>3. QED
      BY <2>1, <2>2
  <1>10. CompanyIsApproved'
    BY <1>2 DEF CompanyIsApproved, Is
  <1>11. RowsInv'
    BY <1>7, <1>8, <1>9, <1>10 DEF RowsInv, LatestOnly
  <1>12. ActiveCandidate' => ActiveCandidate
    BY DEF ActiveCandidate, Is
  <1>13. QED
    BY <1>1, <1>6, <1>11, <1>12

(* A profile inserted, or none, links no less than before.                 *)
LEMMA ClaimProfileInv ==
  ASSUME IInv, NEW r \in Requests, ClaimProfile(r), erased' = erased,
         ActiveCandidate' => ActiveCandidate
  PROVE  /\ profiles' \in [Profiles -> {"absent", "lead", "linked", "deleted"}]
         /\ ActiveCandidateIsLinked'
  BY DEF IInv, TypeOK, ClaimProfile, InsertProfile, Profile, ActiveCandidateIsLinked

LEMMA RegisterNewInv ==
  ASSUME IInv, NEW r \in Requests, NEW u \in Users, NEW t \in Tokens, RegisterNewCommit(r, u, t)
  PROVE  IInv'
  <1> DEFINE row == [state |-> "inactive", role |-> "candidate", latest |-> t]
  <1>1. /\ users' = [users EXCEPT ![u] = row] /\ users[u].state = "absent"
        /\ Mint(t, u, "register", {}) /\ ClaimProfile(r) /\ Advance(r, Idle)
        /\ approved' = approved /\ erased' = erased
    BY DEF RegisterNewCommit, InsertUser
  <1>2. users \in [Users -> User] /\ row \in User
    BY DEF IInv, TypeOK, User
  <1>3. users' \in [Users -> User] /\ users'[u] = row /\ \A x \in Users \ {u} : users'[x] = users[x]
    BY <1>1, <1>2
  <1>4. Is(u, "inactive", "candidate")' /\ users'[u].role # "company" /\ users'[u].latest = t
    BY <1>3 DEF Is
  <1>5. \A x \in Tokens : tokens[x].state = "open" => tokens[x].user # u
    BY <1>1 DEF IInv, RowsInv, TokenOK
  <1>6. \A s \in Requests : req[s].step = "locked" => req[s].user # u
    BY <1>1 DEF IInv, RequestsInv, RequestOK, HasCandidate
  <1>7. /\ RowsInv' /\ RequestsInv'
        /\ tokens' \in [Tokens -> Token] /\ req' \in [Requests -> Request]
        /\ ActiveCandidate' => ActiveCandidate
    BY <1>1, <1>3, <1>4, <1>5, <1>6, MintInv
  <1>8. /\ profiles' \in [Profiles -> {"absent", "lead", "linked", "deleted"}]
        /\ ActiveCandidateIsLinked'
    BY <1>1, <1>7, ClaimProfileInv
  <1>9. TypeOK'
    BY <1>1, <1>3, <1>7, <1>8 DEF IInv, TypeOK
  <1>10. QED
    BY <1>7, <1>8, <1>9 DEF IInv

LEMMA RecycleInv ==
  ASSUME IInv, NEW r \in Requests, NEW t \in Tokens, RecycleCommit(r, t)
  PROVE  IInv'
  <1>1. PICK q \in Request : q = req[r]
    BY DEF IInv, TypeOK
  <1>2. RequestOK(q) /\ q.step = "locked" /\ q.user \in Users /\ q.stale \in SUBSET Tokens
    BY <1>1 DEF IInv, RequestsInv, RequestOK, HasCandidate, RecycleCommit, Request
  <1>3. PICK u \in Users : u = q.user
    BY <1>2
  <1>4. /\ users' = [users EXCEPT ![u].latest = t]
        /\ Mint(t, u, "register", q.stale) /\ ClaimProfile(r) /\ Advance(r, Idle)
        /\ approved' = approved /\ erased' = erased
    BY <1>1, <1>3 DEF RecycleCommit
  <1>5. users[u].state # "absent" /\ users[u].role = "candidate"
    BY <1>2, <1>3 DEF RequestOK, HasCandidate
  <1>6. users \in [Users -> User]
    BY DEF IInv, TypeOK
  <1>7. /\ users' \in [Users -> User]
        /\ \A x \in Users \ {u} : users'[x] = users[x]
        /\ users'[u].role = users[u].role /\ users'[u].state = users[u].state
        /\ users'[u].latest = t
    BY <1>4, <1>6 DEF User
  <1>8. /\ \A x \in q.stale : tokens[x].state # "absent"
        /\ \A x \in Tokens : /\ tokens[x].state = "open"
                             /\ tokens[x].by = "register"
                             /\ tokens[x].user = u
                             => x \in q.stale
    BY <1>2, <1>3 DEF RequestOK
  <1>9. \A s \in Requests \ {r} : req[s].step = "locked" => req[s].user # u
    BY <1>1, <1>2, <1>3 DEF IInv, RequestsInv, OneLock
  <1>10. /\ RowsInv' /\ RequestsInv'
         /\ tokens' \in [Tokens -> Token] /\ req' \in [Requests -> Request]
         /\ ActiveCandidate' => ActiveCandidate
    BY <1>2, <1>4, <1>5, <1>7, <1>8, <1>9, MintInv
  <1>11. /\ profiles' \in [Profiles -> {"absent", "lead", "linked", "deleted"}]
         /\ ActiveCandidateIsLinked'
    BY <1>4, <1>10, ClaimProfileInv
  <1>12. TypeOK'
    BY <1>4, <1>7, <1>10, <1>11 DEF IInv, TypeOK
  <1>13. QED
    BY <1>10, <1>11, <1>12 DEF IInv

(* A resend and an approval write no account and no profile.               *)
LEMMA ResendApproveInv ==
  ASSUME IInv, NEW r \in Requests, NEW t \in Tokens,
         ResendCommit(r, t) \/ ApproveCommit(r, t)
  PROVE  IInv'
  <1>1. PICK q \in Request : q = req[r]
    BY DEF IInv, TypeOK
  <1>2. /\ RequestOK(q) /\ q.user \in Users /\ q.stale \in SUBSET Tokens
        /\ users[q.user].state # "absent"
    BY <1>1 DEF IInv, RequestsInv, RequestOK, HasCandidate, HasCompany, ResendCommit,
                ApproveCommit, Request
  <1>3. PICK u \in Users : u = q.user
    BY <1>2
  <1>4. PICK by \in {"resend", "approve"} : Mint(t, u, by, q.stale)
    BY <1>1, <1>3 DEF ResendCommit, ApproveCommit
  <1>5. /\ users' = users /\ profiles' = profiles /\ erased' = erased
        /\ Advance(r, Idle)
        /\ approved \subseteq approved' /\ approved' \in SUBSET Users
    BY <1>1, <1>2 DEF ResendCommit, ApproveCommit, IInv, TypeOK
  <1>6. users[u].role = "company" => u \in approved'
    BY <1>1, <1>2, <1>3 DEF ResendCommit, ApproveCommit, RequestOK, HasCandidate
  <1>7. users' \in [Users -> User]
    BY <1>5 DEF IInv, TypeOK
  <1>8. \A x \in q.stale : tokens[x].state # "absent"
    BY <1>2 DEF RequestOK
  <1>9. users[u].state # "absent"
    BY <1>2, <1>3
  <1>10. /\ RowsInv' /\ RequestsInv'
         /\ tokens' \in [Tokens -> Token] /\ req' \in [Requests -> Request]
         /\ ActiveCandidate' => ActiveCandidate
    BY <1>2, <1>4, <1>5, <1>6, <1>7, <1>8, <1>9, MintInv
  <1>11. ActiveCandidateIsLinked'
    BY <1>5, <1>10 DEF IInv, ActiveCandidateIsLinked
  <1>12. TypeOK'
    BY <1>5, <1>7, <1>10 DEF IInv, TypeOK
  <1>13. QED
    BY <1>10, <1>11, <1>12 DEF IInv

-----------------------------------------------------------------------------
(* The commits that mint none.                                             *)

(* A company goes with its tokens: no request relies on more of either     *)
(* than that there was one.                                                *)
LEMMA DeleteUserInv ==
  ASSUME IInv, NEW u \in Users, DeleteUser(u),
         users[u].state # "absent", users[u].role = "company",
         UNCHANGED <<profiles, approved, erased>>
  PROVE  /\ Kept /\ RowsInv' /\ ActiveCandidateIsLinked'
         /\ users' \in [Users -> User] /\ tokens' \in [Tokens -> Token]
  <1>1. users \in [Users -> User] /\ tokens \in [Tokens -> Token]
    BY DEF IInv, TypeOK
  <1>2. /\ users' \in [Users -> User]
        /\ \A x \in Users : /\ users'[x].role = users[x].role
                            /\ users'[x].latest = users[x].latest
                            /\ users'[x].state = IF x = u THEN "deleted" ELSE users[x].state
    BY <1>1 DEF DeleteUser, User
  <1>3. /\ tokens' \in [Tokens -> Token]
        /\ \A x \in Tokens :
              /\ tokens'[x].user = tokens[x].user
              /\ tokens'[x].by = tokens[x].by
              /\ tokens'[x].state = IF tokens[x].user = u THEN "deleted" ELSE tokens[x].state
    BY <1>1 DEF DeleteUser, Token
  <1>4. /\ \A x \in Users : UserOK(x)
        /\ \A x \in Tokens : TokenOK(x) /\ LatestOnly(x)
        /\ \A x \in Users : users[x].state = "active" /\ users[x].role = "company" => x \in approved
    BY DEF IInv, RowsInv, CompanyIsApproved, Is
  <1>5. \A x \in Tokens : tokens'[x].state = "absent" <=> tokens[x].state = "absent"
    BY <1>3, <1>4, ConstantsAssumption DEF TokenOK
  <1>6. Kept
    BY <1>2, <1>3, <1>5 DEF Kept
  <1>7. \A x \in Users : UserOK(x)'
    BY <1>2, <1>4 DEF UserOK
  <1>8. \A x \in Tokens : TokenOK(x)'
    BY <1>2, <1>3, <1>4, <1>5 DEF TokenOK
  <1>9. \A x \in Tokens : LatestOnly(x)'
    BY <1>2, <1>3, <1>4 DEF TokenOK, LatestOnly
  <1>10. CompanyIsApproved'
    BY <1>2, <1>4 DEF CompanyIsApproved, Is
  <1>11. ActiveCandidateIsLinked'
    BY <1>2 DEF IInv, ActiveCandidateIsLinked, ActiveCandidate, Is
  <1>12. QED
    BY <1>2, <1>3, <1>6, <1>7, <1>8, <1>9, <1>10, <1>11 DEF RowsInv

LEMMA RejectInv ==
  ASSUME IInv, NEW r \in Requests, RejectCommit(r)
  PROVE  IInv'
  <1>1. PICK q \in Request : q = req[r]
    BY DEF IInv, TypeOK
  <1>2. q.step = "reject" /\ HasCompany(q)
    BY <1>1 DEF IInv, RequestsInv, RequestOK, RejectCommit
  <1>3. PICK u \in Users : u = q.user
    BY <1>2 DEF HasCompany
  <1>4. /\ DeleteUser(u) /\ UNCHANGED <<profiles, approved, erased>> /\ Advance(r, Idle)
        /\ users[u].state # "absent" /\ users[u].role = "company"
    BY <1>1, <1>2, <1>3 DEF RejectCommit, HasCompany
  <1>5. /\ Kept /\ RowsInv' /\ ActiveCandidateIsLinked'
        /\ users' \in [Users -> User] /\ tokens' \in [Tokens -> Token]
    BY <1>4, DeleteUserInv
  <1>6. \A s \in Requests : NoFreshLink(req[s])
    <2>1. \A x \in Tokens : tokens'[x].state # "open" \/ tokens[x].state # "absent"
      BY <1>4 DEF DeleteUser, IInv, TypeOK, Token
    <2>2. QED
      BY <2>1 DEF NoFreshLink
  <1>7. RequestsInv' /\ req' \in [Requests -> Request]
    BY <1>4, <1>5, <1>6, FinishRequests
  <1>8. TypeOK'
    BY <1>4, <1>5, <1>7 DEF IInv, TypeOK
  <1>9. QED
    BY <1>5, <1>7, <1>8 DEF IInv

(* A commit of no request in flight leaves them all as they are.           *)
LEMMA SameRequests ==
  ASSUME IInv, Kept, req' = req, \A s \in Requests : NoFreshLink(req[s])
  PROVE  RequestsInv'
  <1>1. OneLock'
    BY DEF IInv, RequestsInv, OneLock
  <1>2. ASSUME NEW s \in Requests
        PROVE  RequestOK(req[s])'
    <2>1. PICK v \in Request : v = req[s]
      BY DEF IInv, TypeOK
    <2>2. RequestOK(v)'
      BY <2>1, KeptRequest DEF IInv, RequestsInv
    <2>3. QED
      BY <2>1, <2>2 DEF RequestOK, HasCandidate, HasCompany
  <1>3. QED
    BY <1>1, <1>2 DEF RequestsInv

LEMMA DeleteCompanyInv ==
  ASSUME IInv, NEW u \in Users, DeleteCompany(u)
  PROVE  IInv'
  <1>1. /\ DeleteUser(u) /\ UNCHANGED <<profiles, req, approved, erased>>
        /\ users[u].state # "absent" /\ users[u].role = "company"
    BY DEF DeleteCompany, Present
  <1>2. /\ Kept /\ RowsInv' /\ ActiveCandidateIsLinked'
        /\ users' \in [Users -> User] /\ tokens' \in [Tokens -> Token]
    BY <1>1, DeleteUserInv
  <1>3. \A s \in Requests : NoFreshLink(req[s])
    <2>1. \A x \in Tokens : tokens'[x].state # "open" \/ tokens[x].state # "absent"
      BY <1>1 DEF DeleteUser, IInv, TypeOK, Token
    <2>2. QED
      BY <2>1 DEF NoFreshLink
  <1>4. RequestsInv'
    BY <1>1, <1>2, <1>3, SameRequests
  <1>5. TypeOK'
    BY <1>1, <1>2 DEF IInv, TypeOK
  <1>6. QED
    BY <1>2, <1>4, <1>5 DEF IInv

LEMMA RegisterCompanyInv ==
  ASSUME IInv, NEW u \in Users, RegisterCompany(u)
  PROVE  IInv'
  <1> DEFINE row == [state |-> "inactive", role |-> "company", latest |-> None]
  <1>1. /\ users' = [users EXCEPT ![u] = row] /\ users[u].state = "absent"
        /\ UNCHANGED <<tokens, profiles, req, approved, erased>>
    BY DEF RegisterCompany, InsertUser
  <1>2. users \in [Users -> User] /\ row \in User
    BY DEF IInv, TypeOK, User
  <1>3. /\ users' \in [Users -> User] /\ \A x \in Users \ {u} : users'[x] = users[x]
        /\ users'[u].state = "inactive" /\ users'[u].role = "company"
    BY <1>1, <1>2
  <1>4. /\ \A x \in Users : UserOK(x)
        /\ \A x \in Tokens : TokenOK(x) /\ LatestOnly(x)
        /\ \A x \in Users : users[x].state = "active" /\ users[x].role = "company" => x \in approved
    BY DEF IInv, RowsInv, CompanyIsApproved, Is
  <1>5. Kept
    BY <1>1, <1>3 DEF Kept
  <1>6. \A s \in Requests : NoFreshLink(req[s])
    BY <1>1 DEF NoFreshLink
  <1>7. RequestsInv'
    BY <1>1, <1>5, <1>6, SameRequests
  <1>8. \A x \in Users : UserOK(x)'
    BY <1>3, <1>4 DEF UserOK
  <1>9. \A x \in Tokens : TokenOK(x)' /\ LatestOnly(x)'
    BY <1>1, <1>3, <1>4 DEF TokenOK, LatestOnly
  <1>10. CompanyIsApproved'
    BY <1>1, <1>3, <1>4 DEF CompanyIsApproved, Is
  <1>11. ActiveCandidateIsLinked'
    BY <1>1, <1>3 DEF IInv, ActiveCandidateIsLinked, ActiveCandidate, Is
  <1>12. TypeOK'
    BY <1>1, <1>3 DEF IInv, TypeOK
  <1>13. QED
    BY <1>7, <1>8, <1>9, <1>10, <1>11, <1>12 DEF IInv, RowsInv

LEMMA ActivateInv ==
  ASSUME IInv, NEW r \in Requests, ActivateCommit(r)
  PROVE  IInv'
  <1>1. PICK q \in Request : q = req[r]
    BY DEF IInv, TypeOK
  <1>2. RequestOK(q) /\ q.step \in {"activate", "linking"}
    BY <1>1 DEF IInv, RequestsInv, ActivateCommit
  <1>3. PICK u \in Users, t \in Tokens :
          /\ u = q.user /\ t = q.token /\ tokens[t].user = u
          /\ users[u].state # "absent"
          /\ users[u].role = "company" => u \in approved
    BY <1>2 DEF RequestOK, IInv, RowsInv, TokenOK
  <1>4. /\ Activate(u, t) /\ Advance(r, Idle)
        /\ approved' = approved /\ erased' = erased
    BY <1>1, <1>3 DEF ActivateCommit
  <1>5. users \in [Users -> User] /\ tokens \in [Tokens -> Token]
    BY DEF IInv, TypeOK
  <1>6. /\ users' \in [Users -> User]
        /\ \A x \in Users : /\ users'[x].role = users[x].role
                            /\ users'[x].latest = users[x].latest
                            /\ users'[x].state = IF x = u THEN "active" ELSE users[x].state
    BY <1>4, <1>5 DEF Activate, User
  <1>7. /\ tokens' \in [Tokens -> Token]
        /\ \A x \in Tokens : /\ tokens'[x].user = tokens[x].user
                             /\ tokens'[x].by = tokens[x].by
                             /\ tokens'[x].state = IF x = t THEN "used" ELSE tokens[x].state
        /\ tokens[t].state # "absent"
    BY <1>4, <1>5 DEF Activate, Token
  <1>8. /\ \A x \in Users : UserOK(x)
        /\ \A x \in Tokens : TokenOK(x) /\ LatestOnly(x)
        /\ \A x \in Users : users[x].state = "active" /\ users[x].role = "company" => x \in approved
    BY DEF IInv, RowsInv, CompanyIsApproved, Is
  <1>9. Kept
    BY <1>6, <1>7 DEF Kept
  <1>10. \A s \in Requests : NoFreshLink(req[s])
    BY <1>7 DEF NoFreshLink
  <1>11. RequestsInv' /\ req' \in [Requests -> Request]
    BY <1>4, <1>9, <1>10, FinishRequests
  <1>12. \A x \in Users : UserOK(x)'
    BY <1>3, <1>6, <1>8 DEF UserOK
  <1>13. \A x \in Tokens : TokenOK(x)'
    BY <1>3, <1>4, <1>6, <1>7, <1>8 DEF TokenOK
  <1>14. \A x \in Tokens : LatestOnly(x)'
    BY <1>6, <1>7, <1>8 DEF TokenOK, LatestOnly
  <1>15. CompanyIsApproved'
    BY <1>3, <1>4, <1>6, <1>8 DEF CompanyIsApproved, Is
  <1>16. /\ profiles' \in [Profiles -> {"absent", "lead", "linked", "deleted"}]
         /\ ActiveCandidateIsLinked'
    <2>1. CASE users[u].role = "company" /\ profiles' = profiles
      BY <1>4, <1>6, <2>1 DEF IInv, TypeOK, ActiveCandidateIsLinked, ActiveCandidate, Is
    <2>2. CASE LinkProfile(q.profile)
      <3>1. \E p \in Profiles : profiles' = [profiles EXCEPT ![p] = "linked"]
        BY <2>2 DEF LinkProfile, InsertProfile, Profile
      <3>2. QED
        BY <3>1 DEF IInv, TypeOK, ActiveCandidateIsLinked
    <2>3. QED
      BY <1>1, <1>3, <2>1, <2>2 DEF ActivateCommit
  <1>17. TypeOK'
    BY <1>4, <1>6, <1>7, <1>11, <1>16 DEF IInv, TypeOK
  <1>18. QED
    BY <1>11, <1>12, <1>13, <1>14, <1>15, <1>16, <1>17 DEF IInv, RowsInv

(* Applications and erasures write the profile rows alone.                 *)
LEMMA ProfilesInv ==
  ASSUME IInv, ApplyAsLead \/ ApplyAsCandidate \/ \E p \in Profiles : EraseCandidate(p)
  PROVE  IInv'
  <1>1. UNCHANGED <<users, tokens, req, approved>>
    BY DEF ApplyAsLead, ApplyAsCandidate, EraseCandidate
  <1>2. Kept /\ \A s \in Requests : NoFreshLink(req[s])
    BY <1>1 DEF Kept, NoFreshLink
  <1>3. RequestsInv'
    BY <1>1, <1>2, SameRequests
  <1>4. RowsInv'
    BY <1>1 DEF IInv, RowsInv, UserOK, TokenOK, LatestOnly, CompanyIsApproved, Is
  <1>5. ActiveCandidate' <=> ActiveCandidate
    BY <1>1 DEF ActiveCandidate, Is
  <1>6. /\ profiles' \in [Profiles -> {"absent", "lead", "linked", "deleted"}]
        /\ erased' \in BOOLEAN
        /\ ActiveCandidateIsLinked'
    <2>1. CASE ApplyAsLead
      BY <1>5, <2>1 DEF ApplyAsLead, InsertProfile, IInv, TypeOK, ActiveCandidateIsLinked
    <2>2. CASE ApplyAsCandidate
      <3>1. erased' = erased /\ \E p \in Profiles : profiles' = [profiles EXCEPT ![p] = "linked"]
        BY <2>2 DEF ApplyAsCandidate, InsertProfile, Profile
      <3>2. QED
        BY <3>1 DEF IInv, TypeOK, ActiveCandidateIsLinked
    <2>3. ASSUME NEW p \in Profiles, EraseCandidate(p)
          PROVE  /\ profiles' \in [Profiles -> {"absent", "lead", "linked", "deleted"}]
                 /\ erased' \in BOOLEAN
                 /\ ActiveCandidateIsLinked'
      <3>1. /\ profiles' = [profiles EXCEPT ![p] = "deleted"]
            /\ erased' = (erased \/ ActiveCandidate)
        BY <2>3 DEF EraseCandidate
      <3>2. ActiveCandidate \in BOOLEAN
        BY DEF ActiveCandidate
      <3>3. erased' \in BOOLEAN /\ (ActiveCandidate => erased')
        BY <3>1, <3>2, Zenon DEF IInv, TypeOK
      <3>4. profiles' \in [Profiles -> {"absent", "lead", "linked", "deleted"}]
        BY <3>1 DEF IInv, TypeOK
      <3>5. ActiveCandidateIsLinked'
        BY <1>5, <3>3 DEF ActiveCandidateIsLinked
      <3>6. QED
        BY <3>3, <3>4, <3>5
    <2>4. QED
      BY <2>1, <2>2, <2>3
  <1>7. TypeOK'
    BY <1>1, <1>6 DEF IInv, TypeOK
  <1>8. QED
    BY <1>3, <1>4, <1>6, <1>7 DEF IInv

-----------------------------------------------------------------------------
LEMMA StepIInv == IInv /\ [Next]_vars => IInv'
  <1> SUFFICES ASSUME IInv, [Next]_vars PROVE IInv'
    OBVIOUS
  <1>1. ASSUME NEW r \in Requests, RequestStep(r)
        PROVE  IInv'
    BY <1>1, RegisterReadInv, ReadsInv, RejectInv, ActivateFindInv, ActivateInv,
       RollbackInv, RecycleInv, ResendApproveInv, ActivateReadInv, RegisterNewInv
       DEF RequestStep
  <1>2. ASSUME NEW u \in Users, RegisterCompany(u) \/ DeleteCompany(u)
        PROVE  IInv'
    BY <1>2, RegisterCompanyInv, DeleteCompanyInv
  <1>3. CASE ApplyAsLead \/ ApplyAsCandidate \/ \E p \in Profiles : EraseCandidate(p)
    BY <1>3, ProfilesInv
  <1>4. CASE UNCHANGED vars
    <2>1. Kept /\ \A s \in Requests : NoFreshLink(req[s])
      BY <1>4 DEF vars, Kept, NoFreshLink
    <2>2. RequestsInv'
      BY <1>4, <2>1, SameRequests DEF vars
    <2>3. TypeOK' /\ RowsInv' /\ ActiveCandidateIsLinked'
      BY <1>4 DEF vars, IInv, TypeOK, RowsInv, UserOK, TokenOK, LatestOnly,
                  CompanyIsApproved, ActiveCandidateIsLinked, ActiveCandidate, Is
    <2>4. QED
      BY <2>2, <2>3 DEF IInv
  <1>5. QED
    BY <1>1, <1>2, <1>3, <1>4 DEF Next

LEMMA Invariance == Spec => []IInv
  BY InitIInv, StepIInv, PTL DEF Spec

(* The rows and the requests in flight keep their types.                   *)
THEOREM TypeCorrect == Spec => []TypeOK
  <1>1. IInv => TypeOK
    BY DEF IInv
  <1>2. QED
    BY <1>1, Invariance, PTL

(* A link that a registration sent opens an account only while no later    *)
(* registration has set the password, however the requests overlap.        *)
THEOREM LatestLinkOnly == Spec => []OnlyLatestLinkOpens
  <1>1. IInv => OnlyLatestLinkOpens
    BY DEF IInv, RowsInv, LatestOnly, OnlyLatestLinkOpens
  <1>2. QED
    BY <1>1, Invariance, PTL

(* No company is active that no admin approved.                            *)
THEOREM ApprovedCompanies == Spec => []CompanyIsApproved
  <1>1. IInv => CompanyIsApproved
    BY DEF IInv, RowsInv
  <1>2. QED
    BY <1>1, Invariance, PTL

(* The profile of an active candidate is linked unless an admin erased it. *)
THEOREM LinkedProfiles == Spec => []ActiveCandidateIsLinked
  <1>1. IInv => ActiveCandidateIsLinked
    BY DEF IInv
  <1>2. QED
    BY <1>1, Invariance, PTL
=============================================================================
