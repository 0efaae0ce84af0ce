----------------------------- MODULE MCAdminSite -----------------------------
(***************************************************************************)
(* Each page alone: two rows in pages of one, so that a list has a second  *)
(* page to load, one request and a search that finds the older row; then   *)
(* two requests on fewer rows.                                             *)
(***************************************************************************)
EXTENDS AdminSite

Of(page, old, new, requests, mounts, matching) ==
  [home |-> page, old |-> old, new |-> new, size |-> 1, calls |-> requests, visits |-> mounts,
   narrow |-> matching]

MCScenes ==
  {Of(p, 2, 0, 2, 1, {}) : p \in {"jobsQueue", "applicationsQueue", "companiesQueue"}}
    \cup {Of("jobs", 1, 1, 1, 1, {1}),
          Of("applications", 1, 0, 1, 1, {1}),
          Of("candidates", 1, 0, 1, 2, {}), Of("candidates", 2, 0, 1, 1, {}),
          Of("companies", 1, 1, 1, 1, {1}), Of("companyRecord", 1, 0, 2, 1, {}),
          Of("pending", 2, 0, 2, 2, {1}), Of("invites", 1, 1, 2, 1, {}), Of("invites", 1, 0, 1, 1, {1})}

=============================================================================
