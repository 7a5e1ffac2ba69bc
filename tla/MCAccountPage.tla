--------------------------- MODULE MCAccountPage ----------------------------
(* Requests made together in the instances of AccountPage.                 *)
EXTENDS AccountPage

\* A publication with another request, and the requests that open and close the
\* browser among themselves.
PageTogether ==
    {[a |-> "publish", b |-> kind, c |-> "none"] :
        kind \in {"publish", "preview", "health", "start", "logout"}}
    \cup {[a |-> "scheduled", b |-> "metrics", c |-> "none"],
          [a |-> "start", b |-> "logout", c |-> "status"]}
\* A lease of publish-account or publish-preview that ends while no other request
\* asks for the lock changes nothing but expired: such ends are left out.
LapsesAreSeen ==
    \A lapse \in expired' : lapse[1] # "browser" =>
        \E p \in PageOps \ {lapse[2]} : op[p].kind = lapse[1]

\* Two requests of one kind are alike: the first one is a.
FirstIsA == op["a"].kind = op["b"].kind /\ op["a"].pc = "new" => op'["b"].pc = "new"

\* Two rows of one account in one batch of the scheduler.
PageBatch == {[a |-> "scheduled", b |-> "scheduled"]}
=============================================================================
