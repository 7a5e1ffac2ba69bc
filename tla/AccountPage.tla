----------------------------- MODULE AccountPage -----------------------------
(***************************************************************************)
(* The one browser page of an account in one process, and everything that  *)
(* drives it: login_flow.py opens, replaces and closes the session under   *)
(* the lock account-browser; CreatorStudioPublisher writes a draft into    *)
(* the page and clicks its publish button, for publish under the lock      *)
(* publish-account, for preview under the lock publish-preview, and for    *)
(* the due rows of a distributed scheduler, all at once, under no lock;    *)
(* the selector health check, the analytics sync and the metric sync       *)
(* navigate the same page under no lock.  In Redis a lock is a lease that  *)
(* nothing renews.  A step is what runs between two awaits that let        *)
(* another operation reach the page.  Sites, sign-ins and QR scans are the *)
(* environment.                                                            *)
(***************************************************************************)
EXTENDS Naturals, FiniteSets

CONSTANTS
    PageOps,        \* requests that reach the page, each served once
    PageWork,       \* which requests are made together, none for one that is not made
    Browsers,       \* numbers of the browsers the process may launch
    StrictIdentity, \* strict_identity_match of the account's policy
    MaxLapses,      \* leases that end under their holder; 0 when locks are local
    NoBrowser,      \* no active session
    Nobody          \* holder of a free lock, and nobody's note

ASSUME PageAssumption ==
    /\ PageWork \subseteq [PageOps -> {"publish", "scheduled", "preview", "health",
                              "analytics", "metrics", "start", "status", "logout", "none"}]
    /\ StrictIdentity \in BOOLEAN /\ MaxLapses \in Nat
    /\ Browsers \subseteq Nat /\ NoBrowser \notin Browsers
    /\ Nobody \notin PageOps

VARIABLES
    active,     \* LoginFlow._active of the account
    browser,    \* every browser: its process, who is signed in, its page
    cookies,    \* who is signed in in the encrypted session file, or absent
    holder,     \* holder of every lock
    expired,    \* requests whose lease of a lock ended under them
    op,         \* every request: what it is, where it is, the browser it uses
    ending,     \* the browser that LoginFlow.shutdown took to close it
    clicked,    \* what the publish button was clicked on
    meddled,    \* publications during which another request drove the page
    dropped     \* browsers that an exception or an expired lease left to nobody

pageVars == <<active, browser, cookies, holder, expired, op, ending, clicked, meddled, dropped>>

Locks == {"browser", "publish", "preview"}

\* A page: where it is, the texts in its fields, the note it shows.
Blank == [at |-> "blank", title |-> Nobody, body |-> Nobody, note |-> Nobody]
Studio(who) == [Blank EXCEPT !.at = IF who = "none" THEN "login" ELSE "studio"]
Editor == [Blank EXCEPT !.at = "form"]
NotePage(n) == [Blank EXCEPT !.at = "note", !.note = n]

Unlaunched == [state |-> "unused", who |-> "none", page |-> Blank]

\* A browser left by a close that raised half-way still runs, with no page.
Open(b) == b \in Browsers /\ browser[b].state = "open"
Running(b) == b \in Browsers /\ browser[b].state \in {"open", "left"}
Spare == {b \in Browsers : browser[b].state = "unused"}
Fresh == CHOOSE b \in Spare : \A c \in Spare : b <= c
-----------------------------------------------------------------------------
(* Requests and their locks. *)

PageAt(o, pc) == op[o].pc = pc /\ ~op[o].restores
PageGoto(o, pc) == op' = [op EXCEPT ![o].pc = pc]
Released(o, locks) == [l \in Locks |-> IF l \in locks /\ holder[l] = o THEN Nobody ELSE holder[l]]
PageEnd(o, pc) ==
    /\ op' = [op EXCEPT ![o].pc = pc, ![o].restores = FALSE, ![o].browser = NoBrowser]
    /\ holder' = Released(o, Locks)

Publication(o) == op[o].kind \in {"publish", "scheduled"}

\* Publications between taking their page and their last look at it.
InFlight == {p \in PageOps : /\ Publication(p)
                             /\ op[p].pc \in {"open", "title", "body", "reverify", "again",
                                              "click", "read"}}

\* publish-account keeps two publications apart as long as both leases last.
Together(o, p) == \A q \in {o, p} : op[q].kind = "publish" /\ <<"publish", q>> \notin expired
Touch(o) == meddled' = meddled \cup {p \in InFlight \ {o} : ~Together(o, p)}

PageInit ==
    /\ active = NoBrowser /\ ending = {}
    /\ browser = [b \in Browsers |-> Unlaunched]
    /\ cookies \in {"absent", "mine", "other"}
    /\ holder = [l \in Locks |-> Nobody]
    /\ \E work \in PageWork :
          op = [o \in PageOps |-> [kind |-> work[o], pc |-> "new", browser |-> NoBrowser,
                                   restores |-> FALSE, got |-> Nobody]]
    /\ expired = {} /\ clicked = {} /\ meddled = {} /\ dropped = {}

\* publish and preview wait for their own lock of the account, which is not
\* the other's; the scheduler's rows wait for none.  A faulty variant takes
\* the lock per draft.
LockPerDraft(o) == TRUE
PageLockFree(o) == op[o].kind # "scheduled" => holder[op[o].kind] = Nobody
Begin(o) ==
    /\ PageAt(o, "new") /\ (Publication(o) \/ op[o].kind = "preview")
    /\ PageLockFree(o)
    /\ holder' = [l \in Locks |-> IF l = op[o].kind THEN o ELSE holder[l]]
    /\ PageGoto(o, "verify")
    /\ UNCHANGED <<active, browser, cookies, expired, ending, clicked, meddled, dropped>>

\* The lease of a lock in Redis ends before its holder does: 300 s or the
\* default, which no one renews.  The holder goes on.
PageLeaseLapses(l) ==
    /\ holder[l] # Nobody /\ Cardinality(expired) < MaxLapses
    /\ expired' = expired \cup {<<l, holder[l]>>}
    /\ holder' = [holder EXCEPT ![l] = Nobody]
    /\ UNCHANGED <<active, browser, cookies, op, ending, clicked, meddled, dropped>>
BrowserLeaseLapsed == \E o \in PageOps : <<"browser", o>> \in expired
-----------------------------------------------------------------------------
(* LoginFlow. *)

\* What _detect_status finds in browser x: it judges by the words on the page
\* that happens to be shown, so a note's page tells either way.  An account
\* other than the expected one is a mismatch under the strict policy, and
\* merely unverified otherwise.  Reading the page or saving its cookies may
\* raise.
Detected(x) ==
    IF x.state # "open" THEN {"raised"}
    ELSE {"raised"} \cup
         (IF x.page.at \in {"login", "blank"} THEN {"waiting"}
          ELSE (IF x.page.at = "note" THEN {"waiting"} ELSE {})
               \cup {IF x.who = "mine" THEN "verified"
                     ELSE IF x.who = "other"
                          THEN (IF StrictIdentity THEN "mismatch" ELSE "unverified")
                          ELSE "waiting"})
Authenticated == {"verified", "unverified"}

\* The session file after a detection: written, deleted on a mismatch, or as is.
SavedAfter(result, x) ==
    IF result \in Authenticated THEN x.who
    ELSE IF result = "mismatch" THEN "absent" ELSE cookies

\* A browser is launched with the saved session, which the site may have ended
\* meanwhile; a launch that raises half-way leaves it to nobody.
Launched(who) == [Unlaunched EXCEPT !.state = "open", !.who = who]
Launch(who) == browser' = [browser EXCEPT ![Fresh] = Launched(who)]
RestoredAs == {"none"} \cup ({cookies} \ {"absent"})
LaunchRaises == Launch("none") /\ dropped' = dropped \cup {Fresh}

\* ManagedBrowserSession.close is three awaits, any of which may raise or be
\* cancelled: the page is as it was, or the browser is left without a page, or
\* only the driver is left.
CloseOf(b) ==
    {[state |-> "closed", raised |-> FALSE]} \cup
    {[state |-> s, raised |-> TRUE] :
        s \in {"closed"} \cup (IF Running(b) THEN {"left", browser[b].state} ELSE {})}

\* A browser that another takes the place of is nobody's once the lease of
\* account-browser has lapsed.
Displaced(b) == IF BrowserLeaseLapsed /\ Running(b) THEN {b} ELSE {}

\* Where a request asks for the status of the account: _verify_account_identity
\* before prepare, before submit and before save_draft; a status request; the two
\* syncs, which ask first; and, when there is no active session,
\* _page_for_draft and the health check.
Asks(o) ==
    /\ ~op[o].restores
    /\ \/ op[o].pc \in {"verify", "reverify", "keep"}
       \/ op[o].pc = "new" /\ op[o].kind \in {"status", "analytics", "metrics"}
       \/ active = NoBrowser /\ op[o].pc \in {"page", "again", "resume"}
       \/ active = NoBrowser /\ op[o].pc = "new" /\ op[o].kind = "health"
NextPlace == [verify |-> "page", reverify |-> "again", keep |-> "resume",
          page |-> "open", again |-> "click", resume |-> "store", new |-> "goto"]

\* With the answer a request goes on, on the session that is active by then, or
\* it ends.  The preconditions of a publication want the identity verified.
GoesOn(o, result) ==
    IF op[o].pc \in {"verify", "reverify", "keep"} THEN result = "verified"
    ELSE result \in Authenticated /\ active' # NoBrowser /\ op[o].kind # "status"
Answer(o, result) ==
    IF GoesOn(o, result)
    THEN /\ op' = [op EXCEPT ![o].pc = NextPlace[@], ![o].restores = FALSE, ![o].browser = active']
         /\ holder' = Released(o, {"browser"})
    ELSE PageEnd(o, IF op[o].pc = "new" THEN "done" ELSE "failed")

\* status with an active session, or with no saved one.
Status(o) ==
    /\ Asks(o) /\ holder["browser"] = Nobody
    /\ \/ /\ active # NoBrowser
          /\ \E r \in Detected(browser[active]) :
                cookies' = SavedAfter(r, browser[active]) /\ UNCHANGED active /\ Answer(o, r)
       \/ /\ active = NoBrowser /\ cookies = "absent"
          /\ UNCHANGED <<active, cookies>> /\ Answer(o, "login_required")
    /\ UNCHANGED <<browser, expired, ending, clicked, meddled, dropped>>

\* status with a saved session only: it launches a browser, under the lock.
StatusLaunch(o) ==
    /\ Asks(o) /\ holder["browser"] = Nobody
    /\ active = NoBrowser /\ cookies # "absent" /\ Spare # {}
    /\ \/ /\ \E who \in RestoredAs : Launch(who)
          /\ op' = [op EXCEPT ![o].restores = TRUE, ![o].browser = Fresh]
          /\ holder' = [holder EXCEPT !["browser"] = o]
          /\ UNCHANGED <<active, dropped>>
       \/ LaunchRaises /\ UNCHANGED active /\ Answer(o, "raised")
    /\ UNCHANGED <<cookies, expired, ending, clicked, meddled>>

\* It loads the studio there and registers the browser if that is signed in; the
\* finally clause closes it otherwise, unless some session is registered.  A
\* faulty variant has no finally clause.
LeftOpen == FALSE
Finally == active = NoBrowser
StatusRestored(o) ==
    LET b == op[o].browser
        x == [browser[b] EXCEPT !.page = Studio(browser[b].who)] IN
    /\ op[o].restores
    /\ \E r \in Detected(x) :
          /\ cookies' = SavedAfter(r, x)
          /\ \/ /\ r \in Authenticated
                /\ active' = b /\ browser' = [browser EXCEPT ![b] = x]
                /\ dropped' = dropped \cup Displaced(active)
                /\ Touch(o) /\ Answer(o, r)
             \/ /\ r \notin Authenticated /\ Finally
                /\ \E c \in CloseOf(b) :
                      /\ browser' = [browser EXCEPT ![b] = [x EXCEPT !.state = c.state]]
                      /\ dropped' = dropped \cup (IF c.raised THEN {b} ELSE {})
                /\ UNCHANGED <<active, meddled>> /\ Answer(o, "raised")
             \/ /\ r \notin Authenticated /\ ~Finally
                /\ browser' = [browser EXCEPT ![b] = x]
                /\ dropped' = dropped \cup Displaced(b)
                /\ UNCHANGED <<active, meddled>> /\ Answer(o, "raised")
    /\ UNCHANGED <<expired, ending, clicked>>

\* start: the old session is closed but stays registered until the new one is
\* there, and for good when its close or the launch raises.
StartClose(o) ==
    /\ PageAt(o, "new") /\ op[o].kind = "start"
    /\ holder["browser"] = Nobody
    /\ \E c \in IF active = NoBrowser THEN {[state |-> "closed", raised |-> FALSE]}
                ELSE CloseOf(active) :
          /\ browser' = [b \in Browsers |->
                IF b = active THEN [browser[b] EXCEPT !.state = c.state] ELSE browser[b]]
          /\ IF c.raised THEN PageGoto(o, "failed") /\ UNCHANGED holder
             ELSE PageGoto(o, "launch") /\ holder' = [holder EXCEPT !["browser"] = o]
    /\ Touch(o)
    /\ UNCHANGED <<active, cookies, expired, ending, clicked, dropped>>

StartLaunch(o) ==
    /\ PageAt(o, "launch") /\ Spare # {}
    /\ \/ /\ \E who \in RestoredAs : Launch(who)
          /\ active' = Fresh
          /\ dropped' = dropped \cup Displaced(active)
          /\ op' = [op EXCEPT ![o].pc = "show", ![o].browser = Fresh]
          /\ UNCHANGED holder
       \/ LaunchRaises /\ PageEnd(o, "failed") /\ UNCHANGED active
    /\ Touch(o)
    /\ UNCHANGED <<cookies, expired, ending, clicked>>

StartShow(o) ==
    LET b == op[o].browser  shown == [browser[b] EXCEPT !.page = Studio(browser[b].who)] IN
    /\ PageAt(o, "show")
    /\ IF Open(b)
       THEN /\ browser' = [browser EXCEPT ![b] = shown]
            /\ Touch(o)
            /\ \E r \in Detected(shown) : cookies' = SavedAfter(r, shown)
       ELSE UNCHANGED <<browser, meddled, cookies>>
    /\ PageEnd(o, "done")
    /\ UNCHANGED <<active, expired, ending, clicked, dropped>>

\* logout forgets the session before it closes the browser; a close that raises
\* keeps the cookies too.
Logout(o) ==
    /\ PageAt(o, "new") /\ op[o].kind = "logout"
    /\ holder["browser"] = Nobody
    /\ IF active = NoBrowser
       THEN /\ cookies' \in {"absent", cookies} /\ PageGoto(o, "done")
            /\ UNCHANGED <<holder, meddled>>
       ELSE /\ op' = [op EXCEPT ![o].pc = "closing", ![o].browser = active]
            /\ holder' = [holder EXCEPT !["browser"] = o]
            /\ Touch(o) /\ UNCHANGED cookies
    /\ active' = NoBrowser
    /\ UNCHANGED <<browser, expired, ending, clicked, dropped>>

LogoutClose(o) ==
    LET b == op[o].browser IN
    /\ PageAt(o, "closing")
    /\ \E c \in CloseOf(b) :
          /\ browser' = [browser EXCEPT ![b].state = c.state]
          /\ IF c.raised
             THEN PageEnd(o, "failed") /\ dropped' = dropped \cup {b} /\ UNCHANGED cookies
             ELSE PageEnd(o, "done") /\ cookies' \in {"absent", cookies} /\ UNCHANGED dropped
    /\ UNCHANGED <<active, expired, ending, clicked, meddled>>

\* LoginFlow.shutdown, once, takes no lock: it forgets the session, then closes
\* it and swallows what that raises.
Shutdown ==
    /\ active # NoBrowser /\ ending = {}
    /\ ending' = {active} /\ active' = NoBrowser
    /\ meddled' = meddled \cup InFlight
    /\ UNCHANGED <<browser, cookies, holder, expired, op, clicked, dropped>>
ShutdownClose(b) ==
    /\ b \in ending \ dropped /\ Running(b)
    /\ \E c \in CloseOf(b) :
          /\ browser' = [browser EXCEPT ![b].state = c.state]
          /\ dropped' = dropped \cup (IF c.raised THEN {b} ELSE {})
    /\ UNCHANGED <<active, cookies, holder, expired, op, ending, clicked, meddled>>
-----------------------------------------------------------------------------
(* What drives the page. *)

\* _page_for_draft and the health check take the session there is.
TakeSession(o) ==
    /\ active # NoBrowser
    /\ \/ \E pc \in {"page", "again", "resume"} : PageAt(o, pc)
       \/ PageAt(o, "new") /\ op[o].kind = "health"
    /\ op' = [op EXCEPT ![o].pc = NextPlace[@], ![o].browser = active]
    /\ UNCHANGED <<active, browser, cookies, holder, expired, ending, clicked, meddled, dropped>>

\* Goes to the studio and opens the editor, or finds itself signed out.
OpenEditor(o) ==
    LET b == op[o].browser  in == browser[b].who # "none" IN
    /\ PageAt(o, "open") /\ Open(b)
    /\ browser' = [browser EXCEPT ![b].page = IF in THEN Editor ELSE Studio("none")]
    /\ Touch(o)
    /\ IF in THEN PageGoto(o, "title") /\ UNCHANGED holder ELSE PageEnd(o, "failed")
    /\ UNCHANGED <<active, cookies, expired, ending, clicked, dropped>>

FormShown(b) == Open(b) /\ browser[b].page.at = "form"

\* fill looks its field up again: it writes into whatever form the page shows.
WriteTitle(o) ==
    LET b == op[o].browser IN
    /\ PageAt(o, "title") /\ FormShown(b)
    /\ browser' = [browser EXCEPT ![b].page.title = o]
    /\ Touch(o) /\ PageGoto(o, "body")
    /\ UNCHANGED <<active, cookies, holder, expired, ending, clicked, dropped>>

WriteBody(o) ==
    LET b == op[o].browser IN
    /\ PageAt(o, "body") /\ FormShown(b)
    /\ browser' = [browser EXCEPT ![b].page.body = o]
    /\ Touch(o)
    /\ IF Publication(o) THEN PageGoto(o, "reverify") /\ UNCHANGED holder
       ELSE \/ PageEnd(o, "done")
            \/ PageGoto(o, "keep") /\ UNCHANGED holder
    /\ UNCHANGED <<active, cookies, expired, ending, clicked, dropped>>

\* submit: the click on what the form holds, whoever wrote it; the site shows
\* the note or only says so, or asks to sign in, or points at the empty field.
\* save_draft clicks likewise.
Click(o) ==
    LET b == op[o].browser  x == browser[b]
        taken == x.who # "none" /\ Nobody \notin {x.page.title, x.page.body} IN
    /\ PageAt(o, "click") \/ PageAt(o, "store")
    /\ FormShown(b)
    /\ \E page \in IF x.who = "none" THEN {Studio("none")}
                   ELSE IF ~taken THEN {x.page}
                   ELSE IF PageAt(o, "store") THEN {Studio(x.who)}
                   ELSE {NotePage(o), Studio(x.who)} :
          browser' = [browser EXCEPT ![b].page = page]
    /\ Touch(o)
    /\ IF PageAt(o, "store") THEN PageEnd(o, "done") /\ UNCHANGED clicked
       ELSE /\ PageGoto(o, "read") /\ UNCHANGED holder
            /\ clicked' = IF taken
                          THEN clicked \cup {[by |-> o, as |-> x.who, title |-> x.page.title,
                                              body |-> x.page.body]}
                          ELSE clicked
    /\ UNCHANGED <<active, cookies, expired, ending, dropped>>

\* Three seconds later the result takes the note that the page shows then.
ReadResult(o) ==
    LET b == op[o].browser IN
    /\ PageAt(o, "read") /\ Open(b)
    /\ op' = [op EXCEPT ![o].pc = "done", ![o].browser = NoBrowser,
                        ![o].got = browser[b].page.note]
    /\ holder' = Released(o, Locks)
    /\ UNCHANGED <<active, browser, cookies, expired, ending, clicked, meddled, dropped>>

\* The health check and the two syncs load a page of theirs.
Navigate(o) ==
    LET b == op[o].browser IN
    /\ PageAt(o, "goto") /\ Open(b)
    /\ \E page \in {Studio(browser[b].who)} \cup
                   (IF op[o].kind = "metrics" THEN {NotePage("older")} ELSE {}) :
          browser' = [browser EXCEPT ![b].page = page]
    /\ Touch(o) /\ PageEnd(o, "done")
    /\ UNCHANGED <<active, cookies, expired, ending, clicked, dropped>>

\* Anything a page is asked for may time out, not be recognised or find the page
\* closed, a lock may be waited for in vain, and a request may be cancelled.
Raise(o) ==
    /\ op[o].pc \notin {"new", "closing", "done", "failed"}
    /\ ~op[o].restores
    /\ PageEnd(o, "failed")
    /\ UNCHANGED <<active, browser, cookies, expired, ending, clicked, meddled, dropped>>

\* The environment: somebody scans the code that a page shows; the site ends
\* a session.
Scan(b, who) ==
    /\ Open(b) /\ browser[b].page.at = "login"
    /\ browser' = [browser EXCEPT ![b].who = who, ![b].page = Studio(who)]
    /\ UNCHANGED <<active, cookies, holder, expired, op, ending, clicked, meddled, dropped>>
SessionEnds(b) ==
    /\ Open(b) /\ browser[b].who # "none"
    /\ browser' = [browser EXCEPT ![b].who = "none"]
    /\ UNCHANGED <<active, cookies, holder, expired, op, ending, clicked, meddled, dropped>>

PageStep(o) ==
    \/ Begin(o) \/ Status(o) \/ StatusLaunch(o) \/ StatusRestored(o) \/ TakeSession(o)
    \/ OpenEditor(o) \/ WriteTitle(o) \/ WriteBody(o) \/ Click(o) \/ ReadResult(o)
    \/ Navigate(o) \/ Raise(o)
    \/ StartClose(o) \/ StartLaunch(o) \/ StartShow(o) \/ Logout(o) \/ LogoutClose(o)
PageNext ==
    \/ \E o \in PageOps : PageStep(o)
    \/ \E l \in Locks : PageLeaseLapses(l)
    \/ Shutdown
    \/ \E b \in Browsers : ShutdownClose(b) \/ SessionEnds(b) \/ \E who \in {"mine", "other"} : Scan(b, who)
PageSpec == PageInit /\ [][PageNext]_pageVars
-----------------------------------------------------------------------------
\* What a publication clicks on is the draft it was asked to publish, in the
\* account it was asked to publish to, and the note it reports is none but its
\* own, unless another request drove the page from the moment the publication
\* took it: one that publish-account does not hold back, or, once the lease of
\* one of the two has lapsed, another publication.
OwnUnlessMeddled ==
    /\ \A s \in clicked : s.by \notin meddled => s.title = s.by /\ s.body = s.by /\ s.as = "mine"
    /\ \A o \in PageOps : Publication(o) /\ o \notin meddled => op[o].got \in {o, Nobody}

\* Whatever is asked for and fails on the way, a browser that runs is the one
\* that the next request will find, or one that a status call, a logout or the
\* shutdown has in hand, unless its own launch or its last close raised half-way,
\* or, after a lease of account-browser has lapsed, another browser was
\* registered in its place.
NoStrayBrowser ==
    \A b \in Browsers :
        Running(b) =>
            \/ b \in {active} \cup ending \cup dropped
            \/ \E o \in PageOps : /\ op[o].restores \/ op[o].pc = "closing"
                                  /\ op[o].browser = b

\* "Content that changed blocks the publication" (auto-publishing.md), "login
\* and publication of an account use a distributed lock" (high-concurrency.md):
\* what is clicked on is what was approved.
ApprovedContentIsSent == \A s \in clicked : s.title = s.by /\ s.body = s.by
=============================================================================
