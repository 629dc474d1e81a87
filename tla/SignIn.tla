-------------------------------- MODULE SignIn --------------------------------
(***************************************************************************)
(* Signing in and out of one account from one browser: the handlers of      *)
(* routes/auth.py and current_user of deps.py, cut at their reads and       *)
(* commits, behind the only function of the web app that talks to the       *)
(* network, request of web/src/lib/api.ts, which sends a call again when    *)
(* it got no answer.  Tabs are calls in flight together; they share the     *)
(* cookie jar.  A request may be lost, answered too late, or run although   *)
(* nobody waits for it any more.                                            *)
(***************************************************************************)
EXTENDS Naturals, Sequences, FiniteSets

CONSTANTS MaxAttempts,  \* how often each call of the pages is sent at most, in the
                        \* order the calls are made: 10 in the code
          Tabs,         \* bound: calls that may be in flight together
          Earlier,      \* a link, and a session, from before
          None

Calls == DOMAIN MaxAttempts
Requests == UNION {{<<c, a>> : a \in 1..MaxAttempts[c]} : c \in Calls}

ASSUME SignInConstants ==
  /\ MaxAttempts \in Seq(Nat \ {0}) /\ Tabs \in Nat \ {0}
  /\ Earlier \notin Requests /\ None \notin Requests \cup {Earlier}

\* A request issues at most one link or opens at most one session, which is
\* named after it.
Names == Requests \cup {Earlier}
Kinds == {"signup", "login", "verify", "logout", "me", "onboarding"}
Answers == {"sent", "link", "identity", "signed_out", "invalid_link", "unauthenticated",
            "internal"}

VARIABLES account,    \* there is a user with the address
          onboarded,  \* that user has finished onboarding
          links,      \* login_tokens
          sessions,   \* sessions; "ended" is revoked or expired
          jar,        \* the session the browser's cookie belongs to
          call,       \* [Calls -> what the browser knows of the call]
          req         \* [Requests -> where the server is with it]

rows == <<account, onboarded, links, sessions>>
vars == <<rows, jar, call, req>>

TypeOK ==
  /\ account \in BOOLEAN /\ onboarded \in BOOLEAN
  /\ links \in [Names -> {"none", "issued", "used", "expired"}]
  /\ sessions \in [Names -> {"none", "live", "ended"}]
  /\ jar \in Names \cup {None}
  /\ call \in [Calls -> [kind : Kinds \cup {"none"}, link : Names \cup {None},
                         attempt : Nat,
                         outcome : Answers \cup {"open", "network"}]]
  /\ req \in [Requests -> [pc : {"none", "sent", "insert", "write", "done"},
                           cookie : Names \cup {None},
                           late : BOOLEAN,  \* sent after its link had opened a session
                           answer : Answers \cup {"none"}]]

Init ==
  /\ account \in BOOLEAN /\ onboarded = FALSE
  /\ links = [l \in Names |-> IF l = Earlier /\ account THEN "issued" ELSE "none"]
  /\ jar \in IF account THEN {None, Earlier} ELSE {None}
  /\ sessions = [s \in Names |-> IF s = jar THEN "live" ELSE "none"]
  /\ call = [c \in Calls |-> [kind |-> "none", link |-> None, attempt |-> 0,
                              outcome |-> "open"]]
  /\ req = [r \in Requests |-> [pc |-> "none", cookie |-> None, late |-> FALSE,
                                answer |-> "none"]]

Kind(r) == call[r[1]].kind
Link(r) == call[r[1]].link
OpenedBy(l) == {r \in Requests : Link(r) = l /\ sessions[r] # "none"}

-----------------------------------------------------------------------------
(* The browser.                                                              *)

\* The cookie is read from the jar when the request goes out, on every attempt.
\* The handlers of the other calls do not look at it.
Sent(k, l) == [pc |-> "sent",
               cookie |-> IF k \in {"logout", "me", "onboarding"} THEN jar ELSE None,
               late |-> l # None /\ OpenedBy(l) # {},
               answer |-> "none"]

Waiting(c) == call[c].kind # "none" /\ call[c].outcome = "open"

\* The user has the links that an answer showed.
Inbox == {l \in Names : IF l = Earlier THEN account
                        ELSE call[l[1]].outcome = "link" /\ call[l[1]].attempt = l[2]}

Open(c) ==
  /\ call[c].kind = "none" /\ \A d \in 1..(c - 1) : call[d].kind # "none"
  /\ Cardinality({d \in Calls : Waiting(d)}) < Tabs
  /\ \E k \in Kinds, l \in Inbox \cup {None} :
       /\ (k = "verify") <=> (l # None)
       /\ call' = [call EXCEPT ![c] = [kind |-> k, link |-> l, attempt |-> 1,
                                       outcome |-> "open"]]
       /\ req' = [req EXCEPT ![<<c, 1>>] = Sent(k, l)]
  /\ UNCHANGED <<rows, jar>>

\* No answer, or a gateway's 502, 503 or 504: the loop waits and sends again.
Resend(c) ==
  /\ Waiting(c) /\ call[c].attempt < MaxAttempts[c]
  /\ call' = [call EXCEPT ![c].attempt = @ + 1]
  /\ req' = [req EXCEPT ![<<c, call[c].attempt>>].answer = "none",
                        ![<<c, call[c].attempt + 1>>] = Sent(call[c].kind, call[c].link)]
  /\ UNCHANGED <<rows, jar>>

\* Mutant: one attempt is counted too many.
GiveUp_OneLate(c) ==
  /\ Waiting(c) /\ call[c].attempt = MaxAttempts[c] + 1
  /\ call' = [call EXCEPT ![c].outcome = "network"]
  /\ UNCHANGED <<rows, jar, req>>
GiveUp(c) ==
  /\ Waiting(c) /\ call[c].attempt = MaxAttempts[c]
  /\ call' = [call EXCEPT ![c].outcome = "network"]
  /\ UNCHANGED <<rows, jar, req>>

\* The answer to the latest attempt arrives; an earlier one's is not heard.
Answered(c) ==
  LET r == <<c, call[c].attempt>> IN
  /\ Waiting(c) /\ req[r].pc = "done"
  /\ call' = [call EXCEPT ![c].outcome = req[r].answer]
  /\ jar' = IF req[r].answer = "signed_out" THEN None
            ELSE IF Kind(r) = "verify" /\ req[r].answer = "identity" THEN r
            ELSE jar
  /\ UNCHANGED <<rows, req>>

-----------------------------------------------------------------------------
(* The handlers.                                                             *)

At(r, k, pc) == Kind(r) = k /\ req[r].pc = pc
Goes(r, pc) == req' = [req EXCEPT ![r].pc = pc]
Heard(r) == Waiting(r[1]) /\ call[r[1]].attempt = r[2]
Replies(r, answer) ==
  req' = [req EXCEPT ![r].pc = "done", ![r].answer = IF Heard(r) THEN answer ELSE "none"]
Serves == UNCHANGED <<jar, call>>

SignUpReads(r) ==
  /\ At(r, "signup", "sent")
  /\ Goes(r, IF account THEN "write" ELSE "insert")
  /\ UNCHANGED rows /\ Serves

\* The insert waits for an uncommitted one of the same address, so that it and
\* the commit are one step; the unique index refuses the second.
SignUpInserts(r) ==
  /\ At(r, "signup", "insert")
  /\ \/ /\ account
        /\ Replies(r, "internal")
        /\ UNCHANGED rows
     \/ /\ ~account
        /\ account' = TRUE
        /\ links' = [links EXCEPT ![r] = "issued"]
        /\ Replies(r, "link")
        /\ UNCHANGED <<onboarded, sessions>>
  /\ Serves

\* Mutant: an answer of its own for an unknown address.
LogInReads_TellsApart(r) ==
  /\ At(r, "login", "sent")
  /\ IF account THEN Goes(r, "write") ELSE Replies(r, "unknown_address")
  /\ UNCHANGED rows /\ Serves
LogInReads(r) ==
  /\ At(r, "login", "sent")
  /\ IF account THEN Goes(r, "write") ELSE Replies(r, "sent")
  /\ UNCHANGED rows /\ Serves

IssuesLink(r) ==
  /\ At(r, "signup", "write") \/ At(r, "login", "write")
  /\ links' = [links EXCEPT ![r] = "issued"]
  /\ Replies(r, "link")
  /\ UNCHANGED <<account, onboarded, sessions>> /\ Serves

\* Mutant: consumed_at is not looked at.
Fresh_Unexpired(l) == links[l] \in {"issued", "used"}
Fresh(l) == links[l] = "issued"

\* Time passes unseen: a link or session whose time is up is marked so when it
\* is next looked at.
VerifyReads(r) ==
  /\ At(r, "verify", "sent")
  /\ \/ Fresh(Link(r)) /\ Goes(r, "write") /\ UNCHANGED links
     \/ ~Fresh(Link(r)) /\ Replies(r, "invalid_link") /\ UNCHANGED links
     \/ /\ Fresh(Link(r)) /\ Replies(r, "invalid_link")
        /\ links' = [links EXCEPT ![Link(r)] = "expired"]
  /\ UNCHANGED <<account, onboarded, sessions>> /\ Serves

VerifyCommits(r) ==
  /\ At(r, "verify", "write")
  /\ links' = [links EXCEPT ![Link(r)] = "used"]
  /\ sessions' = [sessions EXCEPT ![r] = "live"]
  /\ Replies(r, "identity")
  /\ UNCHANGED <<account, onboarded>> /\ Serves

Live(cookie) == cookie # None /\ sessions[cookie] = "live"

\* Mutant: signing out only deletes the cookie.
LogOutReads_CookieOnly(r) ==
  /\ At(r, "logout", "sent")
  /\ Replies(r, "signed_out")
  /\ UNCHANGED rows /\ Serves
LogOutReads(r) ==
  /\ At(r, "logout", "sent")
  /\ IF Live(req[r].cookie) THEN Goes(r, "write") ELSE Replies(r, "signed_out")
  /\ UNCHANGED rows /\ Serves

\* Mutant: every session of the user is revoked.
LogOutCommits_Everywhere(r) ==
  /\ At(r, "logout", "write")
  /\ sessions' = [s \in Names |-> IF sessions[s] = "live" THEN "ended" ELSE sessions[s]]
  /\ Replies(r, "signed_out")
  /\ UNCHANGED <<account, onboarded, links>> /\ Serves
LogOutCommits(r) ==
  /\ At(r, "logout", "write")
  /\ sessions' = [sessions EXCEPT ![req[r].cookie] = "ended"]
  /\ Replies(r, "signed_out")
  /\ UNCHANGED <<account, onboarded, links>> /\ Serves

\* current_user, which me and onboarding begin with.
CurrentUser(r, Admitted) ==
  /\ \/ Live(req[r].cookie) /\ Admitted /\ UNCHANGED sessions
     \/ ~Live(req[r].cookie) /\ Replies(r, "unauthenticated") /\ UNCHANGED sessions
     \/ /\ Live(req[r].cookie) /\ Replies(r, "unauthenticated")
        /\ sessions' = [sessions EXCEPT ![req[r].cookie] = "ended"]
  /\ UNCHANGED <<account, onboarded, links>> /\ Serves

Me(r) == At(r, "me", "sent") /\ CurrentUser(r, Replies(r, "identity"))
OnboardingReads(r) == At(r, "onboarding", "sent") /\ CurrentUser(r, Goes(r, "write"))

OnboardingCommits(r) ==
  /\ At(r, "onboarding", "write")
  /\ onboarded' = TRUE
  /\ Replies(r, "identity")
  /\ UNCHANGED <<account, links, sessions>> /\ Serves

Serve(r) ==
  \/ SignUpReads(r) \/ SignUpInserts(r) \/ LogInReads(r) \/ IssuesLink(r)
  \/ VerifyReads(r) \/ VerifyCommits(r) \/ LogOutReads(r) \/ LogOutCommits(r)
  \/ Me(r) \/ OnboardingReads(r) \/ OnboardingCommits(r)

Next ==
  \/ \E c \in Calls : Open(c) \/ Resend(c) \/ GiveUp(c) \/ Answered(c)
  \/ \E r \in Requests : Serve(r)

\* A fetch ends, at the latest by a timeout of the gateway, and timers fire.
\* Nothing is owed by the server: it may sleep, restart or be unreachable.
Fairness == \A c \in Calls : WF_vars(Resend(c) \/ GiveUp(c) \/ Answered(c))

Spec == Init /\ [][Next]_vars /\ Fairness
-----------------------------------------------------------------------------

\* A link is used exactly if a session was opened with it, and a request that
\* went out when its link had already opened one opens no other: only requests
\* that overlap can share a link, the repetitions of one call among them.
UsedLinkOpensNothing ==
  /\ \A l \in Names : links[l] = "used" <=> OpenedBy(l) # {}
  /\ \A r \in Requests : Kind(r) = "verify" /\ req[r].late => sessions[r] = "none"

\* "A single-use sign-in link": it opens one session, whoever follows it how often.
LinkIsSingleUse == \A l \in Names : Cardinality(OpenedBy(l)) <= 1

\* The browser has the cookie that the answer to a sign-in brought.
SignedInBy(d) ==
  /\ call[d].kind = "verify" /\ call[d].outcome = "identity"
  /\ jar = <<d, call[d].attempt>>

\* A session lives until a request that carries its cookie signs it out or finds
\* it out of date; not on account of r.
EndedOnlyBesides(r, s) ==
  sessions[s] = "live" \/ \E q \in Requests \ {r} : req[q].cookie = s /\ req[q].pc = "done"

\* What an answer told a page stays true however the calls of the tabs overlap.
\* Who is told to sign in has sent no cookie of a live session, and if one is in
\* the jar by now, another tab has signed in since.  Who is told that the link is
\* no longer valid cannot use it again.  Who signed out has ended the session
\* whose cookie was sent, and that cookie is gone.  Who is told who they are has a
\* session that only another request with its cookie can have ended; if it was a
\* link that signed them in, it is used, and if they finished onboarding, that is
\* stored.  And the cookie in the jar is of a session that was opened: nobody is
\* signed in by an answer whose transaction did not commit.
AnswersStayTrue ==
  /\ jar # None => sessions[jar] # "none"
  /\ \A c \in Calls :
       LET r == <<c, call[c].attempt>>  told == call[c].outcome IN
         /\ told = "unauthenticated" =>
              /\ ~Live(req[r].cookie)
              /\ Live(jar) => \E d \in Calls \ {c} : SignedInBy(d)
         /\ told = "invalid_link" => links[call[c].link] # "issued"
         /\ told = "signed_out" =>
              ~Live(req[r].cookie) /\ (req[r].cookie # None => jar # req[r].cookie)
         /\ told = "identity" /\ call[c].kind = "verify" =>
              EndedOnlyBesides(r, r) /\ links[call[c].link] = "used"
         /\ told = "identity" /\ call[c].kind # "verify" =>
              req[r].cookie # None /\ EndedOnlyBesides(r, req[r].cookie)
         /\ told = "identity" /\ call[c].kind = "onboarding" => onboarded

\* Every call of a page comes to an end, whatever the network does: with an
\* answer, or with the message that the server cannot be reached.
CallsSettle == \A c \in Calls : call[c].kind # "none" ~> ~Waiting(c)
=============================================================================
