----------------------------- MODULE SignInProofs -----------------------------
(***************************************************************************)
(* What TLAPS proves of SignIn for any number of calls, of attempts at each *)
(* and of tabs: what a link opens, and that what a page concluded from an   *)
(* answer stays true.                                                       *)
(***************************************************************************)
EXTENDS SignIn, TLAPS

-----------------------------------------------------------------------------
(* The inductive invariant.                                                    *)

\* The attempt whose answer counts.
Last(c) == <<c, call[c].attempt>>

CallsInOrder ==
  \A c \in Calls :
    /\ call[c].kind = "none" => call[c].attempt = 0 /\ call[c].outcome = "open"
    /\ call[c].kind # "none" => call[c].attempt \in 1..MaxAttempts[c]
    /\ (call[c].kind = "verify") <=> (call[c].link # None)
    /\ call[c].outcome \in Answers => req[Last(c)].answer = call[c].outcome

\* The server sees no attempt before it is made, and only the last one of a
\* call has an answer that is kept.
RequestsInOrder ==
  \A r \in Requests :
    /\ req[r].pc # "none" => r[2] <= call[r[1]].attempt
    /\ req[r].answer # "none" => req[r].pc = "done" /\ r[2] = call[r[1]].attempt
    /\ req[r].pc = "done" /\ Heard(r) => req[r].answer # "none"

\* A request issues its link or opens its session when it ends, so that neither
\* name is given away twice, and the user has no link that is still to come.
NamesGivenOnce ==
  /\ \A r \in Requests : links[r] # "none" \/ sessions[r] # "none" => req[r].pc = "done"
  /\ \A c \in Calls : call[c].link \in Requests => req[call[c].link].pc = "done"

\* A name that was ever in the jar is of a session that was opened and of a call
\* whose answer arrived.
WasInJar(n) ==
  n # None => /\ sessions[n] # "none"
              /\ n \in Requests => call[n[1]].outcome # "open"
CookiesOpened == WasInJar(jar) /\ \A r \in Requests : WasInJar(req[r].cookie)

\* What an answer says holds while it is on its way, and not only when it was given.
AnswersHold ==
  \A r \in Requests :
    /\ req[r].answer \in {"unauthenticated", "signed_out"} =>
         req[r].cookie = None \/ sessions[req[r].cookie] = "ended"
    /\ req[r].answer = "invalid_link" => Link(r) \in Names /\ links[Link(r)] # "issued"
    /\ req[r].answer = "identity" /\ Kind(r) = "verify" => sessions[r] # "none"

SignedOutOfJar ==
  \A c \in Calls : call[c].outcome = "signed_out" /\ req[Last(c)].cookie # None =>
                     jar # req[Last(c)].cookie

LinksOpen ==
  /\ \A l \in Names : links[l] = "used" <=> OpenedBy(l) # {}
  /\ \A r \in Requests :
       req[r].late => /\ req[r].pc \in {"sent", "done"} /\ sessions[r] = "none"
                      /\ Link(r) \in Names /\ links[Link(r)] = "used"

SignInInv ==
  /\ TypeOK
  /\ CallsInOrder
  /\ RequestsInOrder
  /\ NamesGivenOnce
  /\ CookiesOpened
  /\ AnswersHold
  /\ SignedOutOfJar
  /\ LinksOpen

-----------------------------------------------------------------------------
(* Requests and what a step does to them.                                      *)

LEMMA RequestFields ==
  \A r \in Requests : r[1] \in Calls /\ r[2] \in 1..MaxAttempts[r[1]] /\ r = <<r[1], r[2]>>
BY DEF Requests

LEMMA RequestPairs == \A c \in Calls : \A a \in 1..MaxAttempts[c] : <<c, a>> \in Requests
BY DEF Requests

LEMMA AttemptLimits == \A c \in Calls : MaxAttempts[c] \in Nat \ {0}
BY SignInConstants DEF Calls

LEMMA OtherRequests ==
  \A r, q \in Requests : r[1] = q[1] /\ r[2] = q[2] => r = q
BY RequestFields

Cookies == Names \cup {None}
Rows == [pc : {"none", "sent", "insert", "write", "done"}, cookie : Cookies,
         late : BOOLEAN, answer : Answers \cup {"none"}]

LEMMA GoesEffect ==
  ASSUME TypeOK, NEW r \in Requests, NEW pc \in {"insert", "write"}, Goes(r, pc)
  PROVE  /\ req' \in [Requests -> Rows]
         /\ \A q \in Requests : q # r => req'[q] = req[q]
         /\ req'[r].pc = pc /\ req'[r].cookie = req[r].cookie
         /\ req'[r].late = req[r].late /\ req'[r].answer = req[r].answer
<1>1. req \in [Requests -> Rows]
  BY DEF TypeOK, Rows, Cookies
<1> DEFINE new == [req[r] EXCEPT !.pc = pc]
<1>2. /\ new \in Rows /\ new.pc = pc /\ new.cookie = req[r].cookie
      /\ new.late = req[r].late /\ new.answer = req[r].answer
  BY <1>1 DEF Rows
<1>3. req' = [req EXCEPT ![r] = new]
  BY DEF Goes
<1> QED BY <1>1, <1>2, <1>3

LEMMA RepliesEffect ==
  ASSUME TypeOK, NEW r \in Requests, NEW a \in Answers, Replies(r, a)
  PROVE  /\ req' \in [Requests -> Rows]
         /\ \A q \in Requests : q # r => req'[q] = req[q]
         /\ req'[r].pc = "done" /\ req'[r].cookie = req[r].cookie
         /\ req'[r].late = req[r].late
         /\ req'[r].answer = IF Heard(r) THEN a ELSE "none"
<1>1. req \in [Requests -> Rows]
  BY DEF TypeOK, Rows, Cookies
<1> DEFINE b == IF Heard(r) THEN a ELSE "none"
           new == [req[r] EXCEPT !.pc = "done", !.answer = b]
<1>2. b \in Answers \cup {"none"}
  OBVIOUS
<1>3. req' = [req EXCEPT ![r] = new]
  BY DEF Replies
<1> HIDE DEF b
<1>4. /\ new \in Rows /\ new.pc = "done" /\ new.cookie = req[r].cookie
      /\ new.late = req[r].late /\ new.answer = b
  BY <1>1, <1>2 DEF Rows
<1>5. /\ req' \in [Requests -> Rows]
      /\ \A q \in Requests : q # r => req'[q] = req[q]
      /\ req'[r] = new
  BY <1>1, <1>3, <1>4
<1> QED BY <1>4, <1>5 DEF b

\* What the server does to a request and to the links and sessions, one kind of
\* step each.  Moves: it has read and will write.
Moves(r) ==
  /\ req[r].pc = "sent" /\ \E pc \in {"insert", "write"} : Goes(r, pc)
  /\ Kind(r) = "verify" => links[Link(r)] = "issued"
  /\ UNCHANGED <<links, sessions, jar, call>>
Unfinished(r) == req[r].pc \in {"sent", "insert", "write"}
Issues(r) ==
  /\ Unfinished(r) /\ Replies(r, "link") /\ Kind(r) # "verify"
  /\ links' = [links EXCEPT ![r] = "issued"]
  /\ UNCHANGED <<sessions, jar, call>>
Refuses(r) ==
  /\ Unfinished(r) /\ Replies(r, "invalid_link") /\ Kind(r) = "verify"
  /\ \/ links[Link(r)] # "issued" /\ UNCHANGED links
     \/ links[Link(r)] = "issued" /\ links' = [links EXCEPT ![Link(r)] = "expired"]
  /\ UNCHANGED <<sessions, jar, call>>
OpensSession(r) ==
  /\ req[r].pc = "write" /\ Replies(r, "identity") /\ Kind(r) = "verify"
  /\ links' = [links EXCEPT ![Link(r)] = "used"]
  /\ sessions' = [sessions EXCEPT ![r] = "live"]
  /\ UNCHANGED <<jar, call>>
SignsOut(r) ==
  /\ Unfinished(r)
  /\ \E a \in {"unauthenticated", "signed_out"} : Replies(r, a)
  /\ \/ ~Live(req[r].cookie) /\ UNCHANGED sessions
     \/ sessions' = [sessions EXCEPT ![req[r].cookie] = "ended"]
  /\ UNCHANGED <<links, jar, call>>
OnlyReplies(r) ==
  /\ Unfinished(r)
  /\ \E a \in Answers \ {"unauthenticated", "signed_out", "invalid_link"} : Replies(r, a)
  /\ Kind(r) # "verify"
  /\ UNCHANGED <<links, sessions, jar, call>>

LEMMA ServeIsOne ==
  ASSUME NEW r \in Requests, Serve(r)
  PROVE  /\ \/ Moves(r) \/ Issues(r) \/ Refuses(r)
            \/ OpensSession(r) \/ SignsOut(r) \/ OnlyReplies(r)
         /\ account' \in {account, TRUE} /\ onboarded' \in {onboarded, TRUE}
<1> USE DEF At, Serves, rows, Unfinished
<1>1. CASE SignUpReads(r)
  BY <1>1 DEF SignUpReads, Moves
<1>2. CASE SignUpInserts(r)
  BY <1>2 DEF SignUpInserts, OnlyReplies, Issues, Answers
<1>3. CASE LogInReads(r)
  BY <1>3 DEF LogInReads, Moves, OnlyReplies, Answers
<1>4. CASE IssuesLink(r)
  BY <1>4 DEF IssuesLink, Issues
<1>5. CASE VerifyReads(r)
  BY <1>5 DEF VerifyReads, Fresh, Moves, Refuses
<1>6. CASE VerifyCommits(r)
  BY <1>6 DEF VerifyCommits, OpensSession
<1>7. CASE LogOutReads(r)
  BY <1>7 DEF LogOutReads, Moves, SignsOut
<1>8. CASE LogOutCommits(r)
  BY <1>8 DEF LogOutCommits, SignsOut
<1>9. CASE Me(r)
  BY <1>9 DEF Me, CurrentUser, OnlyReplies, SignsOut, Answers
<1>10. CASE OnboardingReads(r)
  BY <1>10 DEF OnboardingReads, CurrentUser, Moves, SignsOut
<1>11. CASE OnboardingCommits(r)
  BY <1>11 DEF OnboardingCommits, OnlyReplies, Answers
<1> QED
  BY <1>1, <1>2, <1>3, <1>4, <1>5, <1>6, <1>7, <1>8, <1>9, <1>10, <1>11 DEF Serve

LEMMA MovesFacts ==
  ASSUME TypeOK, NEW r \in Requests, Moves(r)
  PROVE  /\ req' \in [Requests -> Rows] /\ Unfinished(r)
         /\ \A q \in Requests : q # r => req'[q] = req[q]
         /\ req'[r].pc \in {"insert", "write"} /\ req'[r].cookie = req[r].cookie
         /\ req'[r].late = req[r].late /\ req'[r].answer = req[r].answer
BY GoesEffect DEF Moves, Unfinished

EndsWith(r, a) ==
  /\ req' \in [Requests -> Rows] /\ Unfinished(r)
  /\ \A q \in Requests : q # r => req'[q] = req[q]
  /\ req'[r].pc = "done" /\ req'[r].cookie = req[r].cookie
  /\ req'[r].late = req[r].late
  /\ req'[r].answer = IF Heard(r) THEN a ELSE "none"

LEMMA RepliesFacts ==
  ASSUME TypeOK, NEW r \in Requests
  PROVE  /\ Issues(r) => EndsWith(r, "link")
         /\ Refuses(r) => EndsWith(r, "invalid_link")
         /\ OpensSession(r) => EndsWith(r, "identity")
         /\ SignsOut(r) => \E a \in {"unauthenticated", "signed_out"} : EndsWith(r, a)
         /\ OnlyReplies(r) =>
              \E a \in Answers \ {"unauthenticated", "signed_out", "invalid_link"} :
                EndsWith(r, a)
<1>1. \A a \in Answers : Unfinished(r) /\ Replies(r, a) => EndsWith(r, a)
  BY RepliesEffect DEF EndsWith
<1>2. {"link", "invalid_link", "identity", "unauthenticated", "signed_out"} \subseteq Answers
  BY DEF Answers
<1>3. Issues(r) => EndsWith(r, "link")
  BY <1>1, <1>2 DEF Issues
<1>4. Refuses(r) => EndsWith(r, "invalid_link")
  BY <1>1, <1>2 DEF Refuses
<1>5. OpensSession(r) => EndsWith(r, "identity")
  BY <1>1, <1>2 DEF OpensSession, Unfinished
<1>6. SignsOut(r) => \E a \in {"unauthenticated", "signed_out"} : EndsWith(r, a)
  BY <1>1, <1>2 DEF SignsOut
<1>7. OnlyReplies(r) =>
        \E a \in Answers \ {"unauthenticated", "signed_out", "invalid_link"} : EndsWith(r, a)
  BY <1>1 DEF OnlyReplies
<1> QED BY <1>3, <1>4, <1>5, <1>6, <1>7

\* A session that was opened stays so and one that ended stays ended; a link that
\* was shown is not issued again, and a used one stays used.
RowsLast ==
  \A n \in Names :
    /\ sessions[n] # "none" => sessions'[n] # "none"
    /\ sessions[n] = "ended" => sessions'[n] = "ended"
    /\ links[n] = "used" => links'[n] = "used"
    /\ links[n] \notin {"none", "issued"} => links'[n] \notin {"none", "issued"}

LEMMA NamesFacts ==
  /\ Requests \subseteq Names /\ Earlier \in Names /\ None \notin Names
  /\ Earlier \notin Requests
BY SignInConstants DEF Names

LEMMA ServeFacts ==
  ASSUME SignInInv, NEW r \in Requests, Serve(r)
  PROVE  /\ jar' = jar /\ call' = call
         /\ req' \in [Requests -> Rows] /\ Unfinished(r)
         /\ \A q \in Requests : q # r => req'[q] = req[q]
         /\ req'[r].pc \in {"insert", "write", "done"} /\ req'[r].cookie = req[r].cookie
         /\ req'[r].late = req[r].late
         /\ req'[r].pc # "done" => req'[r].answer = req[r].answer
         /\ req'[r].pc = "done" => (req'[r].answer # "none" <=> Heard(r))
         /\ RowsLast
<1> USE DEF SignInInv
<1>t. req[r].pc # "done" => links[r] = "none" /\ sessions[r] = "none"
  BY DEF NamesGivenOnce
<1>1. CASE Moves(r)
  BY <1>1, MovesFacts DEF Moves, RowsLast
<1>2. CASE Issues(r)
  BY <1>2, <1>t, RepliesFacts, NamesFacts DEF Issues, RowsLast, EndsWith, TypeOK, Unfinished
<1>3. CASE Refuses(r)
  BY <1>3, RepliesFacts DEF Refuses, RowsLast, EndsWith, TypeOK
<1>4. CASE OpensSession(r)
  BY <1>4, <1>t, RepliesFacts, NamesFacts DEF OpensSession, RowsLast, EndsWith, TypeOK
<1>5. CASE SignsOut(r)
  BY <1>5, RepliesFacts DEF SignsOut, RowsLast, EndsWith, TypeOK
<1>6. CASE OnlyReplies(r)
  BY <1>6, RepliesFacts DEF OnlyReplies, RowsLast, EndsWith, Answers
<1> QED BY <1>1, <1>2, <1>3, <1>4, <1>5, <1>6, ServeIsOne

LEMMA ServeTypes ==
  ASSUME SignInInv, NEW r \in Requests, Serve(r)
  PROVE  TypeOK'
<1> USE DEF SignInInv
<1>1. links' \in [Names -> {"none", "issued", "used", "expired"}]
  <2>1. links \in [Names -> {"none", "issued", "used", "expired"}]
    BY DEF TypeOK
  <2>2. CASE Issues(r)
    BY <2>1, <2>2 DEF Issues
  <2>3. CASE Refuses(r)
    BY <2>1, <2>3 DEF Refuses
  <2>4. CASE OpensSession(r)
    BY <2>1, <2>4 DEF OpensSession
  <2>5. CASE Moves(r) \/ SignsOut(r) \/ OnlyReplies(r)
    BY <2>1, <2>5 DEF Moves, SignsOut, OnlyReplies
  <2> QED BY <2>2, <2>3, <2>4, <2>5, ServeIsOne
<1>2. sessions' \in [Names -> {"none", "live", "ended"}]
  BY ServeIsOne DEF TypeOK, Moves, Issues, Refuses, OpensSession, SignsOut, OnlyReplies
<1>3. jar' = jar /\ call' = call /\ req' \in [Requests -> Rows]
  BY ServeFacts
<1>4. account' \in BOOLEAN /\ onboarded' \in BOOLEAN
  BY ServeIsOne DEF TypeOK
<1> QED BY <1>1, <1>2, <1>3, <1>4 DEF TypeOK, Rows, Cookies

\* What the server does keeps the order of calls, requests, names and cookies.
LEMMA ServeKeepsOrder ==
  ASSUME SignInInv, NEW r \in Requests, Serve(r)
  PROVE  (CallsInOrder /\ RequestsInOrder /\ NamesGivenOnce
          /\ CookiesOpened /\ SignedOutOfJar)'
<1> USE DEF SignInInv
<1>1. /\ jar' = jar /\ call' = call /\ Unfinished(r)
      /\ \A q \in Requests : q # r => req'[q] = req[q]
      /\ req'[r].pc \in {"insert", "write", "done"} /\ req'[r].cookie = req[r].cookie
      /\ req'[r].pc # "done" => req'[r].answer = req[r].answer
      /\ req'[r].pc = "done" => (req'[r].answer # "none" <=> Heard(r))
      /\ RowsLast
  BY ServeFacts
<1>2. \A c \in Calls : call[c].outcome \in Answers =>
        Last(c) \in Requests /\ req[Last(c)].answer = call[c].outcome
                            /\ req[Last(c)].pc = "done"
  <2> SUFFICES ASSUME NEW c \in Calls, call[c].outcome \in Answers
               PROVE  Last(c) \in Requests /\ req[Last(c)].answer = call[c].outcome
                                          /\ req[Last(c)].pc = "done"
    OBVIOUS
  <2>1. call[c].attempt \in 1..MaxAttempts[c] /\ req[Last(c)].answer = call[c].outcome
    BY DEF CallsInOrder, Answers
  <2>2. Last(c) \in Requests
    BY <2>1, RequestPairs DEF Last
  <2>3. req[Last(c)].answer # "none"
    BY <2>1 DEF Answers
  <2> QED BY <2>1, <2>2, <2>3 DEF RequestsInOrder
<1>3. CallsInOrder'
  BY <1>1, <1>2 DEF CallsInOrder, Last, Unfinished
<1>4. RequestsInOrder'
  BY <1>1 DEF RequestsInOrder, Heard, Waiting, Unfinished
<1>5. SignedOutOfJar'
  BY <1>1, <1>2 DEF SignedOutOfJar, Last, Answers
<1>6. CookiesOpened'
  <2>1. \A n : WasInJar(n) /\ n \in Cookies => WasInJar(n)'
    BY <1>1 DEF WasInJar, Cookies, RowsLast
  <2>2. \A q \in Requests : req'[q].cookie = req[q].cookie /\ req[q].cookie \in Cookies
    BY <1>1 DEF TypeOK, Cookies
  <2>3. jar \in Cookies
    BY DEF TypeOK, Cookies
  <2> QED BY <1>1, <2>1, <2>2, <2>3 DEF CookiesOpened, WasInJar
<1>7. NamesGivenOnce'
  <2>1. \A c \in Calls : call'[c].link \in Requests => req'[call'[c].link].pc = "done"
    BY <1>1 DEF NamesGivenOnce, Unfinished
  <2>2. r[1] \in Calls
    BY RequestFields
  <2>3. \A q \in Requests : links'[q] # "none" => links[q] # "none" \/ req'[q].pc = "done"
    <3>1. CASE Issues(r)
      BY <3>1, RepliesFacts, NamesFacts DEF Issues, EndsWith, TypeOK
    <3>2. CASE Refuses(r)
      BY <3>2, <1>1, NamesFacts DEF Refuses, TypeOK
    <3>3. CASE OpensSession(r)
      BY <3>3, <1>1, <2>1, <2>2, NamesFacts DEF OpensSession, TypeOK, Link
    <3>4. CASE Moves(r) \/ SignsOut(r) \/ OnlyReplies(r)
      BY <3>4 DEF Moves, SignsOut, OnlyReplies
    <3> QED BY <3>1, <3>2, <3>3, <3>4, ServeIsOne
  <2>4. \A q \in Requests : sessions'[q] # "none" => sessions[q] # "none" \/ req'[q].pc = "done"
    <3>1. CASE OpensSession(r)
      BY ZenonT(30), <3>1, RepliesFacts, NamesFacts DEF OpensSession, EndsWith, TypeOK
    <3>2. CASE SignsOut(r)
      <4>1. CASE ~Live(req[r].cookie) /\ UNCHANGED sessions
        BY <4>1
      <4>2. CASE sessions' = [sessions EXCEPT ![req[r].cookie] = "ended"]
        BY <4>2, <1>1, NamesFacts DEF TypeOK, CookiesOpened, WasInJar
      <4> QED BY <3>2, <4>1, <4>2 DEF SignsOut
    <3>3. CASE Moves(r) \/ Issues(r) \/ Refuses(r) \/ OnlyReplies(r)
      BY <3>3 DEF Moves, Issues, Refuses, OnlyReplies
    <3> QED BY <3>1, <3>2, <3>3, ServeIsOne
  <2>5. \A q \in Requests : req[q].pc = "done" => req'[q].pc = "done"
    BY <1>1 DEF Unfinished
  <2> QED BY <2>1, <2>3, <2>4, <2>5 DEF NamesGivenOnce
<1> QED BY <1>3, <1>4, <1>5, <1>6, <1>7

LEMMA ServeKeepsAnswers ==
  ASSUME SignInInv, NEW r \in Requests, Serve(r)
  PROVE  AnswersHold'
<1> USE DEF SignInInv
<1>1. /\ call' = call /\ Unfinished(r) /\ RowsLast
      /\ \A q \in Requests : q # r => req'[q] = req[q]
      /\ req'[r].pc \in {"insert", "write", "done"} /\ req'[r].cookie = req[r].cookie
      /\ req'[r].pc # "done" => req'[r].answer = req[r].answer
      /\ r[1] \in Calls
  BY ServeFacts, RequestFields
<1>2. req[r].answer = "none"
  BY <1>1 DEF RequestsInOrder, Unfinished
<1>3. \A q \in Requests : Link(q)' = Link(q) /\ Kind(q)' = Kind(q)
  BY <1>1 DEF Link, Kind
<1>4. \A l \in Names : links[l] # "issued" /\ (l \in Requests => req[l].pc = "done")
                       => links'[l] # "issued"
  BY <1>1, ServeIsOne DEF TypeOK, Moves, Issues, Refuses, OpensSession, SignsOut,
                          OnlyReplies, Unfinished
<1>5. \A q \in Requests : Link(q) \in Requests => req[Link(q)].pc = "done"
  BY RequestFields DEF NamesGivenOnce, Link
<1>6. ASSUME NEW q \in Requests, q # r
      PROVE  /\ req'[q].answer \in {"unauthenticated", "signed_out"} =>
                  req'[q].cookie = None \/ sessions'[req'[q].cookie] = "ended"
             /\ req'[q].answer = "invalid_link" =>
                  Link(q)' \in Names /\ links'[Link(q)'] # "issued"
             /\ req'[q].answer = "identity" /\ Kind(q)' = "verify" => sessions'[q] # "none"
  <2>1. req'[q] = req[q] /\ req[q].cookie \in Cookies /\ q \in Names
    BY <1>1, <1>6, NamesFacts DEF TypeOK, Cookies
  <2> QED BY <1>1, <1>3, <1>4, <1>5, <2>1 DEF AnswersHold, RowsLast, Cookies
<1>7. /\ req'[r].answer \in {"unauthenticated", "signed_out"} =>
           req'[r].cookie = None \/ sessions'[req'[r].cookie] = "ended"
      /\ req'[r].answer = "invalid_link" =>
           Link(r) \in Names /\ links'[Link(r)] # "issued"
      /\ req'[r].answer = "identity" /\ Kind(r) = "verify" => sessions'[r] # "none"
  <2>1. CASE Moves(r)
    BY <2>1, <1>2, MovesFacts
  <2>2. CASE Issues(r)
    BY <2>2, RepliesFacts DEF EndsWith
  <2>3. CASE Refuses(r)
    <3>1. Kind(r) = "verify" /\ Link(r) \in Cookies
      BY <2>3, <1>1 DEF Refuses, TypeOK, Link, Cookies
    <3>2. Link(r) \in Names
      BY <3>1, <1>1 DEF CallsInOrder, Kind, Link, Cookies
    <3>3. links'[Link(r)] # "issued"
      BY <2>3, <3>2 DEF Refuses, TypeOK
    <3> QED BY <2>3, <3>2, <3>3, RepliesFacts DEF EndsWith
  <2>4. CASE OpensSession(r)
    BY <2>4, RepliesFacts, NamesFacts DEF EndsWith, OpensSession, TypeOK
  <2>5. CASE SignsOut(r)
    <3>1. req[r].cookie \in Cookies /\ WasInJar(req[r].cookie)
      BY DEF TypeOK, Cookies, CookiesOpened
    <3>2. req[r].cookie = None \/ sessions'[req[r].cookie] = "ended"
      BY <2>5, <3>1 DEF SignsOut, Live, WasInJar, TypeOK, Cookies
    <3> QED BY <2>5, <3>2, RepliesFacts DEF EndsWith
  <2>6. CASE OnlyReplies(r)
    BY <2>6, RepliesFacts DEF EndsWith, OnlyReplies
  <2> QED BY <2>1, <2>2, <2>3, <2>4, <2>5, <2>6, ServeIsOne
<1> QED BY <1>3, <1>6, <1>7 DEF AnswersHold

\* One session that a link opened is enough.
Opened(l) == \E q \in Requests : Link(q) = l /\ sessions[q] # "none"

LEMMA OpenedIsNotEmpty == \A l : OpenedBy(l) # {} <=> Opened(l)
BY DEF OpenedBy, Opened

LEMMA ServeKeepsLinks ==
  ASSUME SignInInv, NEW r \in Requests, Serve(r)
  PROVE  LinksOpen'
<1> USE DEF SignInInv
<1>1. /\ call' = call /\ Unfinished(r) /\ RowsLast
      /\ \A q \in Requests : q # r => req'[q] = req[q]
      /\ req'[r].pc \in {"insert", "write", "done"} /\ req'[r].late = req[r].late
      /\ r[1] \in Calls
  BY ServeFacts, RequestFields
<1>2. \A q \in Requests : Link(q)' = Link(q)
  BY <1>1 DEF Link
<1>3. links[r] = "none" /\ sessions[r] = "none"
  BY <1>1 DEF NamesGivenOnce, Unfinished
<1>4. \A l \in Names : links[l] = "used" <=> Opened(l)
  BY OpenedIsNotEmpty DEF LinksOpen
<1>5. CASE OpensSession(r)
  <2>1. Link(r) \in Names
    BY <1>1, <1>5 DEF OpensSession, TypeOK, CallsInOrder, Kind, Link
  <2>2. /\ \A l \in Names : links'[l] = IF l = Link(r) THEN "used" ELSE links[l]
        /\ \A q \in Requests : sessions'[q] = IF q = r THEN "live" ELSE sessions[q]
    BY <1>5, NamesFacts DEF OpensSession, TypeOK
  <2>3. \A l \in Names : links'[l] = "used" <=> Opened(l)'
    BY <1>2, <1>4, <2>1, <2>2 DEF Opened
  <2>4. ~req[r].late
    BY <1>5 DEF OpensSession, LinksOpen
  <2>5. ASSUME NEW q \in Requests, req'[q].late
        PROVE  /\ req'[q].pc \in {"sent", "done"} /\ sessions'[q] = "none"
               /\ Link(q)' \in Names /\ links'[Link(q)'] = "used"
    BY <1>1, <1>2, <2>2, <2>4, <2>5 DEF LinksOpen
  <2>6. \A l : (OpenedBy(l) # {})' <=> Opened(l)'
    BY DEF OpenedBy, Opened
  <2> QED BY <2>3, <2>5, <2>6 DEF LinksOpen
<1>6. CASE ~OpensSession(r)
  <2>1. \A l \in Names : links'[l] = "used" <=> links[l] = "used"
    <3>1. CASE Issues(r)
      BY <3>1, <1>3 DEF Issues, TypeOK
    <3>2. CASE Refuses(r)
      BY <3>2 DEF Refuses, TypeOK
    <3> QED BY <3>1, <3>2, <1>6, ServeIsOne DEF Moves, SignsOut, OnlyReplies
  <2>2. \A q \in Requests : sessions'[q] = "none" <=> sessions[q] = "none"
    <3>1. CASE SignsOut(r)
      <4>1. CASE ~Live(req[r].cookie) /\ UNCHANGED sessions
        BY <4>1
      <4>2. CASE sessions' = [sessions EXCEPT ![req[r].cookie] = "ended"]
        BY <4>2, NamesFacts DEF TypeOK, CookiesOpened, WasInJar
      <4> QED BY <3>1, <4>1, <4>2 DEF SignsOut
    <3> QED BY <3>1, <1>6, ServeIsOne DEF Moves, Issues, Refuses, OnlyReplies
  <2>3. \A l \in Names : links'[l] = "used" <=> Opened(l)'
    BY <1>2, <1>4, <2>1, <2>2 DEF Opened
  <2>4. req[r].late => req'[r].pc = "done"
    <3>1. SUFFICES ASSUME req[r].late PROVE ~Moves(r)
      BY <1>6, ServeIsOne, RepliesFacts DEF EndsWith
    <3>2. /\ req[r].pc = "sent" /\ Link(r) \in Names /\ links[Link(r)] = "used"
      BY <3>1, <1>1 DEF LinksOpen, Unfinished
    <3>3. Kind(r) = "verify"
      BY <3>2, <1>1, NamesFacts DEF CallsInOrder, Kind, Link
    <3> QED BY <3>2, <3>3 DEF Moves
  <2>5. ASSUME NEW q \in Requests, req'[q].late
        PROVE  /\ req'[q].pc \in {"sent", "done"} /\ sessions'[q] = "none"
               /\ Link(q)' \in Names /\ links'[Link(q)'] = "used"
    BY <1>1, <1>2, <2>1, <2>2, <2>4, <2>5 DEF LinksOpen
  <2>6. \A l : (OpenedBy(l) # {})' <=> Opened(l)'
    BY DEF OpenedBy, Opened
  <2> QED BY <2>3, <2>5, <2>6 DEF LinksOpen
<1> QED BY <1>5, <1>6

-----------------------------------------------------------------------------
(* What the browser does: an attempt is made, or a call comes to its end.      *)

CallRows == [kind : Kinds \cup {"none"}, link : Cookies, attempt : Nat,
             outcome : Answers \cup {"open", "network"}]

LEMMA TypedRows ==
  TypeOK <=> /\ account \in BOOLEAN /\ onboarded \in BOOLEAN
             /\ links \in [Names -> {"none", "issued", "used", "expired"}]
             /\ sessions \in [Names -> {"none", "live", "ended"}]
             /\ jar \in Cookies
             /\ call \in [Calls -> CallRows] /\ req \in [Requests -> Rows]
BY DEF TypeOK, CallRows, Rows, Cookies

\* The new attempt of call c, of the kind and with the link it has from then on.
Makes(c) ==
  LET new == <<c, call[c].attempt + 1>> IN
  /\ UNCHANGED <<links, sessions, jar>>
  /\ call' \in [Calls -> CallRows] /\ req' \in [Requests -> Rows]
  /\ \A d \in Calls : d # c => call'[d] = call[d]
  /\ call[c].outcome = "open" /\ call'[c].outcome = "open"
  /\ call'[c].kind # "none" /\ call'[c].attempt = call[c].attempt + 1
  /\ (call'[c].kind = "verify") <=> (call'[c].link # None)
  /\ call'[c].link \in Requests => req[call'[c].link].pc = "done"
  /\ \/ call'[c].link = call[c].link /\ call'[c].kind = call[c].kind
     \/ call[c].attempt = 0
  /\ new \in Requests /\ call[c].attempt + 1 \in 1..MaxAttempts[c]
  /\ req'[new] = Sent(call'[c].kind, call'[c].link)
  /\ \A q \in Requests : q[1] # c => req'[q] = req[q]
  /\ \A q \in Requests : q[1] = c /\ q # new =>
        /\ req'[q].pc = req[q].pc /\ req'[q].cookie = req[q].cookie
        /\ req'[q].late = req[q].late /\ req'[q].answer = "none"

LEMMA SentIsRow ==
  ASSUME TypeOK, NEW k \in Kinds, NEW l \in Cookies
  PROVE  /\ Sent(k, l) \in Rows
         /\ Sent(k, l).pc = "sent" /\ Sent(k, l).answer = "none"
         /\ Sent(k, l).cookie \in {jar, None}
         /\ Sent(k, l).late <=> l # None /\ OpenedBy(l) # {}
BY DEF Sent, Rows, TypeOK, Cookies

LEMMA OpenMakes ==
  ASSUME SignInInv, NEW c \in Calls, Open(c)
  PROVE  Makes(c)
<1> USE DEF SignInInv
<1>1. PICK k \in Kinds, l \in Inbox \cup {None} :
        /\ (k = "verify") <=> (l # None)
        /\ call' = [call EXCEPT ![c] = [kind |-> k, link |-> l, attempt |-> 1,
                                        outcome |-> "open"]]
        /\ req' = [req EXCEPT ![<<c, 1>>] = Sent(k, l)]
  BY DEF Open
<1> DEFINE opened == [kind |-> k, link |-> l, attempt |-> 1, outcome |-> "open"]
           new == <<c, 1>>
<1>2. call[c].kind = "none" /\ call[c].attempt = 0 /\ call[c].outcome = "open"
  BY DEF Open, CallsInOrder
<1>3. 1 \in 1..MaxAttempts[c] /\ new \in Requests /\ <<c, call[c].attempt + 1>> = new
  BY <1>2, AttemptLimits, RequestPairs
<1>4. l \in Cookies /\ opened \in CallRows
  BY DEF CallRows, Inbox, Cookies, Answers
<1>5. call \in [Calls -> CallRows] /\ req \in [Requests -> Rows]
  BY TypedRows
<1>6. Sent(k, l) \in Rows
  BY <1>4, SentIsRow
<1>7. call' = [call EXCEPT ![c] = opened] /\ req' = [req EXCEPT ![new] = Sent(k, l)]
  BY <1>1
<1>8. /\ opened.kind = k /\ opened.link = l /\ opened.attempt = 1
      /\ opened.outcome = "open"
  OBVIOUS
<1>9. k # "none"
  BY DEF Kinds
<1>10. l \in Requests => req[l].pc = "done"
  <2> SUFFICES ASSUME l \in Requests PROVE req[l].pc = "done"
    OBVIOUS
  <2>1. /\ call[l[1]].outcome = "link" /\ call[l[1]].attempt = l[2]
        /\ l[1] \in Calls /\ l = <<l[1], l[2]>>
    BY NamesFacts, RequestFields DEF Inbox
  <2>2. Last(l[1]) = l
    BY <2>1 DEF Last
  <2>3. req[l].answer = "link"
    BY <2>1, <2>2 DEF CallsInOrder, Answers
  <2> QED BY <2>3 DEF RequestsInOrder
<1>11. \A q \in Requests : q[1] = c => req[q].answer = "none"
  BY <1>2, RequestFields DEF RequestsInOrder
<1> HIDE DEF opened, new
<1>12. /\ call' \in [Calls -> CallRows] /\ call'[c] = opened
       /\ \A d \in Calls : d # c => call'[d] = call[d]
  BY <1>4, <1>5, <1>7
<1>13. /\ req' \in [Requests -> Rows] /\ req'[new] = Sent(k, l)
       /\ \A q \in Requests : q # new => req'[q] = req[q]
  BY <1>3, <1>5, <1>6, <1>7
<1>14. \A q \in Requests : q[1] # c => q # new
  BY DEF new
<1>15. UNCHANGED <<links, sessions, jar>>
  BY DEF Open, rows
<1> QED
  BY <1>1, <1>2, <1>3, <1>8, <1>9, <1>10, <1>11, <1>12, <1>13, <1>14, <1>15 DEF Makes

LEMMA ResendMakes ==
  ASSUME SignInInv, NEW c \in Calls, Resend(c)
  PROVE  Makes(c)
<1> USE DEF SignInInv
<1> DEFINE a == call[c].attempt
           old == <<c, a>>
           new == <<c, a + 1>>
           sent == Sent(call[c].kind, call[c].link)
           again == [call[c] EXCEPT !.attempt = a + 1]
           unheard == [req[old] EXCEPT !.answer = "none"]
<1>1. /\ call[c].kind # "none" /\ call[c].outcome = "open"
      /\ a \in 1..MaxAttempts[c] /\ a < MaxAttempts[c]
  BY DEF Resend, Waiting, CallsInOrder
<1>2. /\ a \in Nat /\ a + 1 \in 1..MaxAttempts[c] /\ a + 1 # a
      /\ old \in Requests /\ new \in Requests
  BY <1>1, AttemptLimits, RequestPairs
<1>3. call \in [Calls -> CallRows] /\ req \in [Requests -> Rows]
  BY TypedRows
<1>4. /\ again \in CallRows /\ again.kind = call[c].kind /\ again.link = call[c].link
      /\ again.attempt = a + 1 /\ again.outcome = call[c].outcome
  BY <1>2, <1>3 DEF CallRows
<1>5. /\ unheard \in Rows /\ unheard.pc = req[old].pc /\ unheard.cookie = req[old].cookie
      /\ unheard.late = req[old].late /\ unheard.answer = "none"
  BY <1>2, <1>3 DEF Rows
<1>6. sent \in Rows
  BY <1>1, <1>3, SentIsRow DEF CallRows
<1>7. call' = [call EXCEPT ![c] = again]
  BY DEF Resend
<1>8. req' = [req EXCEPT ![old] = unheard, ![new] = sent]
  BY DEF Resend
<1>9. old # new
  BY <1>2
<1>10. \A q \in Requests : q[1] = c /\ q # old => req[q].answer = "none"
  BY RequestFields DEF RequestsInOrder
<1>11. (call[c].kind = "verify") <=> (call[c].link # None)
  BY DEF CallsInOrder
<1>12. call[c].link \in Requests => req[call[c].link].pc = "done"
  BY DEF NamesGivenOnce
<1>13. \A q \in Requests : q[1] # c => q # new /\ q # old
  OBVIOUS
<1>14. UNCHANGED <<links, sessions, jar>>
  BY DEF Resend, rows
<1> HIDE DEF old, new, sent, again, unheard
<1>15. /\ call' \in [Calls -> CallRows] /\ call'[c] = again
       /\ \A d \in Calls : d # c => call'[d] = call[d]
  BY <1>3, <1>4, <1>7
<1>16. /\ req' \in [Requests -> Rows] /\ req'[new] = sent /\ req'[old] = unheard
       /\ \A q \in Requests : q # new /\ q # old => req'[q] = req[q]
  BY <1>2, <1>3, <1>5, <1>6, <1>8, <1>9
<1>17. \A q \in Requests : q[1] = c /\ q # new =>
         /\ req'[q].pc = req[q].pc /\ req'[q].cookie = req[q].cookie
         /\ req'[q].late = req[q].late /\ req'[q].answer = "none"
  BY <1>5, <1>10, <1>16
<1>18. /\ <<c, call[c].attempt + 1>> = new
       /\ req'[new] = Sent(call'[c].kind, call'[c].link)
  BY <1>4, <1>15, <1>16 DEF new, sent
<1>19. \A q \in Requests : q[1] # c => req'[q] = req[q]
  BY <1>13, <1>16
<1> QED
  BY <1>1, <1>2, <1>4, <1>11, <1>12, <1>14, <1>15, <1>16, <1>17, <1>18, <1>19 DEF Makes

LEMMA MakesKeepsInv ==
  ASSUME SignInInv, account' = account, onboarded' = onboarded, NEW c \in Calls, Makes(c)
  PROVE  SignInInv'
<1> USE DEF SignInInv
<1> DEFINE a == call[c].attempt + 1
           new == <<c, a>>
           k == call'[c].kind
           l == call'[c].link
<1>1. /\ UNCHANGED <<links, sessions, jar>>
      /\ call' \in [Calls -> CallRows] /\ req' \in [Requests -> Rows]
      /\ \A d \in Calls : d # c => call'[d] = call[d]
      /\ call[c].outcome = "open" /\ call'[c].outcome = "open"
      /\ k # "none" /\ call'[c].attempt = a
      /\ (k = "verify") <=> (l # None)
      /\ l \in Requests => req[l].pc = "done"
      /\ (l = call[c].link /\ k = call[c].kind) \/ call[c].attempt = 0
      /\ new \in Requests /\ a \in 1..MaxAttempts[c]
      /\ req'[new] = Sent(k, l)
      /\ \A q \in Requests : q[1] # c => req'[q] = req[q]
      /\ \A q \in Requests : q[1] = c /\ q # new =>
            /\ req'[q].pc = req[q].pc /\ req'[q].cookie = req[q].cookie
            /\ req'[q].late = req[q].late /\ req'[q].answer = "none"
  BY DEF Makes
<1>2. /\ call \in [Calls -> CallRows] /\ req \in [Requests -> Rows]
      /\ call[c].attempt \in Nat /\ a \in Nat /\ a = call[c].attempt + 1
  BY TypedRows DEF CallRows
<1>3. k \in Kinds /\ l \in Cookies
  BY <1>1 DEF CallRows
<1>4. /\ Sent(k, l).pc = "sent" /\ Sent(k, l).answer = "none"
      /\ Sent(k, l).cookie \in {jar, None}
      /\ Sent(k, l).late <=> l # None /\ OpenedBy(l) # {}
  BY <1>3, SentIsRow
<1>5. \A q \in Requests : /\ q[1] \in Calls /\ q[2] \in Nat
                          /\ q[1] = c /\ q # new => q[2] # a
  BY <1>2, RequestFields
<1>6. new[1] = c /\ new[2] = a
  OBVIOUS
<1> HIDE DEF new, a, k, l
\* No attempt of this call so late has reached the server yet.
<1>7. req[new].pc = "none"
  <2>1. ~(a <= call[c].attempt)
    BY <1>2
  <2> QED BY <1>1, <1>6, <2>1 DEF RequestsInOrder
<1>8. call[c].attempt = 0 => \A q \in Requests : q[1] = c => req[q].pc = "none"
  <2> SUFFICES ASSUME call[c].attempt = 0, NEW q \in Requests, q[1] = c
               PROVE  req[q].pc = "none"
    OBVIOUS
  <2>1. q[2] \in 1..MaxAttempts[c] /\ MaxAttempts[c] \in Nat
    BY RequestFields, AttemptLimits
  <2>2. ~(q[2] <= call[c].attempt)
    BY <2>1
  <2> QED BY <2>2 DEF RequestsInOrder
<1>9. links[new] = "none" /\ sessions[new] = "none"
  BY <1>1, <1>7 DEF NamesGivenOnce
<1>10. TypeOK'
  <2>1. jar' = jar /\ links' = links /\ sessions' = sessions
    BY <1>1
  <2> QED BY <1>1, <2>1 DEF TypeOK, CallRows, Rows, Cookies
<1>11. CallsInOrder'
  <2>1. ASSUME NEW d \in Calls, d # c, call[d].outcome \in Answers
        PROVE  req'[Last(d)].answer = req[Last(d)].answer
    <3>1. call[d].attempt \in 1..MaxAttempts[d]
      BY <2>1 DEF CallsInOrder, Answers
    <3>2. Last(d) \in Requests /\ Last(d)[1] # c
      BY <2>1, <3>1, RequestPairs DEF Last
    <3> QED BY <1>1, <3>2
  <2>2. \A d \in Calls : d # c => Last(d)' = Last(d)
    BY <1>1 DEF Last
  <2>3. call'[c].outcome \notin Answers
    BY <1>1 DEF Answers
  <2>4. call'[c].kind = k /\ call'[c].link = l
    BY DEF k, l
  <2> QED BY <1>1, <2>1, <2>2, <2>3, <2>4 DEF CallsInOrder
<1>12. RequestsInOrder'
  <2> SUFFICES ASSUME NEW q \in Requests
               PROVE  /\ req'[q].pc # "none" => q[2] <= call'[q[1]].attempt
                      /\ req'[q].answer # "none" =>
                           req'[q].pc = "done" /\ q[2] = call'[q[1]].attempt
                      /\ req'[q].pc = "done" /\ Heard(q)' => req'[q].answer # "none"
    BY DEF RequestsInOrder
  <2>1. CASE q = new
    BY <1>1, <1>2, <1>4, <1>6, <2>1
  <2>2. CASE q[1] = c /\ q # new
    <3>1. ~Heard(q)'
      BY <1>1, <1>5, <2>2 DEF Heard
    <3>2. req[q].pc # "none" => q[2] <= call[c].attempt
      BY <2>2 DEF RequestsInOrder
    <3> QED BY <1>1, <1>2, <1>5, <2>2, <3>1, <3>2
  <2>3. CASE q[1] # c
    <3>1. req'[q] = req[q] /\ call'[q[1]] = call[q[1]]
      BY <1>1, <1>5, <2>3
    <3>2. Heard(q)' <=> Heard(q)
      BY <3>1 DEF Heard, Waiting
    <3> QED BY <3>1, <3>2 DEF RequestsInOrder
  <2> QED BY <1>6, <2>1, <2>2, <2>3
<1>13. NamesGivenOnce'
  <2>1. \A q \in Requests : req[q].pc = "done" => req'[q].pc = "done"
    BY <1>1, <1>7
  <2>2. \A d \in Calls : call'[d].link \in Requests => req[call'[d].link].pc = "done"
    BY <1>1 DEF NamesGivenOnce, l
  <2> QED BY <1>1, <2>1, <2>2 DEF NamesGivenOnce
<1>14. CookiesOpened'
  <2>1. \A n : WasInJar(n) /\ n \in Cookies => WasInJar(n)'
    <3> SUFFICES ASSUME NEW n, WasInJar(n), n # None
                 PROVE  /\ sessions'[n] # "none"
                        /\ n \in Requests => call'[n[1]].outcome # "open"
      BY DEF WasInJar
    <3> QED BY <1>1, <1>5 DEF WasInJar
  <2>2. jar' = jar /\ jar \in Cookies /\ None \in Cookies /\ WasInJar(None)
    BY <1>1 DEF TypeOK, Cookies, WasInJar
  <2>3. \A q \in Requests : req'[q].cookie \in {req[q].cookie, jar, None}
    BY <1>1, <1>4
  <2>4. \A q \in Requests : req[q].cookie \in Cookies
    BY <1>2 DEF Rows
  <2> QED BY <2>1, <2>2, <2>3, <2>4 DEF CookiesOpened, WasInJar
<1>15. AnswersHold'
  <2>1. ASSUME NEW q \in Requests, q[1] # c
        PROVE  req'[q] = req[q] /\ Link(q)' = Link(q) /\ Kind(q)' = Kind(q)
    BY <1>1, <1>5, <2>1 DEF Link, Kind
  <2>2. ASSUME NEW q \in Requests, q[1] = c
        PROVE  req'[q].answer = "none"
    BY <1>1, <1>4, <2>2
  <2> QED BY <1>1, <2>1, <2>2 DEF AnswersHold
<1>16. SignedOutOfJar'
  <2>1. ASSUME NEW d \in Calls, d # c, call[d].outcome = "signed_out"
        PROVE  req'[Last(d)] = req[Last(d)]
    <3>1. call[d].attempt \in 1..MaxAttempts[d]
      BY <2>1 DEF CallsInOrder
    <3>2. Last(d) \in Requests /\ Last(d)[1] # c
      BY <2>1, <3>1, RequestPairs DEF Last
    <3> QED BY <1>1, <3>2
  <2>2. \A d \in Calls : d # c => Last(d)' = Last(d)
    BY <1>1 DEF Last
  <2> QED BY <1>1, <2>1, <2>2 DEF SignedOutOfJar
<1>17. LinksOpen'
  <2>1. \A q \in Requests : Link(q)' = Link(q) \/ sessions[q] = "none"
    <3> SUFFICES ASSUME NEW q \in Requests, q[1] = c, call[c].attempt = 0
                 PROVE  sessions[q] = "none"
      BY <1>1, <1>5 DEF Link, l
    <3> QED BY <1>8 DEF NamesGivenOnce
  <2>2. \A m : Opened(m)' <=> Opened(m)
    BY <1>1, <2>1 DEF Opened
  <2>3. \A m : (OpenedBy(m) # {})' <=> Opened(m)'
    BY DEF OpenedBy, Opened
  <2>4. \A m \in Names : links'[m] = "used" <=> (OpenedBy(m) # {})'
    BY <1>1, <2>2, <2>3, OpenedIsNotEmpty DEF LinksOpen
  <2>5. ASSUME NEW q \in Requests, req'[q].late
        PROVE  /\ req'[q].pc \in {"sent", "done"} /\ sessions'[q] = "none"
               /\ Link(q)' \in Names /\ links'[Link(q)'] = "used"
    <3>1. CASE q = new
      <4>1. Link(q)' = l
        BY <1>6, <3>1 DEF Link, l
      <4>2. l \in Names /\ OpenedBy(l) # {}
        BY <1>1, <1>3, <1>4, <2>5, <3>1 DEF Cookies
      <4>3. links[l] = "used"
        BY <4>2 DEF LinksOpen
      <4> QED BY <1>1, <1>4, <1>9, <3>1, <4>1, <4>2, <4>3
    <3>2. CASE q # new
      <4>1. req[q].late /\ req'[q].pc = req[q].pc
        BY <1>1, <2>5, <3>2
      <4>2. req[q].pc \in {"sent", "done"}
        BY <4>1 DEF LinksOpen
      <4>3. Link(q)' = Link(q)
        BY <1>1, <1>5, <1>8, <4>2 DEF Link, l
      <4> QED BY <1>1, <4>1, <4>3 DEF LinksOpen
    <3> QED BY <3>1, <3>2
  <2> QED BY <2>4, <2>5 DEF LinksOpen
<1> QED
  BY <1>10, <1>11, <1>12, <1>13, <1>14, <1>15, <1>16, <1>17

\* A call ends with outcome o, the answer to its last attempt or none.
Settles(c, o) ==
  /\ UNCHANGED <<rows, req>>
  /\ call[c].kind # "none" /\ call[c].outcome = "open"
  /\ call' = [call EXCEPT ![c].outcome = o]
  /\ o \in Answers => req[Last(c)].answer = o
  /\ \/ jar' = jar /\ o # "signed_out"
     \/ jar' = None /\ o = "signed_out"
     \/ jar' = Last(c) /\ o = "identity" /\ call[c].kind = "verify"

LEMMA SettlesOnce ==
  ASSUME SignInInv, NEW c \in Calls, GiveUp(c) \/ Answered(c)
  PROVE  \E o \in Answers \cup {"network"} : Settles(c, o)
<1> USE DEF SignInInv
<1>1. CASE GiveUp(c)
  <2>1. Settles(c, "network")
    BY <1>1 DEF GiveUp, Settles, Waiting, rows, Answers
  <2> QED BY <2>1
<1>2. CASE Answered(c)
  <2> DEFINE o == req[Last(c)].answer
  <2>1. call[c].kind # "none" /\ call[c].outcome = "open" /\ req[Last(c)].pc = "done"
    BY <1>2 DEF Answered, Waiting, Last
  <2>2. Last(c) \in Requests
    BY <2>1, RequestPairs DEF CallsInOrder, Last
  <2>3. Heard(Last(c))
    BY <2>1 DEF Heard, Waiting, Last
  <2>4. o \in Answers
    BY <2>1, <2>2, <2>3 DEF RequestsInOrder, TypeOK
  <2>5. Settles(c, o)
    BY <1>2, <2>1 DEF Answered, Settles, Last, Kind, rows
  <2> QED BY <2>4, <2>5
<1> QED BY <1>1, <1>2

LEMMA SettlesKeepsInv ==
  ASSUME SignInInv, NEW c \in Calls, NEW o \in Answers \cup {"network"}, Settles(c, o)
  PROVE  SignInInv'
<1> USE DEF SignInInv
<1> DEFINE row == [call[c] EXCEPT !.outcome = o]
<1>1. /\ call[c].kind # "none" /\ call[c].outcome = "open"
      /\ o \in Answers => req[Last(c)].answer = o
      /\ req' = req /\ links' = links /\ sessions' = sessions
      /\ account' = account /\ onboarded' = onboarded
      /\ call' = [call EXCEPT ![c] = row]
      /\ \/ jar' = jar /\ o # "signed_out"
         \/ jar' = None /\ o = "signed_out"
         \/ jar' = Last(c) /\ o = "identity" /\ call[c].kind = "verify"
  BY DEF Settles, rows
<1>2. call \in [Calls -> CallRows]
  BY TypedRows
<1>3. /\ row \in CallRows /\ row.outcome = o /\ row.kind = call[c].kind
      /\ row.link = call[c].link /\ row.attempt = call[c].attempt
  BY <1>2 DEF CallRows
<1> HIDE DEF row
<1>4. /\ call' \in [Calls -> CallRows] /\ call'[c] = row
      /\ \A d \in Calls : d # c => call'[d] = call[d]
      /\ \A d \in Calls : /\ call'[d].kind = call[d].kind /\ call'[d].link = call[d].link
                           /\ call'[d].attempt = call[d].attempt
  BY <1>1, <1>2, <1>3
<1>5. /\ \A d \in Calls : Last(d)' = Last(d)
      /\ \A q \in Requests : Link(q)' = Link(q) /\ Kind(q)' = Kind(q)
  BY <1>4, RequestFields DEF Last, Link, Kind
<1>6. call[c].attempt \in 1..MaxAttempts[c] /\ Last(c) \in Requests
  BY <1>1, RequestPairs DEF CallsInOrder, Last
<1>7. TypeOK'
  <2>1. jar' \in Cookies
    BY <1>1, <1>6, NamesFacts DEF TypeOK, Cookies
  <2> QED BY <1>1, <1>4, <2>1 DEF TypeOK, CallRows, Cookies
<1>8. CallsInOrder'
  BY <1>1, <1>3, <1>4, <1>5 DEF CallsInOrder
<1>9. RequestsInOrder'
  <2>1. \A q \in Requests : Heard(q)' => Heard(q)
    BY <1>1, <1>3, <1>4, RequestFields DEF Heard, Waiting
  <2> QED BY <1>1, <1>4, <2>1, RequestFields DEF RequestsInOrder
<1>10. NamesGivenOnce'
  BY <1>1, <1>4 DEF NamesGivenOnce
<1>11. CookiesOpened'
  <2>1. o # "open"
    BY DEF Answers
  <2>2. \A n : WasInJar(n) => WasInJar(n)'
    <3> SUFFICES ASSUME NEW n, WasInJar(n), n # None
                 PROVE  /\ sessions'[n] # "none"
                        /\ n \in Requests => call'[n[1]].outcome # "open"
      BY DEF WasInJar
    <3> QED BY <1>1, <1>3, <1>4, <2>1, RequestFields DEF WasInJar
  <2>3. jar' # None => /\ sessions'[jar'] # "none"
                       /\ jar' \in Requests => call'[jar'[1]].outcome # "open"
    <3>1. CASE jar' = jar
      BY <2>2, <3>1 DEF CookiesOpened, WasInJar
    <3>2. CASE jar' = None
      BY <3>2 DEF WasInJar
    <3>3. CASE jar' = Last(c) /\ o = "identity" /\ call[c].kind = "verify"
      <4>1. req[Last(c)].answer = "identity" /\ Kind(Last(c)) = "verify"
        BY <1>1, <3>3 DEF Answers, Kind, Last
      <4>2. sessions[Last(c)] # "none"
        BY <1>6, <4>1 DEF AnswersHold
      <4>3. call'[Last(c)[1]].outcome # "open"
        BY <1>3, <1>4, <2>1 DEF Last
      <4> QED BY <1>1, <3>3, <4>2, <4>3 DEF WasInJar
    <3> QED BY <1>1, <3>1, <3>2, <3>3
  <2>4. WasInJar(jar)'
    BY <2>3 DEF WasInJar
  <2> QED BY <1>1, <2>2, <2>4 DEF CookiesOpened, WasInJar
<1>12. AnswersHold'
  BY <1>1, <1>5 DEF AnswersHold
<1>13. SignedOutOfJar'
  <2> SUFFICES ASSUME NEW d \in Calls, call'[d].outcome = "signed_out",
                      req[Last(d)].cookie # None
               PROVE  jar' # req[Last(d)].cookie
    BY <1>1, <1>5 DEF SignedOutOfJar
  <2>1. CASE jar' = None
    BY <2>1
  <2>2. CASE jar' = jar /\ o # "signed_out"
    <3>1. d # c
      BY <1>3, <1>4, <2>2
    <3> QED BY <1>4, <2>2, <3>1 DEF SignedOutOfJar
  \* The session that is put in the jar is of a call no cookie is of yet.
  <2>3. CASE jar' = Last(c) /\ o = "identity"
    <3>1. d # c
      BY <1>3, <1>4, <2>3
    <3>2. call[d].outcome = "signed_out" /\ call[d].kind # "none"
      BY <1>4, <3>1 DEF CallsInOrder
    <3>3. Last(d) \in Requests
      BY <3>2, RequestPairs DEF CallsInOrder, Last
    <3>4. WasInJar(req[Last(d)].cookie)
      BY <3>3 DEF CookiesOpened
    <3>5. Last(c)[1] = c
      BY DEF Last
    <3> QED BY <1>1, <1>6, <2>3, <3>4, <3>5 DEF WasInJar
  <2> QED BY <1>1, <2>1, <2>2, <2>3
<1>14. LinksOpen'
  <2>1. \A m : OpenedBy(m)' = OpenedBy(m)
    BY <1>1, <1>5 DEF OpenedBy
  <2>2. \A m \in Names : links'[m] = "used" <=> OpenedBy(m)' # {}
    BY <1>1, <2>1 DEF LinksOpen
  <2>3. \A q \in Requests :
          req'[q].late => /\ req'[q].pc \in {"sent", "done"} /\ sessions'[q] = "none"
                          /\ Link(q)' \in Names /\ links'[Link(q)'] = "used"
    BY <1>1, <1>5 DEF LinksOpen
  <2> QED BY <2>2, <2>3 DEF LinksOpen
<1> QED BY <1>7, <1>8, <1>9, <1>10, <1>11, <1>12, <1>13, <1>14

-----------------------------------------------------------------------------
(* Whose cookie is in the jar, and who ends a session.                         *)

Carriers == {"logout", "me", "onboarding"}

\* A cookie is in the jar because it always was, and then every request carried it,
\* or because a sign-in was answered.
JarFilled ==
  /\ jar \in Requests => \E d \in Calls : SignedInBy(d)
  /\ jar = Earlier => \A q \in Requests :
       Kind(q) \in Carriers /\ req[q].pc # "none" => req[q].cookie = Earlier

\* Whoever ended a session had its cookie and was not told an identity.
Ended(s) == \E q \in Requests : req[q].cookie = s /\ req[q].pc = "done" /\ req[q].answer # "identity"
EndedByCarrier == \A s \in Names : sessions[s] = "ended" => Ended(s)

\* What an answer takes for granted about its own request.
AnswersGiven ==
  \A r \in Requests :
    /\ req[r].answer = "unauthenticated" => Kind(r) \in Carriers
    /\ req[r].answer = "identity" /\ Kind(r) = "verify" =>
         Link(r) \in Names /\ links[Link(r)] = "used"
    /\ req[r].answer = "identity" /\ Kind(r) # "verify" => req[r].cookie # None
    /\ req[r].answer = "identity" /\ Kind(r) = "onboarding" => onboarded
    /\ Kind(r) = "onboarding" /\ req[r].pc = "write" => req[r].cookie # None

SessionsInv == JarFilled /\ EndedByCarrier /\ AnswersGiven

LEMMA AnswersByKind ==
  ASSUME SignInInv, SessionsInv, NEW r \in Requests, Serve(r)
  PROVE  /\ req'[r].answer = "unauthenticated" => Kind(r) \in Carriers
         /\ req'[r].answer = "identity" /\ Kind(r) # "verify" => req[r].cookie # None
         /\ req'[r].answer = "identity" /\ Kind(r) = "onboarding" => onboarded'
         /\ Kind(r) = "onboarding" /\ req'[r].pc = "write" => req[r].cookie # None
<1> USE DEF SignInInv, SessionsInv
<1>1. req[r].answer = "none"
  BY ServeFacts DEF RequestsInOrder, Unfinished
<1>2. ASSUME NEW pc \in {"insert", "write"}, Goes(r, pc)
      PROVE  req'[r].answer = "none" /\ req'[r].pc = pc
  BY <1>1, <1>2, GoesEffect
<1>3. ASSUME NEW a \in Answers, Replies(r, a)
      PROVE  req'[r].answer \in {a, "none"} /\ req'[r].pc = "done"
  BY <1>3, RepliesEffect
<1>4. CASE SignUpReads(r) \/ SignUpInserts(r) \/ LogInReads(r) \/ IssuesLink(r)
  <2>1. Kind(r) \in {"signup", "login"}
    BY <1>4 DEF SignUpReads, SignUpInserts, LogInReads, IssuesLink, At
  <2>2. \/ \E pc \in {"insert", "write"} : Goes(r, pc)
        \/ \E a \in {"internal", "link", "sent"} : Replies(r, a)
    BY <1>4 DEF SignUpReads, SignUpInserts, LogInReads, IssuesLink
  <2>3. req'[r].answer \in {"none", "internal", "link", "sent"}
    BY <1>2, <1>3, <2>2 DEF Answers
  <2> QED BY <2>1, <2>3
<1>5. CASE VerifyReads(r) \/ VerifyCommits(r)
  <2>1. Kind(r) = "verify"
    BY <1>5 DEF VerifyReads, VerifyCommits, At
  <2>2. \/ Goes(r, "write")
        \/ \E a \in {"invalid_link", "identity"} : Replies(r, a)
    BY <1>5 DEF VerifyReads, VerifyCommits
  <2>3. req'[r].answer # "unauthenticated"
    BY <1>2, <1>3, <2>2 DEF Answers
  <2> QED BY <2>1, <2>3
<1>6. CASE LogOutReads(r) \/ LogOutCommits(r)
  <2>1. Kind(r) = "logout"
    BY <1>6 DEF LogOutReads, LogOutCommits, At
  <2>2. Goes(r, "write") \/ Replies(r, "signed_out")
    BY <1>6 DEF LogOutReads, LogOutCommits
  <2>3. req'[r].answer # "identity"
    BY <1>2, <1>3, <2>2 DEF Answers
  <2> QED BY <2>1, <2>3 DEF Carriers
<1>7. CASE Me(r)
  <2>1. Kind(r) = "me"
    BY <1>7 DEF Me, At
  <2>2. CASE Replies(r, "unauthenticated")
    <3>1. req'[r].answer # "identity"
      BY <1>3, <2>2 DEF Answers
    <3> QED BY <2>1, <3>1 DEF Carriers
  <2>3. CASE Live(req[r].cookie)
    BY <2>1, <2>3 DEF Live, Carriers
  <2> QED BY <1>7, <2>2, <2>3 DEF Me, CurrentUser
<1>8. CASE OnboardingReads(r)
  <2>1. Kind(r) = "onboarding"
    BY <1>8 DEF OnboardingReads, At
  <2>2. CASE Replies(r, "unauthenticated")
    <3>1. req'[r].answer # "identity" /\ req'[r].pc = "done"
      BY <1>3, <2>2 DEF Answers
    <3> QED BY <2>1, <3>1 DEF Carriers
  <2>3. CASE Live(req[r].cookie) /\ Goes(r, "write")
    <3>1. req'[r].answer = "none"
      BY <1>2, <2>3
    <3> QED BY <2>3, <3>1 DEF Live
  <2> QED BY <1>8, <2>2, <2>3 DEF OnboardingReads, CurrentUser
<1>9. CASE OnboardingCommits(r)
  <2>1. Kind(r) = "onboarding" /\ req[r].pc = "write" /\ onboarded' = TRUE
        /\ Replies(r, "identity")
    BY <1>9 DEF OnboardingCommits, At
  <2>2. req[r].cookie # None
    BY <2>1 DEF AnswersGiven
  <2> QED BY <2>1, <2>2 DEF Carriers
<1> QED BY <1>4, <1>5, <1>6, <1>7, <1>8, <1>9 DEF Serve

LEMMA ServeKeepsSessions ==
  ASSUME SignInInv, SessionsInv, NEW r \in Requests, Serve(r)
  PROVE  SessionsInv'
<1> USE DEF SignInInv, SessionsInv
<1>1. /\ jar' = jar /\ call' = call /\ Unfinished(r) /\ RowsLast
      /\ \A q \in Requests : q # r => req'[q] = req[q]
      /\ req'[r].cookie = req[r].cookie
  BY ServeFacts
<1>2. \A q \in Requests : Kind(q)' = Kind(q) /\ Link(q)' = Link(q)
  BY <1>1 DEF Kind, Link
<1>3. JarFilled'
  <2>1. \A d \in Calls : SignedInBy(d)' <=> SignedInBy(d)
    BY <1>1 DEF SignedInBy
  <2>2. req[r].pc # "none"
    BY <1>1 DEF Unfinished
  <2>3. \A q \in Requests : req'[q].cookie = req[q].cookie /\ (req[q].pc = "none" => req'[q].pc = "none")
    BY <1>1, <2>2
  <2> QED BY <1>1, <1>2, <2>1, <2>3 DEF JarFilled
<1>4. EndedByCarrier'
  <2>1. \A s : Ended(s) => Ended(s)'
    <3> SUFFICES ASSUME NEW s, NEW q \in Requests,
                        req[q].cookie = s, req[q].pc = "done", req[q].answer # "identity"
                 PROVE  Ended(s)'
      BY DEF Ended
    <3>1. q # r
      BY <1>1 DEF Unfinished
    <3> QED BY <1>1, <3>1 DEF Ended
  <2> SUFFICES ASSUME NEW s \in Names, sessions'[s] = "ended", sessions[s] # "ended"
               PROVE  Ended(s)'
    BY <2>1 DEF EndedByCarrier
  <2>2. SignsOut(r) /\ s = req[r].cookie
    <3>1. CASE OpensSession(r)
      BY <3>1, NamesFacts DEF OpensSession, TypeOK
    <3>2. CASE SignsOut(r)
      BY <3>2 DEF SignsOut, TypeOK
    <3> QED BY <3>1, <3>2, ServeIsOne DEF Moves, Issues, Refuses, OnlyReplies
  <2>3. PICK a \in {"unauthenticated", "signed_out"} : EndsWith(r, a)
    BY <2>2, RepliesFacts
  <2>4. req'[r].pc = "done" /\ req'[r].answer \in {a, "none"} /\ req'[r].cookie = s
    BY <2>2, <2>3 DEF EndsWith
  <2>5. req'[r].answer # "identity"
    BY <2>4
  <2> QED BY <2>4, <2>5 DEF Ended
<1>5. AnswersGiven'
  <2>1. onboarded => onboarded'
    BY ServeIsOne
  <2>2. ASSUME NEW q \in Requests, q # r
        PROVE  /\ req'[q].answer = "unauthenticated" => Kind(q)' \in Carriers
               /\ req'[q].answer = "identity" /\ Kind(q)' = "verify" =>
                    Link(q)' \in Names /\ links'[Link(q)'] = "used"
               /\ req'[q].answer = "identity" /\ Kind(q)' # "verify" => req'[q].cookie # None
               /\ req'[q].answer = "identity" /\ Kind(q)' = "onboarding" => onboarded'
               /\ Kind(q)' = "onboarding" /\ req'[q].pc = "write" => req'[q].cookie # None
    BY <1>1, <1>2, <2>1, <2>2 DEF AnswersGiven, RowsLast
  <2>3. /\ req'[r].answer = "unauthenticated" => Kind(r)' \in Carriers
        /\ req'[r].answer = "identity" /\ Kind(r)' # "verify" => req'[r].cookie # None
        /\ req'[r].answer = "identity" /\ Kind(r)' = "onboarding" => onboarded'
        /\ Kind(r)' = "onboarding" /\ req'[r].pc = "write" => req'[r].cookie # None
    BY <1>1, <1>2, AnswersByKind
  <2>4. ASSUME req'[r].answer = "identity", Kind(r) = "verify"
        PROVE  Link(r) \in Names /\ links'[Link(r)] = "used"
    <3>1. req[r].answer = "none"
      BY <1>1 DEF RequestsInOrder, Unfinished
    <3>2. OpensSession(r)
      <4>1. ~Moves(r)
        BY <2>4, <3>1, MovesFacts
      <4>2. ~Issues(r) /\ ~OnlyReplies(r)
        BY <2>4 DEF Issues, OnlyReplies
      <4>3. ~Refuses(r) /\ ~SignsOut(r)
        BY <2>4, RepliesFacts DEF EndsWith
      <4> QED BY <4>1, <4>2, <4>3, ServeIsOne
    <3>3. r[1] \in Calls /\ Link(r) \in Cookies
      BY RequestFields DEF TypeOK, Link, Cookies
    <3>4. Link(r) \in Names
      BY <2>4, <3>3 DEF CallsInOrder, Kind, Link, Cookies
    <3> QED BY <3>2, <3>4 DEF OpensSession, TypeOK
  <2> QED BY <1>2, <2>2, <2>3, <2>4 DEF AnswersGiven
<1> QED BY <1>3, <1>4, <1>5

LEMMA MakesKeepsSessions ==
  ASSUME SignInInv, SessionsInv, onboarded' = onboarded, NEW c \in Calls, Makes(c)
  PROVE  SessionsInv'
<1> USE DEF SignInInv, SessionsInv
<1> DEFINE new == <<c, call[c].attempt + 1>>
           k == call'[c].kind
           l == call'[c].link
<1>1. /\ UNCHANGED <<links, sessions, jar>>
      /\ call' \in [Calls -> CallRows]
      /\ \A d \in Calls : d # c => call'[d] = call[d]
      /\ call[c].outcome = "open" /\ call'[c].outcome = "open"
      /\ (l = call[c].link /\ k = call[c].kind) \/ call[c].attempt = 0
      /\ new \in Requests /\ req'[new] = Sent(k, l)
      /\ \A q \in Requests : q[1] # c => req'[q] = req[q]
      /\ \A q \in Requests : q[1] = c /\ q # new =>
            /\ req'[q].pc = req[q].pc /\ req'[q].cookie = req[q].cookie
            /\ req'[q].answer = "none"
  BY DEF Makes
<1>2. /\ req'[new].pc = "sent" /\ req'[new].answer = "none"
      /\ req'[new].cookie = IF k \in Carriers THEN jar ELSE None
  BY <1>1 DEF Sent, Carriers
<1>3. new[1] = c /\ \A q \in Requests : q[1] \in Calls
  BY RequestFields
<1>4. \A q \in Requests : q[1] # c => Kind(q)' = Kind(q) /\ Link(q)' = Link(q)
  BY <1>1, <1>3 DEF Kind, Link
<1>5. req[new].pc = "none"
  <2>1. call[c].attempt \in Nat /\ new[2] = call[c].attempt + 1
    BY DEF TypeOK
  <2>2. ~(new[2] <= call[c].attempt)
    BY <2>1
  <2> QED BY <1>1, <1>3, <2>2 DEF RequestsInOrder
<1>6. \A q \in Requests : q[1] = c /\ req[q].pc # "none" => Kind(q)' = Kind(q)
  <2> SUFFICES ASSUME NEW q \in Requests, q[1] = c, req[q].pc # "none", call[c].attempt = 0
               PROVE  FALSE
    BY <1>1 DEF Kind
  <2>1. q[2] \in 1..MaxAttempts[c] /\ MaxAttempts[c] \in Nat
    BY RequestFields, AttemptLimits
  <2>2. ~(q[2] <= call[c].attempt)
    BY <2>1
  <2> QED BY <2>2 DEF RequestsInOrder
<1>7. \A q \in Requests : q = new => Kind(q)' = k
  BY <1>3 DEF Kind
<1> HIDE DEF new, k, l
<1>8. JarFilled'
  <2>1. jar \in Requests => \E d \in Calls : SignedInBy(d)'
    <3> SUFFICES ASSUME NEW d \in Calls, SignedInBy(d) PROVE SignedInBy(d)'
      BY DEF JarFilled
    <3>1. d # c
      BY <1>1 DEF SignedInBy
    <3> QED BY <1>1, <3>1 DEF SignedInBy
  <2>2. ASSUME jar = Earlier, NEW q \in Requests, Kind(q)' \in Carriers, req'[q].pc # "none"
        PROVE  req'[q].cookie = Earlier
    <3>1. CASE q = new
      BY <1>2, <1>7, <2>2, <3>1
    <3>2. CASE q # new /\ q[1] = c
      BY <1>1, <1>6, <2>2, <3>2 DEF JarFilled
    <3>3. CASE q[1] # c
      BY <1>1, <1>4, <2>2, <3>3 DEF JarFilled
    <3> QED BY <3>1, <3>2, <3>3
  <2> QED BY <1>1, <2>1, <2>2 DEF JarFilled
<1>9. EndedByCarrier'
  <2>1. ASSUME NEW s, NEW q \in Requests,
               req[q].cookie = s, req[q].pc = "done", req[q].answer # "identity"
        PROVE  Ended(s)'
    <3>1. q # new
      BY <1>5, <2>1
    <3>2. req'[q].cookie = s /\ req'[q].pc = "done" /\ req'[q].answer # "identity"
      BY <1>1, <2>1, <3>1
    <3> QED BY <3>2 DEF Ended
  <2> QED BY <1>1, <2>1 DEF EndedByCarrier, Ended
<1>10. AnswersGiven'
  <2> SUFFICES ASSUME NEW q \in Requests
               PROVE  /\ req'[q].answer = "unauthenticated" => Kind(q)' \in Carriers
                      /\ req'[q].answer = "identity" /\ Kind(q)' = "verify" =>
                           Link(q)' \in Names /\ links'[Link(q)'] = "used"
                      /\ req'[q].answer = "identity" /\ Kind(q)' # "verify" => req'[q].cookie # None
                      /\ req'[q].answer = "identity" /\ Kind(q)' = "onboarding" => onboarded'
                      /\ Kind(q)' = "onboarding" /\ req'[q].pc = "write" => req'[q].cookie # None
    BY DEF AnswersGiven
  <2>1. CASE q = new
    BY <1>2, <2>1
  <2>2. CASE q # new /\ q[1] = c
    <3>1. req'[q].pc = "write" => Kind(q)' = Kind(q)
      BY <1>1, <1>6, <2>2
    <3> QED BY <1>1, <2>2, <3>1 DEF AnswersGiven
  <2>3. CASE q[1] # c
    BY <1>1, <1>4, <2>3 DEF AnswersGiven
  <2> QED BY <2>1, <2>2, <2>3
<1> QED BY <1>8, <1>9, <1>10

LEMMA SettlesKeepsSessions ==
  ASSUME SignInInv, SessionsInv, NEW c \in Calls, NEW o \in Answers \cup {"network"}, Settles(c, o)
  PROVE  SessionsInv'
<1> USE DEF SignInInv, SessionsInv
<1>1. /\ call[c].outcome = "open"
      /\ req' = req /\ links' = links /\ sessions' = sessions /\ onboarded' = onboarded
      /\ call' = [call EXCEPT ![c].outcome = o]
      /\ \/ jar' = jar
         \/ jar' = None
         \/ jar' = Last(c) /\ o = "identity" /\ call[c].kind = "verify"
  BY DEF Settles, rows
<1>2. /\ call'[c].outcome = o
      /\ \A d \in Calls : d # c => call'[d] = call[d]
      /\ \A d \in Calls : /\ call'[d].kind = call[d].kind /\ call'[d].link = call[d].link
                           /\ call'[d].attempt = call[d].attempt
  BY <1>1 DEF TypeOK
<1>3. \A q \in Requests : Kind(q)' = Kind(q) /\ Link(q)' = Link(q)
  BY <1>2, RequestFields DEF Kind, Link
<1>4. JarFilled'
  <2>1. CASE jar' = jar
    <3>1. \A d \in Calls : SignedInBy(d) => SignedInBy(d)'
      BY <1>1, <1>2, <2>1 DEF SignedInBy
    <3> QED BY <1>1, <1>3, <2>1, <3>1 DEF JarFilled
  <2>2. CASE jar' = None
    BY <2>2, NamesFacts DEF JarFilled
  <2>3. CASE jar' = Last(c) /\ o = "identity" /\ call[c].kind = "verify"
    <3>1. SignedInBy(c)'
      BY <1>2, <2>3 DEF SignedInBy, Last
    <3>2. Last(c) \in Requests
      BY <2>3, RequestPairs DEF CallsInOrder, Last
    <3> QED BY <2>3, <3>1, <3>2, NamesFacts DEF JarFilled
  <2> QED BY <1>1, <2>1, <2>2, <2>3
<1>5. EndedByCarrier'
  BY <1>1 DEF EndedByCarrier, Ended
<1>6. AnswersGiven'
  BY <1>1, <1>3 DEF AnswersGiven
<1> QED BY <1>4, <1>5, <1>6

-----------------------------------------------------------------------------
(* The theorems.                                                               *)

LEMMA InitInv == Init => SignInInv
<1> SUFFICES ASSUME Init PROVE SignInInv
  OBVIOUS
<1>1. /\ \A c \in Calls : call[c] = [kind |-> "none", link |-> None, attempt |-> 0,
                                    outcome |-> "open"]
      /\ \A r \in Requests : req[r] = [pc |-> "none", cookie |-> None, late |-> FALSE,
                                       answer |-> "none"]
      /\ jar \in {None, Earlier} /\ links \in [Names -> {"none", "issued"}]
      /\ \A n \in Names : sessions[n] = IF n = jar THEN "live" ELSE "none"
      /\ \A r \in Requests : links[r] = "none" /\ sessions[r] = "none"
  BY NamesFacts DEF Init
<1>2. TypeOK
  BY NamesFacts DEF Init, TypeOK, Kinds, Answers
<1>3. CallsInOrder /\ RequestsInOrder
  BY <1>1, RequestFields DEF CallsInOrder, RequestsInOrder, Answers, Heard, Waiting
<1>4. NamesGivenOnce /\ CookiesOpened
  BY <1>1, NamesFacts DEF NamesGivenOnce, CookiesOpened, WasInJar
<1>5. AnswersHold /\ SignedOutOfJar
  BY <1>1 DEF AnswersHold, SignedOutOfJar
<1>6. LinksOpen
  BY <1>1 DEF LinksOpen, OpenedBy
<1> QED BY <1>2, <1>3, <1>4, <1>5, <1>6 DEF SignInInv

LEMMA NextInv == SignInInv /\ [Next]_vars => SignInInv'
<1> SUFFICES ASSUME SignInInv, [Next]_vars PROVE SignInInv'
  OBVIOUS
<1>1. CASE \E c \in Calls : Open(c) \/ Resend(c)
  <2>1. PICK c \in Calls : Open(c) \/ Resend(c)
    BY <1>1
  <2>2. Makes(c)
    BY <2>1, OpenMakes, ResendMakes
  <2>3. account' = account /\ onboarded' = onboarded
    BY <2>1 DEF Open, Resend, rows
  <2> QED BY <2>2, <2>3, MakesKeepsInv
<1>2. CASE \E c \in Calls : GiveUp(c) \/ Answered(c)
  BY <1>2, SettlesOnce, SettlesKeepsInv
<1>3. CASE \E r \in Requests : Serve(r)
  BY <1>3, ServeTypes, ServeKeepsOrder, ServeKeepsAnswers, ServeKeepsLinks DEF SignInInv
<1>4. CASE UNCHANGED vars
  BY <1>4 DEF vars, rows, SignInInv, TypeOK, CallsInOrder, RequestsInOrder, NamesGivenOnce,
              CookiesOpened, WasInJar, AnswersHold, SignedOutOfJar, LinksOpen, OpenedBy,
              Last, Heard, Waiting, Link, Kind
<1> QED BY <1>1, <1>2, <1>3, <1>4 DEF Next

LEMMA AlwaysInv == Spec => []SignInInv
<1> QED BY InitInv, NextInv, PTL DEF Spec

LEMMA AlwaysSessions == Spec => []SessionsInv
<1>1. Init => SessionsInv
  <2> SUFFICES ASSUME Init PROVE SessionsInv
    OBVIOUS
  <2>1. /\ \A r \in Requests : req[r] = [pc |-> "none", cookie |-> None, late |-> FALSE,
                                       answer |-> "none"]
        /\ jar \in {None, Earlier}
        /\ \A n \in Names : sessions[n] \in {"live", "none"}
    BY DEF Init
  <2> QED BY <2>1, NamesFacts DEF SessionsInv, JarFilled, EndedByCarrier, AnswersGiven
<1>2. SignInInv /\ SessionsInv /\ [Next]_vars => SessionsInv'
  <2> SUFFICES ASSUME SignInInv, SessionsInv, [Next]_vars PROVE SessionsInv'
    OBVIOUS
  <2>1. CASE \E c \in Calls : Open(c) \/ Resend(c)
    <3>1. PICK c \in Calls : Open(c) \/ Resend(c)
      BY <2>1
    <3>2. onboarded' = onboarded /\ Makes(c)
      BY <3>1, OpenMakes, ResendMakes DEF Open, Resend, rows
    <3> QED BY <3>2, MakesKeepsSessions
  <2>2. CASE \E c \in Calls : GiveUp(c) \/ Answered(c)
    BY <2>2, SettlesOnce, SettlesKeepsSessions
  <2>3. CASE \E r \in Requests : Serve(r)
    BY <2>3, ServeKeepsSessions
  <2>4. CASE UNCHANGED vars
    BY <2>4 DEF vars, rows, SessionsInv, JarFilled, EndedByCarrier, Ended, AnswersGiven,
                SignedInBy, Link, Kind
  <2> QED BY <2>1, <2>2, <2>3, <2>4 DEF Next
<1> QED BY <1>1, <1>2, AlwaysInv, PTL DEF Spec

\* Every call, request, link and session of the model is one the handlers of
\* routes/auth.py and request of api.ts can produce.
THEOREM SignInTyped == Spec => []TypeOK
<1>1. SignInInv => TypeOK
  BY DEF SignInInv
<1> QED BY <1>1, AlwaysInv, PTL

\* verify: a link counts as used exactly if a session was opened with it, however
\* many requests with it overlapped, and a request sent after that opens none.
THEOREM UsedLinksOpenNothing == Spec => []UsedLinkOpensNothing
<1>1. SignInInv => UsedLinkOpensNothing
  BY DEF SignInInv, LinksOpen, UsedLinkOpensNothing
<1> QED BY <1>1, AlwaysInv, PTL

\* log_out, current_user and verify: what a page was told stays true while the
\* calls of other tabs, and repetitions of its own call, are still running.
THEOREM AnswersKept == Spec => []AnswersStayTrue
<1>1. SignInInv /\ SessionsInv => AnswersStayTrue
  <2> SUFFICES ASSUME SignInInv, SessionsInv PROVE AnswersStayTrue
    OBVIOUS
  <2> USE DEF SignInInv, SessionsInv
  <2>1. jar # None => sessions[jar] # "none"
    BY DEF CookiesOpened, WasInJar
  <2> SUFFICES ASSUME NEW c \in Calls
               PROVE  LET r == Last(c)  told == call[c].outcome IN
                 /\ told = "unauthenticated" =>
                      /\ ~Live(req[r].cookie)
                      /\ Live(jar) => \E d \in Calls \ {c} : SignedInBy(d)
                 /\ told = "invalid_link" => links[call[c].link] # "issued"
                 /\ told = "signed_out" =>
                      ~Live(req[r].cookie) /\ (req[r].cookie # None => jar # req[r].cookie)
                 /\ told = "identity" /\ call[c].kind = "verify" =>
                      EndedOnlyBesides(r, r) /\ links[call[c].link] = "used"
                 /\ told = "identity" /\ call[c].kind # "verify" =>
                      req[r].cookie # None /\ EndedOnlyBesides(r, req[r].cookie)
                 /\ told = "identity" /\ call[c].kind = "onboarding" => onboarded
    BY <2>1 DEF AnswersStayTrue, Last
  <2> DEFINE r == Last(c)
             told == call[c].outcome
  <2>2. told \in Answers => r \in Requests /\ req[r].answer = told /\ req[r].pc = "done"
    <3> SUFFICES ASSUME told \in Answers
                 PROVE  r \in Requests /\ req[r].answer = told /\ req[r].pc = "done"
      OBVIOUS
    <3>1. r \in Requests /\ req[r].answer = told
      BY RequestPairs DEF CallsInOrder, Last, Answers
    <3>2. req[r].answer # "none"
      BY <3>1 DEF Answers
    <3> QED BY <3>1, <3>2 DEF RequestsInOrder
  <2>3. Link(r) = call[c].link /\ Kind(r) = call[c].kind
    BY DEF Link, Kind, Last
  <2>4. {"unauthenticated", "invalid_link", "signed_out", "identity"} \subseteq Answers
    BY DEF Answers
  <2>5. told = "signed_out" => (req[r].cookie # None => jar # req[r].cookie)
    BY DEF SignedOutOfJar
  <2> HIDE DEF r, told
  <2>6. told \in {"unauthenticated", "signed_out"} => ~Live(req[r].cookie)
    BY <2>2, <2>4 DEF AnswersHold, Live
  <2>7. told = "invalid_link" => links[call[c].link] # "issued"
    BY <2>2, <2>3, <2>4 DEF AnswersHold
  <2>8. ASSUME told = "unauthenticated", Live(jar)
        PROVE  \E d \in Calls \ {c} : SignedInBy(d)
    <3>1. req[r].pc # "none" /\ Kind(r) \in Carriers /\ r \in Requests
      BY <2>2, <2>4, <2>8 DEF AnswersGiven
    <3>2. jar # Earlier
      BY <2>6, <2>8, <3>1 DEF JarFilled
    <3>3. jar \in Requests
      BY <2>8, <3>2 DEF TypeOK, Live, Names
    <3>4. PICK d \in Calls : SignedInBy(d)
      BY <3>3 DEF JarFilled
    <3>5. d # c
      BY <2>8, <3>4 DEF SignedInBy, told
    <3> QED BY <3>4, <3>5
  <2>9. ASSUME told = "identity", NEW n \in Names, sessions[n] # "none"
        PROVE  EndedOnlyBesides(r, n)
    <3>1. CASE sessions[n] = "ended"
      <4>1. PICK q \in Requests : /\ req[q].cookie = n /\ req[q].pc = "done"
                                  /\ req[q].answer # "identity"
        BY <3>1 DEF EndedByCarrier, Ended
      <4>2. q # r
        BY <2>2, <2>4, <2>9, <4>1
      <4> QED BY <4>1, <4>2 DEF EndedOnlyBesides
    <3> QED BY <2>9, <3>1 DEF TypeOK, EndedOnlyBesides
  <2>10. ASSUME told = "identity"
         PROVE  /\ call[c].kind = "verify" =>
                     EndedOnlyBesides(r, r) /\ links[call[c].link] = "used"
                /\ call[c].kind # "verify" =>
                     req[r].cookie # None /\ EndedOnlyBesides(r, req[r].cookie)
                /\ call[c].kind = "onboarding" => onboarded
    <3>1. r \in Requests /\ r \in Names /\ req[r].answer = "identity"
      BY <2>2, <2>4, <2>10, NamesFacts
    <3>2. call[c].kind = "verify" => sessions[r] # "none" /\ links[call[c].link] = "used"
      BY <2>3, <3>1 DEF AnswersHold, AnswersGiven
    <3>3. /\ call[c].kind # "verify" => req[r].cookie # None
          /\ call[c].kind = "onboarding" => onboarded
      BY <2>3, <3>1 DEF AnswersGiven
    <3>4. req[r].cookie # None => req[r].cookie \in Names /\ sessions[req[r].cookie] # "none"
      BY <3>1 DEF CookiesOpened, WasInJar, TypeOK
    <3> QED BY <2>9, <2>10, <3>1, <3>2, <3>3, <3>4
  <2> QED BY <2>5, <2>6, <2>7, <2>8, <2>10 DEF r, told
<1> QED BY <1>1, AlwaysInv, AlwaysSessions, PTL

=============================================================================
