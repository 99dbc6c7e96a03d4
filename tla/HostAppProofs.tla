---------------------------- MODULE HostAppProofs ----------------------------
(***************************************************************************)
(* Safety of HostApp for any sections and dead links.  HostInv is          *)
(* inductive: it follows the page to return to from the login page's query *)
(* into the pending login and back, says that whoever sees anything but    *)
(* the login page has a document made for a teacher, and that a refusal    *)
(* stays in the address until the teacher goes elsewhere.                  *)
(***************************************************************************)
EXTENDS HostApp, TLAPS

USE PathAssumption

States == {"none", "loading", "loaded", "failed"}
Query == [error : Error \cup {None}, returnTo : Path \cup {None}]

LEMMA FetchedType ==
  ASSUME NEW p, NEW c \in [Chunk -> States] PROVE Fetched(p, c) \in [Chunk -> States]
  BY DEF Fetched, States

(* A new document shows the page asked for, and nothing is mounted in it yet.  *)
Starts(user) ==
  /\ page' = "app" /\ layout' = FALSE /\ modal' = FALSE /\ chunk' \in [Chunk -> States]
  /\ preloaded' = PreloadedState(user)

LEMMA DocumentStarts ==
  ASSUME NEW p, NEW q
  PROVE  /\ NewDocument(p, q, TRUE) => Starts(TRUE) /\ path' = p /\ query' = q
         /\ NewDocument(p, q, FALSE) => Starts(FALSE) /\ path' = p /\ query' = q
<1>1. Fresh \in [Chunk -> States]
  BY DEF Fresh, States
<1>2. IsPreloadedState(PreloadedState(TRUE)) /\ IsPreloadedState(PreloadedState(FALSE))
  BY DEF IsPreloadedState, PreloadedState
<1>3. ASSUME NewDocument(p, q, TRUE) PROVE Starts(TRUE) /\ path' = p /\ query' = q
  BY <1>1, <1>2, <1>3, FetchedType DEF NewDocument, Starts
<1>4. ASSUME NewDocument(p, q, FALSE) PROVE Starts(FALSE) /\ path' = p /\ query' = q
  BY <1>1, <1>2, <1>4, FetchedType DEF NewDocument, Starts
<1>. QED BY <1>3, <1>4

(* Where a request for page p ends: a teacher never on the login page ...      *)
LEMMA TeacherGets ==
  ASSUME NEW p \in Path, NEW q \in Query, Get(p, q, TRUE), q.returnTo # "/login",
         p # "/login" => q = NoQuery
  PROVE  /\ Starts(TRUE) /\ query' = NoQuery /\ path' \in Path \ {"/login"}
         /\ path' = IF p = "/login" THEN Target(q.returnTo) ELSE p
<1>. DEFINE to == IF p = "/login" THEN Target(q.returnTo) ELSE p
<1>1. NewDocument(to, NoQuery, TRUE)
  BY DEF Get, Target
<1>2. to \in Path \ {"/login"}
  BY DEF Path, Query, Target
<1>3. Starts(TRUE) /\ path' = to /\ query' = NoQuery
  <2>. HIDE DEF to
  <2>. QED BY <1>1, DocumentStarts
<1>. QED BY <1>2, <1>3

(* ... and anybody else always there.                                          *)
LEMMA StrangerGets ==
  ASSUME NEW p \in Path, NEW q \in Query, Get(p, q, FALSE), q.returnTo # "/login"
  PROVE  /\ Starts(FALSE) /\ path' = "/login" /\ query' \in Query
         /\ query'.returnTo # "/login"
         /\ query' = IF p = "/login" THEN q ELSE LoginQuery(None, p)
<1>. DEFINE to == IF p = "/login" THEN q ELSE LoginQuery(None, p)
<1>1. NewDocument("/login", to, FALSE)
  BY DEF Get
<1>2. to \in Query /\ to.returnTo # "/login"
  BY DEF LoginQuery, Query
<1>3. Starts(FALSE) /\ path' = "/login" /\ query' = to
  <2>. HIDE DEF to
  <2>. QED BY <1>1, DocumentStarts
<1>. QED BY <1>2, <1>3

LEMMA InitHost == Init => HostInv
<1>. SUFFICES ASSUME Init PROVE HostInv
  OBVIOUS
<1>1. chunk \in [Chunk -> States]
  BY FetchedType DEF Init, Fresh, States
<1>. QED BY <1>1 DEF Init, HostInv, TypeOK, SectionsFailAlone, RightDocument, ReturnKept,
                     RefusalKept, GreetingKept, NewSession, NoQuery, Path, Target, States

(* What a document that has just been loaded leaves to be shown.               *)
Remains ==
  /\ session' \in [user : BOOLEAN, pending : Path \cup {None}] /\ session'.pending # "/login"
  /\ seen' \in {"true", "absent", "denied"} /\ greeted' \in BOOLEAN /\ (greeted' => seen' = "true")
  /\ asked' \in Path \cup {None} /\ refusal' \in ServerError \cup {None}

LEMMA TeacherInv ==
  ASSUME Starts(TRUE), Remains, path' \in Path \ {"/login"}, query' = NoQuery, refusal' = None
  PROVE  HostInv'
<1>1. NoQuery \in Query /\ NoQuery.returnTo = None /\ "/login" \in Path
  BY DEF NoQuery, Query, Path
<1>2. TypeOK'
  BY <1>1 DEF TypeOK, Query, States, Starts, Remains
<1>3. RightDocument' /\ ReturnKept' /\ RefusalKept'
  BY <1>1 DEF PreloadedState, RightDocument, ReturnKept, RefusalKept, Starts, Remains
<1>. QED BY <1>2, <1>3 DEF HostInv, SectionsFailAlone, GreetingKept, Starts, Remains

LEMMA StrangerInv ==
  ASSUME Starts(FALSE), Remains, path' = "/login", query' \in Query,
         query'.returnTo # "/login", ~session'.user,
         Target(query'.returnTo) = Target(asked'), refusal' # None => query'.error = refusal'
  PROVE  HostInv'
<1>1. "/login" \in Path
  BY DEF Path
<1>2. TypeOK'
  BY <1>1 DEF TypeOK, Query, States, Starts, Remains
<1>3. RightDocument' /\ ReturnKept' /\ RefusalKept'
  BY <1>1 DEF RightDocument, ReturnKept, RefusalKept, Starts, Remains
<1>. QED BY <1>2, <1>3 DEF HostInv, SectionsFailAlone, GreetingKept, Starts, Remains

(* What the inductive invariant says of what a document does not touch.        *)
LEMMA Kept ==
  ASSUME HostInv
  PROVE  /\ session \in [user : BOOLEAN, pending : Path \cup {None}] /\ session.pending # "/login"
         /\ session.user \in BOOLEAN /\ session.pending \in Path \cup {None}
         /\ seen \in {"true", "absent", "denied"} /\ greeted \in BOOLEAN
         /\ greeted => seen = "true"
         /\ asked \in Path \cup {None} /\ refusal \in ServerError \cup {None}
         /\ path \in Path /\ query \in Query /\ query.returnTo # "/login"
         /\ path # "/login" => query = NoQuery
         /\ path = "/login" => ~session.user
  BY DEF HostInv, TypeOK, RightDocument, ReturnKept, GreetingKept, Query

LEMMA Texts ==
  /\ NoQuery \in Query /\ NoQuery.returnTo = None /\ NoQuery.error = None
  /\ "/login" \in Path /\ None # "/login"
  BY DEF NoQuery, Query, Path

LEMMA VisitHost ==
  ASSUME HostInv, NEW p \in Path, NEW error \in Error \cup {None}, Visit(p, error)
  PROVE  HostInv'
<1>. DEFINE q == LoginQuery(error, None)
<1>1. /\ q \in Query /\ q.returnTo = None
      /\ p # "/login" => q = NoQuery
  BY DEF Visit, LoginQuery, NoQuery, Query
<1>2. /\ Get(p, q, session.user) /\ UNCHANGED <<session, seen, greeted>>
      /\ asked' = TurnedAway(p, session.user) /\ refusal' = None
  BY DEF Visit
<1>. HIDE DEF q
<1>3. Remains
  BY <1>2, Kept DEF Remains, TurnedAway
<1>4. CASE session.user
  <2>1. Get(p, q, TRUE)
    BY <1>2, <1>4, Kept
  <2>2. Starts(TRUE) /\ query' = NoQuery /\ path' \in Path \ {"/login"}
    BY <1>1, <2>1, Texts, TeacherGets
  <2>. QED BY <1>2, <1>3, <2>2, TeacherInv
<1>5. CASE ~session.user
  <2>1. Get(p, q, FALSE)
    BY <1>2, <1>5, Kept
  <2>2. /\ Starts(FALSE) /\ path' = "/login" /\ query' \in Query /\ query'.returnTo # "/login"
        /\ query' = IF p = "/login" THEN q ELSE LoginQuery(None, p)
    BY <1>1, <2>1, Texts, StrangerGets
  <2>3. query'.returnTo = asked'
    BY <1>1, <1>2, <1>5, <2>2 DEF LoginQuery, TurnedAway
  <2>. QED BY <1>2, <1>3, <1>5, <2>2, <2>3, StrangerInv
<1>. QED BY <1>4, <1>5

LEMMA ReloadHost == ASSUME HostInv, Reload PROVE HostInv'
<1>1. /\ Get(path, query, session.user) /\ UNCHANGED <<session, seen, refusal, greeted>>
      /\ asked' = IF path = "/login" THEN asked ELSE TurnedAway(path, session.user)
      /\ page # "edupass"
  BY DEF Reload
<1>2. refusal # None => path = "/login" /\ query.error = refusal
  BY DEF HostInv, RefusalKept
<1>3. Remains
  BY <1>1, Kept DEF Remains, TurnedAway
<1>4. CASE session.user
  <2>1. Get(path, query, TRUE)
    BY <1>1, <1>4, Kept
  <2>2. Starts(TRUE) /\ query' = NoQuery /\ path' \in Path \ {"/login"}
    BY <2>1, Kept, TeacherGets
  <2>. QED BY <1>1, <1>2, <1>3, <1>4, <2>2, Kept, TeacherInv
<1>5. CASE ~session.user
  <2>1. Get(path, query, FALSE)
    BY <1>1, <1>5, Kept
  <2>2. /\ Starts(FALSE) /\ path' = "/login" /\ query' \in Query /\ query'.returnTo # "/login"
        /\ query' = IF path = "/login" THEN query ELSE LoginQuery(None, path)
    BY <2>1, Kept, StrangerGets
  <2>3. Target(query'.returnTo) = Target(asked')
    BY <1>1, <1>5, <2>2 DEF LoginQuery, TurnedAway, HostInv, ReturnKept
  <2>. QED BY <1>1, <1>2, <1>3, <1>5, <2>2, <2>3, StrangerInv
<1>. QED BY <1>4, <1>5

LEMMA SignOutHost == ASSUME HostInv, SignOut PROVE HostInv'
<1>1. /\ Get("/login", NoQuery, FALSE) /\ UNCHANGED <<seen, greeted>>
      /\ session' = NewSession /\ asked' = None /\ refusal' = None
  BY DEF SignOut
<1>2. Remains /\ ~session'.user
  BY <1>1, Kept, Texts DEF Remains, NewSession
<1>3. Starts(FALSE) /\ path' = "/login" /\ query' = NoQuery
  BY <1>1, Texts, StrangerGets
<1>. QED BY <1>1, <1>2, <1>3, Texts, StrangerInv

LEMMA CallbackSignsInHost == ASSUME HostInv, CallbackSignsIn PROVE HostInv'
<1>1. /\ Get(session.pending, NoQuery, TRUE) /\ UNCHANGED <<seen, greeted>>
      /\ session' = [user |-> TRUE, pending |-> None] /\ asked' = None /\ refusal' = None
      /\ session.pending \in Path \ {"/login"}
  BY Kept DEF CallbackSignsIn
<1>2. Remains
  BY <1>1, Kept, Texts DEF Remains
<1>3. Starts(TRUE) /\ query' = NoQuery /\ path' \in Path \ {"/login"}
  BY <1>1, Texts, TeacherGets
<1>. QED BY <1>1, <1>2, <1>3, TeacherInv

LEMMA CallbackRefusesHost ==
  ASSUME HostInv, NEW error \in ServerError, CallbackRefuses(error) PROVE HostInv'
<1>. DEFINE to == IF session.pending = None THEN "/" ELSE session.pending
            q  == LoginQuery(error, to)
<1>1. page = "edupass" /\ ~session.user /\ to \in Path \ {"/login"} /\ to = Target(asked)
  BY Kept DEF HostInv, ReturnKept, RightDocument, CallbackRefuses, Path, Target
<1>2. /\ Get("/login", q, session.user) /\ UNCHANGED <<seen, asked, greeted>>
      /\ session' = [session EXCEPT !.pending = None]
      /\ refusal' = IF session.user THEN None ELSE error
  BY DEF CallbackRefuses
<1>3. q \in Query /\ q.returnTo = to /\ q.error = error
  BY <1>1 DEF LoginQuery, Query, Error
<1>. HIDE DEF to, q
<1>4. Remains /\ ~session'.user
  BY <1>1, <1>2, Kept, Texts DEF Remains
<1>5. Get("/login", q, FALSE)
  BY <1>1, <1>2, Kept
<1>6. Starts(FALSE) /\ path' = "/login" /\ query' = q
  BY <1>1, <1>3, <1>5, Texts, StrangerGets
<1>7. Target(q.returnTo) = Target(asked')
  BY <1>1, <1>2, <1>3 DEF Target
<1>. QED BY <1>1, <1>2, <1>3, <1>4, <1>6, <1>7, StrangerInv

(* A view shown within the document: the login page is neither entered nor left. *)
LEMMA ShowHost ==
  ASSUME HostInv, page = "app", NEW p \in Path, NEW c \in [Chunk -> States], Show(p, c),
         p = path \/ (path # "/login" /\ p # "/login"),
         UNCHANGED <<session, seen, history>>
  PROVE  HostInv'
<1>1. /\ path' = p /\ chunk' = Fetched(p, c) /\ layout' = Laid(p, c)
      /\ modal' = (Laid(p, c) /\ IF layout THEN modal ELSE Greets)
      /\ page' = IF Uncaught(p, chunk') THEN "blank" ELSE page
      /\ UNCHANGED <<preloaded, query>>
  BY DEF Show, Render
<1>2. chunk' \in [Chunk -> States] /\ page' \in {"app", "blank"}
  BY <1>1, FetchedType
<1>3. Laid(p, c) \in BOOLEAN /\ (Laid(p, c) => p \in Section \cup {"/"})
  BY DEF Laid
<1>4. modal' \in BOOLEAN
  BY <1>1, <1>3 DEF Greets
<1>5. TypeOK'
  <2>1. TypeOK /\ (path # "/login" => query = NoQuery)
    BY DEF HostInv, TypeOK
  <2>2. UNCHANGED <<session, seen, asked, refusal, greeted, preloaded, query>>
    BY <1>1 DEF history
  <2>3. path' \in Path /\ (path' # "/login" => query' = NoQuery)
    BY <1>1, <2>1, <2>2
  <2>4. page' \in {"app", "blank", "edupass"} /\ layout' \in BOOLEAN
    BY <1>1, <1>2, <1>3
  <2>5. /\ session' \in [user : BOOLEAN, pending : Path \cup {None}]
        /\ query' \in [error : Error \cup {None}, returnTo : Path \cup {None}]
        /\ chunk' \in [Chunk -> {"none", "loading", "loaded", "failed"}]
    BY <1>2, <2>1, <2>2 DEF TypeOK, States
  <2>. QED BY <1>4, <2>1, <2>2, <2>3, <2>4, <2>5 DEF TypeOK
<1>6. SectionsFailAlone'
  BY <1>1 DEF SectionsFailAlone, Uncaught
<1>7. RightDocument' /\ ReturnKept' /\ RefusalKept'
  BY <1>1, <1>2, <1>3 DEF HostInv, RightDocument, ReturnKept, RefusalKept, history
<1>8. GreetingKept'
  BY <1>1 DEF HostInv, GreetingKept, Greets, history
<1>. QED BY <1>5, <1>6, <1>7, <1>8 DEF HostInv

LEMMA SettleHost ==
  ASSUME HostInv, NEW k \in Chunk, NEW outcome \in {"loaded", "failed"}, Settle(k, outcome)
  PROVE  HostInv'
<1>. DEFINE c == [chunk EXCEPT ![k] = outcome]
<1>1. page = "app" /\ Show(path, c) /\ UNCHANGED <<session, seen, history>>
  BY DEF Settle
<1>2. c \in [Chunk -> States]
  BY DEF HostInv, TypeOK, States
<1>. HIDE DEF c
<1>. QED BY <1>1, <1>2, Kept, ShowHost

(* The login page has no link of the application, and none leads to it.        *)
LEMMA LinksApart ==
  ASSUME HostInv, NEW p \in Links PROVE path # "/login" /\ p # "/login"
<1>1. p \in {"/", "/meetings", "/students", "/posts"} \cup Section
  BY DEF Links, NavLinks, HomeLinks, NotFoundLinks, FallbackLinks
<1>2. ASSUME path = "/login" PROVE FALSE
  <2>1. ~layout /\ path \notin NotFound
    BY <1>2 DEF HostInv, RightDocument
  <2>2. InnerChunk(path) = {} /\ OuterChunk(path) = {"LoginView"}
    BY <1>2 DEF InnerChunk, OuterChunk
  <2>3. "HomeView" \notin Wants(path, chunk) /\ "RemoteLoadFallbackView" \notin Wants(path, chunk)
    BY <2>2 DEF Wants
  <2>. QED BY <2>1, <2>3 DEF Links, Shown
<1>. QED BY <1>1, <1>2

LEMMA FollowHost == ASSUME HostInv, NEW p \in Path, Follow(p) PROVE HostInv'
<1>1. p \in Links /\ Show(p, chunk) /\ UNCHANGED <<session, seen, history>>
  BY DEF Follow
<1>2. page = "app"
  BY <1>1 DEF Links, Shown
<1>3. chunk \in [Chunk -> States]
  BY DEF HostInv, TypeOK, States
<1>. QED BY <1>1, <1>2, <1>3, LinksApart, ShowHost

LEMMA CloseWelcomeHost == ASSUME HostInv, CloseWelcome PROVE HostInv'
<1>1. /\ ~modal' /\ modal' \in BOOLEAN
      /\ seen' = IF seen = "denied" THEN seen ELSE "true"
      /\ greeted' = (seen # "denied")
      /\ UNCHANGED <<session, page, preloaded, path, query, chunk, layout, asked, refusal>>
  BY DEF CloseWelcome
<1>2. TypeOK'
  BY <1>1 DEF HostInv, TypeOK
<1>3. GreetingKept'
  BY <1>1, Kept DEF GreetingKept
<1>. QED BY <1>1, <1>2, <1>3
        DEF HostInv, SectionsFailAlone, RightDocument, ReturnKept, RefusalKept

(* Only the login page leads to Edupass, with the page to return to in hand.   *)
LEMMA SignInHost == ASSUME HostInv, SignIn PROVE HostInv'
<1>1. /\ page = "app" /\ "LoginView" \in Wants(path, chunk)
      /\ session' = [session EXCEPT !.pending = Target(query.returnTo)]
      /\ page' = "edupass"
      /\ UNCHANGED <<preloaded, path, query, chunk, layout, modal, seen, history>>
  BY DEF SignIn, Shown, LoginHref, Target
<1>2. path = "/login"
  <2>1. "LoginView" \notin Section
    BY ChunkAssumption DEF OwnChunk
  <2>2. "LoginView" \notin InnerChunk(path)
    BY <2>1 DEF InnerChunk
  <2>. QED BY <1>1, <2>2 DEF Wants, OuterChunk
<1>3. Target(query.returnTo) \in Path \ {"/login"} /\ Target(query.returnTo) = Target(asked)
  BY <1>1, <1>2, Kept DEF HostInv, ReturnKept, Target, Path
<1>4. session' \in [user : BOOLEAN, pending : Path \cup {None}] /\ ~session'.user
      /\ session'.pending = Target(asked) /\ session'.pending # None
  BY <1>1, <1>2, <1>3, Kept
<1>5. TypeOK'
  BY <1>1, <1>4 DEF HostInv, TypeOK, history
<1>6. RightDocument' /\ ReturnKept' /\ RefusalKept' /\ GreetingKept'
  BY <1>1, <1>2, <1>3, <1>4
     DEF HostInv, RightDocument, ReturnKept, RefusalKept, GreetingKept, history
<1>. QED BY <1>1, <1>5, <1>6 DEF HostInv, SectionsFailAlone

LEMMA EndSessionHost == ASSUME HostInv, EndSession PROVE HostInv'
<1>1. /\ session' = NewSession /\ UNCHANGED <<seen, refusal, greeted>>
      /\ asked' = IF page = "edupass" THEN None ELSE asked
      /\ UNCHANGED <<page, preloaded, path, query, chunk, layout, modal>>
  BY DEF EndSession, document
<1>2. TypeOK'
  BY <1>1 DEF HostInv, TypeOK, NewSession
<1>3. RightDocument' /\ ReturnKept'
  BY <1>1, Texts DEF HostInv, RightDocument, ReturnKept, NewSession
<1>. QED BY <1>1, <1>2, <1>3 DEF HostInv, SectionsFailAlone, RefusalKept, GreetingKept

LEMMA HostStep == ASSUME HostInv, [Next]_vars PROVE HostInv'
<1>1. ASSUME NEW p \in Path, NEW error \in Error \cup {None}, Visit(p, error) PROVE HostInv'
  BY <1>1, VisitHost
<1>2. ASSUME NEW k \in Chunk, NEW outcome \in {"loaded", "failed"}, Settle(k, outcome)
      PROVE  HostInv'
  BY <1>2, SettleHost
<1>3. ASSUME NEW p \in Path, Follow(p) PROVE HostInv'
  BY <1>3, FollowHost
<1>4. ASSUME NEW error \in ServerError, CallbackRefuses(error) PROVE HostInv'
  BY <1>4, CallbackRefusesHost
<1>5. Reload \/ TryAgain => HostInv'
  BY ReloadHost DEF TryAgain
<1>6. CloseWelcome \/ SignOut \/ SignIn \/ CallbackSignsIn \/ EndSession => HostInv'
  BY CloseWelcomeHost, SignOutHost, SignInHost, CallbackSignsInHost, EndSessionHost
<1>7. ASSUME UNCHANGED vars PROVE HostInv'
  <2>1. UNCHANGED <<session, page, preloaded, path, query, chunk, layout, modal, seen, asked,
                    refusal, greeted>>
    BY <1>7 DEF vars, document, history
  <2>2. TypeOK'
    <3>1. TypeOK
      BY DEF HostInv
    <3>2. /\ session' \in [user : BOOLEAN, pending : Path \cup {None}]
          /\ query' \in [error : Error \cup {None}, returnTo : Path \cup {None}]
          /\ chunk' \in [Chunk -> {"none", "loading", "loaded", "failed"}]
      BY <2>1, <3>1 DEF TypeOK
    <3>. QED BY <2>1, <3>1, <3>2 DEF TypeOK
  <2>3. SectionsFailAlone' /\ RefusalKept' /\ GreetingKept'
    BY <2>1 DEF HostInv, SectionsFailAlone, RefusalKept, GreetingKept
  <2>4. RightDocument' /\ ReturnKept'
    BY <2>1 DEF HostInv, RightDocument, ReturnKept
  <2>. QED BY <2>2, <2>3, <2>4 DEF HostInv
<1>. QED BY <1>1, <1>2, <1>3, <1>4, <1>5, <1>6, <1>7 DEF Next

-----------------------------------------------------------------------------
(* The inductive invariant holds in every document a teacher can come to, by   *)
(* whatever links, addresses, reloads and failed fetches.                      *)
THEOREM HostInvariant == Spec => []HostInv
  BY InitHost, HostStep, PTL DEF Spec

(* Every variable holds values of its kind, and no page but the login page has *)
(* a query (the documents of page.go, the routes of App.tsx).                  *)
THEOREM HostTypeOK == Spec => []TypeOK
  BY HostInvariant, PTL DEF HostInv

(* However many remotes cannot be fetched, the page goes blank only for a      *)
(* chunk of the host's own (App.tsx, the ErrorBoundary of every section).      *)
THEOREM SectionsAlone == Spec => []SectionsFailAlone
  BY HostInvariant, PTL DEF HostInv

(* RootLayout is mounted only in a teacher's document: the routes of App.tsx   *)
(* may do without a guard, whatever sections are configured.                   *)
THEOREM LayoutIsForTeachers == Spec => []LayoutKnowsTheTeacher
<1>1. HostInv => LayoutKnowsTheTeacher
  BY DEF HostInv, RightDocument, LayoutKnowsTheTeacher
<1>. QED BY <1>1, HostInvariant, PTL

(* The login page explains a refusal by the message of the server's own code,  *)
(* through every reload (LoginView.tsx against auth.go's loginErr constants).  *)
THEOREM RefusalsExplained == Spec => []ExplainsTheRefusal
<1>1. HostInv => ExplainsTheRefusal
  BY DEF HostInv, TypeOK, RefusalKept, ExplainsTheRefusal, LoginError, ToLoginErrorCode,
         LoginErrors, ServerError
<1>. QED BY <1>1, HostInvariant, PTL

(* The welcome closed with local storage at hand is never shown again          *)
(* (WelcomeModal.tsx).                                                         *)
THEOREM WelcomedOnce == Spec => []WelcomeOnce
<1>1. HostInv => WelcomeOnce
  BY DEF HostInv, GreetingKept, WelcomeOnce
<1>. QED BY <1>1, HostInvariant, PTL

(* The callback that signs in makes the document of the page asked for, and    *)
(* no other step leaves Edupass for a teacher's document.                      *)
LEMMA ReturnStep ==
  ASSUME HostInv, [Next]_vars, page = "edupass", page' = "app", preloaded'.user = "User"
  PROVE  path' = Target(asked)
<1>1. path = "/login" /\ ~session.user
  BY DEF HostInv, RightDocument
<1>2. PreloadedState(FALSE).user # "User"
  BY DEF PreloadedState
<1>3. ASSUME NEW p \in Path, NEW q \in Query, Get(p, q, session.user), q.returnTo # "/login"
      PROVE  FALSE
  <2>1. Get(p, q, FALSE)
    BY <1>1, <1>3, Kept
  <2>. QED BY <1>2, <1>3, <2>1, StrangerGets DEF Starts
<1>4. ASSUME NEW p \in Path, NEW error \in Error \cup {None}, Visit(p, error) PROVE FALSE
  <2>1. LoginQuery(error, None) \in Query /\ LoginQuery(error, None).returnTo # "/login"
    BY Texts DEF LoginQuery, Query
  <2>. QED BY <1>3, <1>4, <2>1 DEF Visit
<1>5. ASSUME NEW error \in ServerError, CallbackRefuses(error) PROVE FALSE
  <2>. DEFINE to == IF session.pending = None THEN "/" ELSE session.pending
  <2>1. LoginQuery(error, to) \in Query /\ LoginQuery(error, to).returnTo # "/login"
    BY Kept DEF LoginQuery, Query, Error, Path
  <2>2. Get("/login", LoginQuery(error, to), session.user)
    BY <1>5 DEF CallbackRefuses
  <2>. QED BY <1>3, <2>1, <2>2, Texts
<1>6. ASSUME CallbackSignsIn PROVE path' = Target(asked)
  <2>1. /\ Get(session.pending, NoQuery, TRUE) /\ session.pending = Target(asked)
        /\ session.pending \in Path \ {"/login"}
    BY <1>6, Kept DEF CallbackSignsIn, HostInv, ReturnKept
  <2>. QED BY <2>1, Texts, TeacherGets
<1>7. ~Reload /\ ~TryAgain /\ ~CloseWelcome /\ ~SignOut /\ ~SignIn
  BY DEF Reload, TryAgain, Shown, CloseWelcome, SignOut, SignIn
<1>8. ~EndSession /\ ~(UNCHANGED vars)
  BY DEF EndSession, vars, document
<1>9. \A k \in Chunk, outcome \in {"loaded", "failed"} : ~Settle(k, outcome)
  BY DEF Settle
<1>10. \A p \in Path : ~Follow(p)
  BY DEF Follow, Links, Shown
<1>. QED BY <1>4, <1>5, <1>6, <1>7, <1>8, <1>9, <1>10 DEF Next

(* Signing in ends on the page the teacher was turned away from, after any     *)
(* number of refusals and reloads, whatever pages there are.                   *)
THEOREM ReturnsAsAsked == Spec => ReturnsWhereAsked
<1>1. HostInv /\ [Next]_vars
        => [page = "edupass" /\ page' = "app" /\ preloaded'.user = "User"
              => path' = IF asked = None THEN "/" ELSE asked]_vars
  BY ReturnStep DEF Target
<1>. QED BY <1>1, HostInvariant, PTL DEF Spec, ReturnsWhereAsked
=============================================================================
