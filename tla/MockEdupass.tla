----------------------------- MODULE MockEdupass -----------------------------
(***************************************************************************)
(* The mock Edupass, apps/mock-edupass/src, and the Teacher Workspace that *)
(* signs a developer in with it from one browser.                          *)
(*                                                                         *)
(* Everything the mock keeps is in memory and dies with it; its signing    *)
(* key too is made anew at every boot.  The authorization code flow is     *)
(* oidc-provider's, and Teacher Workspace is handler/auth.go and go-oidc:  *)
(* of both, what bears on the mock.  A handler of Teacher Workspace calls  *)
(* the mock twice, and the mock may restart before, between and after.     *)
(***************************************************************************)
EXTENDS EdupassAccounts, FiniteSets

CONSTANTS
  Env,          \* environments the mock may be given
  Client,       \* what Teacher Workspace may authenticate with
  Asked,        \* values of the account parameter, None when it is absent
  MaxLogins, MaxBoots,
  None, Unreadable

(***************************************************************************)
(* A setting is a text, a sequence of characters: a secret's characters,   *)
(* and newlines; <<>> is an unset or empty one.  A certificate is a kind   *)
(* of PEM file.  A _FILE setting is None, or what reading the file gives.  *)
(***************************************************************************)
Newline == "newline"
Method == {"client_secret_post", "private_key_jwt"}
Prompt == {"login", "consent"}
Failure == {"no pending login", "state mismatch", "unreachable", "invalid_client", "invalid_grant",
            "unknown key", "no cesEmail", "groups"}

ASSUME EnvAssumption ==
  \A env \in Env :
    /\ env.identity \in BOOLEAN            \* are URL, ID and REDIRECT_URI all set
    /\ env.method \in Method \cup {"other"}
    /\ env.secret \in Seq(STRING)
    /\ env.secretFile \in Seq(STRING) \cup {None, Unreadable}
    /\ env.certificate \in STRING \cup {None}
    /\ env.certificateFile \in STRING \cup {None, Unreadable}

\* Teacher Workspace refuses to start without a secret or a key.
ASSUME ClientAssumption == Client \subseteq [method : Method, proof : Seq(STRING) \ {<<>>}]

ASSUME AskedAssumption == None \notin Account /\ Account \cap Asked # {}
ASSUME BoundsAssumption == MaxLogins \in Nat /\ MaxBoots \in Nat
ASSUME NoneIsNoValue == None \notin Prompt \cup Failure /\ None \notin [method : Method, proof : Seq(STRING)]

VARIABLES
  env,          \* the environment of the mock
  client,       \* the authentication of Teacher Workspace
  mock,         \* "down", "exited", or "up"
  boot,         \* how often it started; names its signing key
  registered,   \* the client's authentication
  opSession,    \* the mock's session with the browser: its account and grant
  interaction,  \* what it asks of the browser, and for which login
  codes,        \* authorization codes it would exchange
  pending,      \* Teacher Workspace's pending login
  callback,     \* the handler of a callback, between its calls
  callbacks,    \* the callback URLs in the browser's history
  knownKeys,    \* the keys go-oidc has fetched
  logins,       \* the logins begun: the account asked for, the boot
  result        \* the last outcome: the login, and its account or why it failed

mockVars == <<env, client, mock, boot, registered, opSession, interaction, codes>>
twVars == <<pending, callback, knownKeys, result>>
vars == <<mockVars, twVars, callbacks, logins>>

-----------------------------------------------------------------------------
(***************************************************************************)
(* loadConfig.                                                             *)
(***************************************************************************)
\* A bug: the file is taken with the newline that ends it.
StripNothing(text) == text

Strip(text) ==
  LET ends == {0} \cup {i \in DOMAIN text : text[i] # Newline}
  IN  SubSeq(text, 1, CHOOSE i \in ends : \A j \in ends : j <= i)

ClientSecret(e) == IF e.secretFile = None THEN e.secret ELSE Strip(e.secretFile)
Certificate(e) == IF e.certificateFile = None THEN e.certificate ELSE e.certificateFile

SecretIsGiven(e) ==
  /\ e.secret = <<>> \/ e.secretFile = None
  /\ e.secretFile # Unreadable
  /\ ClientSecret(e) # <<>>

\* An empty file, a private key, no X.509 certificate, one of another key type,
\* or one whose time is not now, are refused.
BadCertificate == {"empty", "private key", "malformed", "elliptic curve", "not yet valid", "expired"}

\* A bug: a certificate is taken whatever its dates.
CertificateIsGivenUndated(e) ==
  /\ e.certificate = None \/ e.certificateFile = None
  /\ Certificate(e) \notin (BadCertificate \ {"expired", "not yet valid"}) \cup {None, Unreadable}

CertificateIsGiven(e) ==
  /\ e.certificate = None \/ e.certificateFile = None
  /\ Certificate(e) \notin BadCertificate \cup {None, Unreadable}

Accepts(e) ==
  /\ e.identity
  /\ \/ e.method = "client_secret_post" /\ SecretIsGiven(e)
     \/ e.method = "private_key_jwt" /\ CertificateIsGiven(e)

\* client_id apart, the registration is the method and what proves the client:
\* a secret, or the certificate whose key signs and whose thumbprint is named.
Registration(e) ==
  IF e.method = "client_secret_post"
  THEN [method |-> e.method, proof |-> ClientSecret(e)]
  ELSE [method |-> e.method, proof |-> <<Certificate(e)>>]

NoSession == [account |-> None, grant |-> FALSE]
NoInteraction == [prompt |-> None, login |-> 0]

Init ==
  /\ env \in Env /\ client \in Client
  /\ mock = "down" /\ boot = 0 /\ registered = None
  /\ opSession = NoSession /\ interaction = NoInteraction /\ codes = {}
  /\ pending = 0 /\ callback = None /\ callbacks = {} /\ knownKeys = {}
  /\ logins = <<>> /\ result = None

\* index.ts: exits with the error, or listens.
Start ==
  /\ mock = "down" /\ boot < MaxBoots
  /\ boot' = boot + 1
  /\ \/ Accepts(env) /\ mock' = "up" /\ registered' = Registration(env)
     \/ ~Accepts(env) /\ mock' = "exited" /\ UNCHANGED registered
  /\ UNCHANGED <<env, client, opSession, interaction, codes, twVars, callbacks, logins>>

\* Its adapter is a map in memory; the browser keeps cookies that name nothing.
Stop ==
  /\ mock = "up"
  /\ mock' = "down" /\ registered' = None
  /\ opSession' = NoSession /\ interaction' = NoInteraction /\ codes' = {}
  /\ UNCHANGED <<env, client, boot, twVars, callbacks, logins>>

-----------------------------------------------------------------------------
(***************************************************************************)
(* authEdupass starts login number n, in the development environment, and  *)
(* the browser follows to /authorize.  prompt=login goes with the account. *)
(***************************************************************************)
\* A bug: the account is passed on without prompt=login.
PromptsLoginNever(n) == FALSE

PromptsLogin(n) == logins'[n].asked # None

\* oidc-provider: what is left to ask of the browser before a code is issued.
PromptFor(session) ==
  IF session.account = None THEN "login" ELSE IF ~session.grant THEN "consent" ELSE "none"

Proceed(n, prompt) ==
  IF prompt = "none"
  THEN LET code == [login |-> n, account |-> opSession'.account, issued |-> boot]
       IN  /\ codes' = codes \cup {code}
           /\ callbacks' = callbacks \cup {code}
           /\ interaction' = NoInteraction
  ELSE /\ interaction' = [prompt |-> prompt, login |-> n]
       /\ UNCHANGED <<codes, callbacks>>

AuthEdupass(account) ==
  /\ Len(logins) < MaxLogins
  /\ UNCHANGED opSession
  /\ logins' = Append(logins, [asked |-> account, boot |-> boot, before |-> opSession.account])
  /\ LET n == Len(logins) + 1
     IN  /\ pending' = n
         /\ \/ mock = "up" /\ Proceed(n, IF PromptsLogin(n) THEN "login" ELSE PromptFor(opSession))
            \/ mock # "up" /\ UNCHANGED <<interaction, codes, callbacks>>
  /\ UNCHANGED <<env, client, mock, boot, registered, callback, knownKeys, result>>

(***************************************************************************)
(* GET /interaction/:uid.                                                  *)
(***************************************************************************)
\* accounts.find for one that is asked for, else the first; None: it throws.
RequestedAccount(asked) == IF asked = None THEN 1 ELSE IF asked \in Account THEN asked ELSE None

\* The grant goes with the account it was given for.
FinishLogin ==
  /\ interaction.prompt = "login"
  /\ LET account == RequestedAccount(logins[interaction.login].asked)
         session == IF account = opSession.account THEN opSession
                    ELSE [account |-> account, grant |-> FALSE]
     IN  /\ account # None
         /\ opSession' = session
         /\ Proceed(interaction.login, PromptFor(session))
  /\ UNCHANGED <<env, client, mock, boot, registered, twVars, logins>>

UnknownAccount ==
  /\ interaction.prompt = "login"
  /\ RequestedAccount(logins[interaction.login].asked) = None
  /\ interaction' = NoInteraction
  /\ UNCHANGED <<env, client, mock, boot, registered, opSession, codes, twVars, callbacks, logins>>

FinishConsent ==
  /\ interaction.prompt = "consent"
  /\ opSession' = [opSession EXCEPT !.grant = TRUE]
  /\ Proceed(interaction.login, PromptFor(opSession'))
  /\ UNCHANGED <<env, client, mock, boot, registered, twVars, logins>>

\* The code's time, or the session's, runs out.
ExpireCode ==
  /\ \E code \in codes : codes' = codes \ {code}
  /\ UNCHANGED <<env, client, mock, boot, registered, opSession, interaction, twVars, callbacks, logins>>

ExpireSession ==
  /\ opSession.account # None /\ interaction = NoInteraction
  /\ opSession' = NoSession
  /\ UNCHANGED <<env, client, mock, boot, registered, interaction, codes, twVars, callbacks, logins>>

-----------------------------------------------------------------------------
(***************************************************************************)
(* authEdupassCallback, and the mock's token endpoint and keys.            *)
(***************************************************************************)
Fail(n, reason) == result' = [login |-> n, account |-> None, reason |-> reason]

\* The browser is sent to the callback, or goes back to it: a callback takes
\* the pending login.
Callback(code) ==
  /\ callback = None /\ code \in callbacks
  /\ pending' = 0
  /\ \/ /\ pending = code.login
        /\ callback' = [code |-> code, token |-> None]
        /\ UNCHANGED result
     \/ /\ pending # code.login
        /\ Fail(code.login, IF pending = 0 THEN "no pending login" ELSE "state mismatch")
        /\ UNCHANGED callback
  /\ UNCHANGED <<mockVars, callbacks, knownKeys, logins>>

Authenticated(c) == c = registered

\* POST /token: a code is exchanged once, by the client that is registered.
Exchange ==
  /\ callback # None /\ callback.token = None
  /\ LET code == callback.code IN
     \/ /\ mock = "up" /\ Authenticated(client) /\ code \in codes
        /\ codes' = codes \ {code}
        /\ callback' = [callback EXCEPT !.token = [account |-> code.account, key |-> boot]]
        /\ UNCHANGED result
     \/ /\ \/ mock # "up" /\ Fail(code.login, "unreachable")
           \/ mock = "up" /\ ~Authenticated(client) /\ Fail(code.login, "invalid_client")
           \/ /\ mock = "up" /\ Authenticated(client) /\ code \notin codes
              /\ Fail(code.login, "invalid_grant")
        /\ callback' = None
        /\ UNCHANGED codes
  /\ UNCHANGED <<env, client, mock, boot, registered, opSession, interaction, pending, callbacks, knownKeys, logins>>

\* A bug: the keys are fetched once and kept.
FetchedKeysOnce(key) == IF knownKeys = {} /\ mock = "up" THEN {boot} ELSE knownKeys

\* GET /jwks, for a key that is not known yet, and the checks of the claims; on
\* the groups, which are EdupassLogin's, a user is refused or not.
FetchedKeys(key) ==
  IF key \in knownKeys THEN knownKeys ELSE IF mock = "up" THEN {boot} ELSE knownKeys

\* findAccount: what the ID token claims of an account, as far as it is checked.
ClaimsEmail(account) == accounts[account].cesEmail

Verify ==
  /\ callback # None /\ callback.token # None
  /\ callback' = None
  /\ LET n == callback.code.login
         token == callback.token
     IN  /\ knownKeys' = FetchedKeys(token.key)
         /\ \/ /\ token.key \in knownKeys' /\ ClaimsEmail(token.account)
               /\ result' = [login |-> n, account |-> token.account, reason |-> None]
            \/ token.key \in knownKeys' /\ ClaimsEmail(token.account) /\ Fail(n, "groups")
            \/ token.key \in knownKeys' /\ ~ClaimsEmail(token.account) /\ Fail(n, "no cesEmail")
            \/ token.key \notin knownKeys' /\ Fail(n, "unknown key")
  /\ UNCHANGED <<mockVars, pending, callbacks, logins>>

Next ==
  \/ Start \/ Stop
  \/ \E account \in Asked : AuthEdupass(account)
  \/ FinishLogin \/ UnknownAccount \/ FinishConsent \/ ExpireCode \/ ExpireSession
  \/ \E code \in callbacks : Callback(code)
  \/ Exchange \/ Verify

Spec == Init /\ [][Next]_vars

-----------------------------------------------------------------------------
Code == [login : 1..MaxLogins, account : Account, issued : 1..MaxBoots]
Token == [account : Account, key : 1..MaxBoots]

\* Every variable holds values of its kind; what is registered can prove a
\* client, and a session whose account is not known has no grant.
TypeOK ==
  /\ mock \in {"down", "exited", "up"}
  /\ boot \in 0..MaxBoots
  /\ mock = "up" <=> registered # None
  /\ registered # None => /\ registered.method \in Method
                          /\ registered.proof # <<>>
                          /\ registered.method = "private_key_jwt" =>
                               registered.proof[1] \notin BadCertificate
  /\ opSession \in [account : Account \cup {None}, grant : BOOLEAN]
  /\ opSession.grant => opSession.account # None
  /\ interaction \in {NoInteraction} \cup [prompt : Prompt, login : 1..Len(logins)]
  /\ codes \subseteq callbacks /\ callbacks \subseteq Code
  /\ pending \in 0..Len(logins)
  /\ callback = None \/ callback \in [code : callbacks, token : Token \cup {None}]
  /\ knownKeys \subseteq 1..boot
  /\ result = None \/ result \in [login : 1..Len(logins), account : Account \cup {None}, reason : Failure \cup {None}]

\* Whom a login means: the account asked for, else the one that the mock
\* remembered when it began, else the first.
Meant(login) ==
  IF login.asked # None THEN login.asked ELSE IF login.before # None THEN login.before ELSE 1

\* A developer who asks for an account signs in as that one or not at all,
\* whoever the mock remembers (auth.go:140); one who does not ask signs in as
\* the one it remembers, or as the first.
SignsInAsAsked ==
  result # None /\ result.account # None => result.account = Meant(logins[result.login])

\* Is the file the secret, and any number of newlines after it?
Holds(file, secret) ==
  /\ file \notin {None, Unreadable}
  /\ secret[Len(secret)] # Newline
  /\ Len(secret) <= Len(file)
  /\ \A i \in DOMAIN file : file[i] = IF i <= Len(secret) THEN secret[i] ELSE Newline

\* Does c prove what the environment e says of it?
Fits(c, e) ==
  /\ c.method = e.method
  /\ c.method = "client_secret_post" => c.proof = e.secret \/ Holds(e.secretFile, c.proof)
  /\ c.method = "private_key_jwt" =>
       \E pem \in {e.certificate, e.certificateFile} \ {None, Unreadable} : c.proof = <<pem>>

\* The mock turns away only a Teacher Workspace that authenticates otherwise
\* than its environment says, and signs in none such, across restarts.
ClientIsTheRegistered ==
  result # None =>
    /\ result.reason = "invalid_client" => ~Fits(client, env)
    /\ result.account # None => Fits(client, env)

\* The mock's key is another after every start (README.md, "Signing Keys"), yet
\* a login is refused for its key only if the mock stopped since it began.
RestartsAreRecovered ==
  result # None /\ result.reason = "unknown key" =>
    mock # "up" \/ logins[result.login].boot < boot

-----------------------------------------------------------------------------
\* The inductive invariant behind these properties (proved in MockEdupassProofs).
LoginsBegan ==
  /\ logins \in Seq([asked : Asked, boot : 0..MaxBoots, before : Account \cup {None}])
  /\ Len(logins) <= MaxLogins
  /\ \A n \in DOMAIN logins : logins[n].boot <= boot

\* What is up was accepted, and only what is up has anything in memory.
UpAsConfigured ==
  /\ env \in Env /\ client \in Client
  /\ mock = "up" => boot > 0 /\ Accepts(env) /\ registered = Registration(env)
  /\ interaction # NoInteraction => mock = "up"

\* A login that asks for no account is sent to the login prompt only if nobody
\* is remembered, and to the consent prompt only as whom it means.
PromptedAsMeant ==
  LET login == logins[interaction.login]
  IN  /\ interaction.prompt = "login" => login.asked # None \/ login.before = None
      /\ interaction.prompt = "consent" => opSession.account = Meant(login)

\* A code and the token for it are for whom the login means; the token is signed
\* with a key no older than the login, for a client that is as configured.
IssuedAsMeant ==
  /\ \A code \in callbacks :
       code.login \in DOMAIN logins /\ code.account = Meant(logins[code.login])
  /\ callback # None /\ callback.token # None =>
       /\ callback.token.account = callback.code.account
       /\ callback.token.key \in logins[callback.code.login].boot .. boot
       /\ Fits(client, env)

MockInv ==
  /\ TypeOK /\ LoginsBegan /\ UpAsConfigured /\ PromptedAsMeant /\ IssuedAsMeant
  /\ SignsInAsAsked /\ ClientIsTheRegistered /\ RestartsAreRecovered
=============================================================================
