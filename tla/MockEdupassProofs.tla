-------------------------- MODULE MockEdupassProofs --------------------------
(***************************************************************************)
(* Safety of MockEdupass for any environments, clients, account parameters *)
(* and numbers of logins and boots.  MockInv is inductive: it follows an   *)
(* account from the login that asks for it, through the prompts, into the  *)
(* code and the token, and a signing key from its boot to the token.       *)
(***************************************************************************)
EXTENDS MockEdupass, SequenceTheorems, WellFoundedInduction, TLAPS

LEMMA FirstAccount == 1 \in Account /\ Account \subseteq Nat
  BY DEF Account, accounts

-----------------------------------------------------------------------------
(* A set of numbers with an upper bound has a greatest one. *)
LEMMA Greatest ==
  ASSUME NEW n \in Nat, NEW T, T \subseteq 0..n, T # {}
  PROVE  \E i \in T : \A j \in T : j <= i
<1> DEFINE R == {ss \in Nat \X Nat : ss[1] < ss[2]}
           U == {k \in 0..n : n - k \in T}
<1>1. IsWellFoundedOn(R, Nat)
  BY NatLessThanWellFounded DEF OpToRel
<1>2. U \subseteq Nat /\ U # {}
  <2>1. PICK t \in T : TRUE
    OBVIOUS
  <2>2. n - t \in 0..n /\ n - (n - t) = t
    BY <2>1
  <2> QED BY <2>1, <2>2
<1> HIDE DEF R, U
<1>3. PICK k \in U : \A j \in U : <<j, k>> \notin R
  BY <1>1, <1>2, WFMin
<1>4. \A j \in U : k <= j
  <2>1. \A i \in U, j \in U : <<j, i>> \notin R => i <= j
    BY <1>2 DEF R
  <2> QED BY <1>3, <2>1
<1>5. \A j \in T : n - j \in U
  BY DEF U
<1>6. n - k \in T /\ \A j \in T : j <= n - k
  <2>1. n - k \in T /\ k \in 0..n
    BY DEF U
  <2>2. ASSUME NEW j \in T PROVE j <= n - k
    <3>1. k <= n - j /\ j \in 0..n
      BY <1>4, <1>5
    <3> QED BY <3>1, <2>1
  <2> QED BY <2>1, <2>2
<1> QED BY <1>6

(* A file of a setting is the setting, and newlines after it: Strip finds the  *)
(* one text that the file holds (config.ts:51).                   *)
LEMMA StripOfFile ==
  ASSUME NEW text \in Seq(STRING)
  PROVE  /\ Strip(text) \in Seq(STRING)
         /\ text \notin {None, Unreadable} /\ Strip(text) # <<>> => Holds(text, Strip(text))
         /\ \A secret \in Seq(STRING) \ {<<>>} : Holds(text, secret) => Strip(text) = secret
<1> DEFINE ends == {0} \cup {i \in DOMAIN text : text[i] # Newline}
           last == CHOOSE i \in ends : \A j \in ends : j <= i
<1>1. ends \subseteq 0..Len(text) /\ ends # {}
  OBVIOUS
<1>2. last \in ends /\ \A j \in ends : j <= last
  <2>1. Len(text) \in Nat
    OBVIOUS
  <2> HIDE DEF ends
  <2>2. \E i \in ends : \A j \in ends : j <= i
    BY <1>1, <2>1, Greatest
  <2> QED BY <2>2
<1>3. Strip(text) = SubSeq(text, 1, last)
  BY DEF Strip
<1> HIDE DEF last
<1>4. last \in 0..Len(text)
  BY <1>1, <1>2
<1>5. /\ Strip(text) \in Seq(STRING) /\ Len(Strip(text)) = last
      /\ \A i \in 1..last : Strip(text)[i] = text[i]
  BY <1>3, <1>4
<1>6. \A i \in (last + 1)..Len(text) : text[i] = Newline
  BY <1>2, <1>4
<1>7. ASSUME text \notin {None, Unreadable}, Strip(text) # <<>> PROVE Holds(text, Strip(text))
  <2>1. last > 0
    BY <1>5, <1>4, <1>7, EmptySeq
  <2>2. text[last] # Newline
    BY <1>2, <2>1
  <2> QED BY <1>4, <1>5, <1>6, <1>7, <2>1, <2>2 DEF Holds
<1>8. ASSUME NEW secret \in Seq(STRING) \ {<<>>}, Holds(text, secret) PROVE Strip(text) = secret
  <2> DEFINE n == Len(secret)
  <2>1. n \in 1..Len(text) /\ secret[n] # Newline
        /\ \A i \in 1..Len(text) : text[i] = IF i <= n THEN secret[i] ELSE Newline
    BY <1>8, EmptySeq DEF Holds
  <2>2. n \in ends
    BY <2>1
  <2>3. \A i \in ends : i <= n
    BY <2>1
  <2> HIDE DEF n
  <2>4. last = n
    BY <1>2, <1>4, <2>1, <2>2, <2>3
  <2> HIDE DEF ends
  <2>5. \A i \in 1..last : Strip(text)[i] = secret[i]
    BY <1>4, <1>5, <2>1, <2>4
  <2> QED BY <1>5, <2>4, <2>5, SeqEqual DEF n
<1> QED BY <1>5, <1>7, <1>8

(* What the mock registers can prove a client, and is registered. *)
LEMMA RegistrationType ==
  ASSUME NEW e \in Env, Accepts(e)
  PROVE  /\ Registration(e) \in [method : Method, proof : Seq(STRING)]
         /\ Registration(e) # None
         /\ Registration(e).proof # <<>>
         /\ Registration(e).method = "private_key_jwt" =>
              Registration(e).proof[1] \notin BadCertificate
<1>1. CASE e.method = "client_secret_post"
  <2>1. SecretIsGiven(e)
    BY <1>1 DEF Accepts
  <2>2. ClientSecret(e) \in Seq(STRING) /\ ClientSecret(e) # <<>>
    BY <2>1, EnvAssumption, StripOfFile DEF SecretIsGiven, ClientSecret
  <2> QED BY <1>1, <2>2, NoneIsNoValue DEF Registration, Method
<1>2. CASE e.method # "client_secret_post"
  <2>1. e.method = "private_key_jwt" /\ CertificateIsGiven(e)
    BY <1>2 DEF Accepts
  <2>2. Certificate(e) \in STRING /\ Certificate(e) \notin BadCertificate
    BY <2>1, EnvAssumption DEF CertificateIsGiven, Certificate
  <2>3. Registration(e) = [method |-> "private_key_jwt", proof |-> <<Certificate(e)>>]
    BY <1>2, <2>1 DEF Registration
  <2>4. <<Certificate(e)>> \in Seq(STRING) /\ <<Certificate(e)>> # <<>>
        /\ <<Certificate(e)>>[1] = Certificate(e)
    BY <2>2
  <2>5. Registration(e) \in [method : Method, proof : Seq(STRING)]
    BY <2>3, <2>4 DEF Method
  <2>6. Registration(e) # None
    BY <2>5, NoneIsNoValue
  <2>7. Registration(e).proof = <<Certificate(e)>>
    BY <2>3
  <2> QED BY <2>2, <2>4, <2>5, <2>6, <2>7
<1> QED BY <1>1, <1>2

(* Who fits the environment, read off its settings, is who is registered. *)
LEMMA FitsTheRegistered ==
  ASSUME NEW e \in Env, NEW c \in Client, Accepts(e)
  PROVE  c = Registration(e) <=> Fits(c, e)
<1>1. c \in [method : Method, proof : Seq(STRING) \ {<<>>}]
  BY ClientAssumption
<1>2. CASE e.method = "client_secret_post"
  <2>1. SecretIsGiven(e)
    BY <1>2 DEF Accepts
  <2>2. Registration(e) = [method |-> "client_secret_post", proof |-> ClientSecret(e)]
    BY <1>2 DEF Registration
  <2>3. c = Registration(e) <=> c.method = "client_secret_post" /\ c.proof = ClientSecret(e)
    BY <1>1, <2>2
  <2>4. c.proof = ClientSecret(e) <=> c.proof = e.secret \/ Holds(e.secretFile, c.proof)
    <3>1. CASE e.secretFile = None
      BY <3>1 DEF ClientSecret, Holds
    <3>2. CASE e.secretFile # None
      <4>1. /\ e.secret = <<>> /\ e.secretFile \in Seq(STRING)
            /\ e.secretFile \notin {None, Unreadable}
            /\ ClientSecret(e) = Strip(e.secretFile) /\ Strip(e.secretFile) # <<>>
        BY <2>1, <3>2, EnvAssumption DEF SecretIsGiven, ClientSecret
      <4>2. c.proof \in Seq(STRING) \ {<<>>}
        BY <1>1
      <4>3. c.proof = Strip(e.secretFile) => Holds(e.secretFile, c.proof)
        BY <4>1, StripOfFile
      <4>4. Holds(e.secretFile, c.proof) => Strip(e.secretFile) = c.proof
        BY <4>1, <4>2, StripOfFile
      <4> QED BY <4>1, <4>2, <4>3, <4>4
    <3> QED BY <3>1, <3>2
  <2> QED BY <1>2, <2>3, <2>4 DEF Fits
<1>3. CASE e.method # "client_secret_post"
  <2>1. e.method = "private_key_jwt" /\ CertificateIsGiven(e)
    BY <1>3 DEF Accepts
  <2>2. Registration(e) = [method |-> "private_key_jwt", proof |-> <<Certificate(e)>>]
    BY <1>3, <2>1 DEF Registration
  <2>3. {e.certificate, e.certificateFile} \ {None, Unreadable} = {Certificate(e)}
    BY <2>1 DEF CertificateIsGiven, Certificate
  <2>4. c = Registration(e) <=> c.method = "private_key_jwt" /\ c.proof = <<Certificate(e)>>
    BY <1>1, <2>2
  <2> QED BY <1>3, <2>1, <2>3, <2>4 DEF Fits
<1> QED BY <1>2, <1>3
-----------------------------------------------------------------------------
Login == [asked : Asked, boot : 0..MaxBoots, before : Account \cup {None}]

(* A login that begins changes nothing of those before it. *)
LEMMA LoginAppended ==
  ASSUME logins \in Seq(Login), NEW l \in Login, logins' = Append(logins, l)
  PROVE  /\ logins' \in Seq(Login) /\ Len(logins') = Len(logins) + 1
         /\ logins'[Len(logins) + 1] = l
         /\ \A n \in 1..Len(logins) : logins'[n] = logins[n]
  OBVIOUS

(* What is asked for, if it is anybody's, is an account. *)
LEMMA RequestedIsAccount ==
  ASSUME NEW asked, RequestedAccount(asked) # None
  PROVE  /\ RequestedAccount(asked) \in Account
         /\ RequestedAccount(asked) = IF asked = None THEN 1 ELSE asked
  BY FirstAccount DEF RequestedAccount

LEMMA NoneIsNoPrompt == None # "login" /\ None # "consent"
  BY NoneIsNoValue DEF Prompt

LEMMA NoneIsNoFailure == None # "invalid_client" /\ None # "unknown key"
  BY NoneIsNoValue DEF Failure

LEMMA InitMock == Init => MockInv
<1> SUFFICES ASSUME Init PROVE MockInv
  OBVIOUS
<1> USE DEF Init
<1>1. TypeOK
  BY BoundsAssumption, NoneIsNoValue DEF TypeOK, NoSession, NoInteraction
<1>2. LoginsBegan
  BY BoundsAssumption DEF LoginsBegan
<1>3. UpAsConfigured
  BY DEF UpAsConfigured
<1>4. PromptedAsMeant
  BY NoneIsNoPrompt DEF PromptedAsMeant, NoInteraction
<1>5. IssuedAsMeant
  BY DEF IssuedAsMeant
<1>6. SignsInAsAsked /\ ClientIsTheRegistered /\ RestartsAreRecovered
  BY DEF SignsInAsAsked, ClientIsTheRegistered, RestartsAreRecovered
<1> QED BY <1>1, <1>2, <1>3, <1>4, <1>5, <1>6 DEF MockInv

(* The facts of the invariant that the steps keep using. *)
LEMMA Types ==
  ASSUME MockInv
  PROVE  /\ boot \in Nat /\ logins \in Seq(Login)
         /\ \A n \in 1..Len(logins) : /\ logins[n] \in Login
                                      /\ logins[n].boot \in Nat /\ logins[n].boot <= boot
         /\ result # None => result.login \in 1..Len(logins)
<1>1. boot \in Nat /\ logins \in Seq(Login)
  BY BoundsAssumption DEF MockInv, TypeOK, LoginsBegan, Login
<1>2. \A n \in 1..Len(logins) : logins[n] \in Login
  BY <1>1
<1>3. \A n \in 1..Len(logins) : logins[n].boot \in Nat /\ logins[n].boot <= boot
  BY <1>1, <1>2, BoundsAssumption DEF MockInv, LoginsBegan, Login
<1>4. result # None => result.login \in 1..Len(logins)
  BY DEF MockInv, TypeOK
<1> QED BY <1>1, <1>2, <1>3, <1>4

(* A result stays right when the mock stops or starts, and when a login begins. *)
LEMMA ResultsKept ==
  ASSUME MockInv, UNCHANGED <<env, client, result>>,
         \A n \in 1..Len(logins) : logins'[n] = logins[n],
         \/ boot' = boot /\ mock' = mock
         \/ mock' # "up"
         \/ boot' = boot + 1
  PROVE  SignsInAsAsked' /\ ClientIsTheRegistered' /\ RestartsAreRecovered'
<1>1. result # None => logins'[result.login] = logins[result.login]
  BY Types
<1>2. SignsInAsAsked'
  BY <1>1 DEF MockInv, SignsInAsAsked, Meant
<1>3. ClientIsTheRegistered'
  BY DEF MockInv, ClientIsTheRegistered, Fits
<1>4. RestartsAreRecovered'
  <2>1. CASE result = None
    BY <2>1 DEF RestartsAreRecovered
  <2>2. CASE result # None
    <3>1. /\ boot \in Nat
          /\ logins[result.login].boot \in Nat /\ logins[result.login].boot <= boot
      BY <2>2, Types
    <3>2. ASSUME result.reason = "unknown key"
          PROVE  mock' # "up" \/ logins[result.login].boot < boot'
      <4>1. mock # "up" \/ logins[result.login].boot < boot
        BY <2>2, <3>2 DEF MockInv, RestartsAreRecovered
      <4>2. CASE boot' = boot /\ mock' = mock
        BY <4>1, <4>2
      <4>3. CASE boot' = boot + 1
        BY <3>1, <4>3
      <4> QED BY <4>2, <4>3
    <3> QED BY <1>1, <3>2 DEF RestartsAreRecovered
  <2> QED BY <2>1, <2>2
<1> QED BY <1>2, <1>3, <1>4

-----------------------------------------------------------------------------
LEMMA StartStep ==
  ASSUME MockInv, Start PROVE MockInv'
<1> USE DEF Start, twVars
<1>0. /\ boot \in 0..MaxBoots /\ boot < MaxBoots /\ boot' = boot + 1 /\ MaxBoots \in Nat
      /\ mock = "down" /\ env \in Env /\ client \in Client
      /\ interaction = NoInteraction
  BY BoundsAssumption DEF MockInv, TypeOK, UpAsConfigured
<1>1. \/ /\ Accepts(env) /\ mock' = "up" /\ registered' = Registration(env)
         /\ registered' # None
         /\ registered'.method \in Method /\ registered'.proof # <<>>
         /\ registered'.method = "private_key_jwt" => registered'.proof[1] \notin BadCertificate
      \/ mock' = "exited" /\ registered' = None
  <2>1. registered = None
    BY <1>0 DEF MockInv, TypeOK
  <2> QED BY <1>0, <2>1, RegistrationType
<1>2. TypeOK'
  <2>1. boot' \in 0..MaxBoots /\ knownKeys' \subseteq 1..boot'
    BY <1>0 DEF MockInv, TypeOK
  <2>2. UNCHANGED <<opSession, interaction, codes, callbacks, pending, callback, result, logins>>
    OBVIOUS
  <2> QED BY <1>1, <2>1, <2>2 DEF MockInv, TypeOK
<1>3. LoginsBegan'
  BY <1>0, Types DEF MockInv, LoginsBegan
<1>4. UpAsConfigured'
  BY <1>0, <1>1 DEF MockInv, UpAsConfigured
<1>5. PromptedAsMeant'
  BY DEF MockInv, PromptedAsMeant
<1>6. IssuedAsMeant'
  <2>1. \A n \in 1..Len(logins) : \A k \in logins[n].boot..boot : k \in logins'[n].boot..boot'
    BY <1>0, Types
  <2> QED BY <2>1 DEF MockInv, TypeOK, IssuedAsMeant, Code
<1>7. SignsInAsAsked' /\ ClientIsTheRegistered' /\ RestartsAreRecovered'
  BY ResultsKept
<1> QED BY <1>2, <1>3, <1>4, <1>5, <1>6, <1>7 DEF MockInv

LEMMA StopStep ==
  ASSUME MockInv, Stop PROVE MockInv'
<1> USE DEF Stop, twVars
<1>1. TypeOK'
  <2>1. UNCHANGED <<boot, callbacks, pending, callback, result, logins, knownKeys>>
    OBVIOUS
  <2>2. /\ mock' = "down" /\ registered' = None /\ codes' = {}
        /\ opSession' \in [account : Account \cup {None}, grant : BOOLEAN]
        /\ opSession'.grant => opSession'.account # None
        /\ interaction' = NoInteraction
    BY DEF NoSession
  <2> QED BY <2>1, <2>2 DEF MockInv, TypeOK
<1>2. LoginsBegan' /\ UpAsConfigured'
  BY DEF MockInv, LoginsBegan, UpAsConfigured
<1>3. PromptedAsMeant'
  BY NoneIsNoPrompt DEF PromptedAsMeant, NoInteraction
<1>4. IssuedAsMeant'
  BY DEF MockInv, IssuedAsMeant
<1>5. SignsInAsAsked' /\ ClientIsTheRegistered' /\ RestartsAreRecovered'
  BY ResultsKept
<1> QED BY <1>1, <1>2, <1>3, <1>4, <1>5 DEF MockInv

LEMMA UnknownAccountStep ==
  ASSUME MockInv, UnknownAccount PROVE MockInv'
<1> USE DEF UnknownAccount, twVars
<1>1. TypeOK'
  BY DEF MockInv, TypeOK
<1>2. LoginsBegan' /\ UpAsConfigured'
  BY DEF MockInv, LoginsBegan, UpAsConfigured
<1>3. PromptedAsMeant'
  BY NoneIsNoPrompt DEF PromptedAsMeant, NoInteraction
<1>4. IssuedAsMeant'
  BY DEF MockInv, IssuedAsMeant
<1>5. SignsInAsAsked' /\ ClientIsTheRegistered' /\ RestartsAreRecovered'
  BY ResultsKept
<1> QED BY <1>1, <1>2, <1>3, <1>4, <1>5 DEF MockInv

LEMMA ExpireCodeStep ==
  ASSUME MockInv, ExpireCode PROVE MockInv'
<1> USE DEF ExpireCode, twVars
<1>1. TypeOK'
  BY DEF MockInv, TypeOK
<1>2. LoginsBegan' /\ UpAsConfigured'
  BY DEF MockInv, LoginsBegan, UpAsConfigured
<1>3. PromptedAsMeant' /\ IssuedAsMeant'
  BY DEF MockInv, PromptedAsMeant, IssuedAsMeant
<1>4. SignsInAsAsked' /\ ClientIsTheRegistered' /\ RestartsAreRecovered'
  BY ResultsKept
<1> QED BY <1>1, <1>2, <1>3, <1>4 DEF MockInv

LEMMA ExpireSessionStep ==
  ASSUME MockInv, ExpireSession PROVE MockInv'
<1> USE DEF ExpireSession, twVars
<1>1. TypeOK'
  <2>1. /\ opSession' \in [account : Account \cup {None}, grant : BOOLEAN]
        /\ opSession'.grant => opSession'.account # None
    BY DEF NoSession
  <2> QED BY <2>1 DEF MockInv, TypeOK
<1>2. LoginsBegan' /\ UpAsConfigured'
  BY DEF MockInv, LoginsBegan, UpAsConfigured
<1>3. PromptedAsMeant'
  BY NoneIsNoPrompt DEF PromptedAsMeant, NoInteraction
<1>4. IssuedAsMeant'
  BY DEF MockInv, IssuedAsMeant
<1>5. SignsInAsAsked' /\ ClientIsTheRegistered' /\ RestartsAreRecovered'
  BY ResultsKept
<1> QED BY <1>1, <1>2, <1>3, <1>4, <1>5 DEF MockInv

-----------------------------------------------------------------------------
(* A login goes on with code and callback, or with a prompt, for whom it means. *)
LEMMA ProceedIsMeant ==
  ASSUME MockInv, NEW n \in 1..Len(logins'), NEW prompt \in Prompt \cup {"none"}, Proceed(n, prompt),
         n \in 1..MaxLogins, boot \in 1..MaxBoots,
         prompt = "none" => opSession'.account \in Account,
         prompt \in {"none", "consent"} => opSession'.account = Meant(logins'[n]),
         prompt = "login" => logins'[n].asked # None \/ logins'[n].before = None,
         \A c \in callbacks : c.login \in 1..Len(logins') /\ c.account = Meant(logins'[c.login])
  PROVE  /\ interaction' \in {NoInteraction} \cup [prompt : Prompt, login : 1..Len(logins')]
         /\ codes' \subseteq callbacks' /\ callbacks' \subseteq Code /\ callbacks \subseteq callbacks'
         /\ PromptedAsMeant'
         /\ \A c \in callbacks' : c.login \in 1..Len(logins') /\ c.account = Meant(logins'[c.login])
<1> DEFINE code == [login |-> n, account |-> opSession'.account, issued |-> boot]
<1>1. codes \subseteq callbacks /\ callbacks \subseteq Code
  BY DEF MockInv, TypeOK
<1>2. CASE prompt = "none"
  <2>1. /\ codes' = codes \cup {code} /\ callbacks' = callbacks \cup {code}
        /\ interaction' = NoInteraction
    BY <1>2 DEF Proceed
  <2>2. code \in Code /\ code.login = n /\ code.account = Meant(logins'[n])
    BY <1>2 DEF Code
  <2> HIDE DEF code
  <2>3. codes' \subseteq callbacks' /\ callbacks' \subseteq Code /\ callbacks \subseteq callbacks'
    BY <1>1, <2>1, <2>2
  <2>4. PromptedAsMeant'
    BY <2>1, NoneIsNoPrompt DEF PromptedAsMeant, NoInteraction
  <2>5. \A c \in callbacks' : c.login \in 1..Len(logins') /\ c.account = Meant(logins'[c.login])
    BY <2>1, <2>2
  <2> QED BY <2>1, <2>3, <2>4, <2>5
<1>3. CASE prompt # "none"
  <2>1. /\ interaction' = [prompt |-> prompt, login |-> n]
        /\ codes' = codes /\ callbacks' = callbacks
    BY <1>3 DEF Proceed
  <2>2. PromptedAsMeant'
    BY <2>1 DEF PromptedAsMeant
  <2> QED BY <1>1, <1>3, <2>1, <2>2
<1> QED BY <1>2, <1>3

(* AuthEdupass prompts for login whoever asks for an account (auth.go:140).   *)
LEMMA AuthEdupassStep ==
  ASSUME MockInv, NEW account \in Asked, AuthEdupass(account) PROVE MockInv'
<1> DEFINE l == [asked |-> account, boot |-> boot, before |-> opSession.account]
           n == Len(logins) + 1
           prompt == IF PromptsLogin(n) THEN "login" ELSE PromptFor(opSession)
<1>1. /\ UNCHANGED <<env, client, mock, boot, registered, callback, knownKeys, result, opSession>>
      /\ logins' = Append(logins, l) /\ pending' = n /\ Len(logins) < MaxLogins
      /\ \/ mock = "up" /\ Proceed(n, prompt)
         \/ mock # "up" /\ UNCHANGED <<interaction, codes, callbacks>>
  BY DEF AuthEdupass
<1>2. /\ boot \in 0..MaxBoots /\ logins \in Seq(Login) /\ Len(logins) \in Nat /\ MaxLogins \in Nat
      /\ opSession \in [account : Account \cup {None}, grant : BOOLEAN]
      /\ opSession.grant => opSession.account # None
  BY Types, BoundsAssumption DEF MockInv, TypeOK
<1>3. l \in Login
  BY <1>2 DEF Login
<1> HIDE DEF l
<1>4. /\ logins' \in Seq(Login) /\ Len(logins') = n
      /\ logins'[n] = l
      /\ \A m \in 1..Len(logins) : logins'[m] = logins[m]
  BY <1>1, <1>2, <1>3, LoginAppended
<1>5. LoginsBegan'
  <2>1. \A m \in 1..n : logins'[m].boot <= boot
    BY <1>2, <1>4, Types DEF l
  <2> QED BY <1>1, <1>2, <1>4, <2>1 DEF LoginsBegan, Login
<1>6. \A c \in callbacks : c.login \in 1..n /\ c.account = Meant(logins'[c.login])
  BY <1>2, <1>4 DEF MockInv, IssuedAsMeant
<1>7. /\ interaction' \in {NoInteraction} \cup [prompt : Prompt, login : 1..n]
      /\ codes' \subseteq callbacks' /\ callbacks' \subseteq Code /\ callbacks \subseteq callbacks'
      /\ PromptedAsMeant'
      /\ \A c \in callbacks' : c.login \in 1..n /\ c.account = Meant(logins'[c.login])
  <2>1. CASE mock = "up" /\ Proceed(n, prompt)
    <3>1. /\ n \in 1..Len(logins') /\ n \in 1..MaxLogins /\ boot \in 1..MaxBoots
          /\ \A c \in callbacks : c.login \in 1..Len(logins') /\ c.account = Meant(logins'[c.login])
      BY <1>1, <1>2, <1>4, <1>6, <2>1 DEF MockInv, UpAsConfigured
    <3>2. /\ prompt \in Prompt \cup {"none"}
          /\ prompt = "none" => opSession'.account \in Account
          /\ prompt \in {"none", "consent"} => opSession'.account = Meant(logins'[n])
          /\ prompt = "login" => logins'[n].asked # None \/ logins'[n].before = None
      <4>1. logins'[n].asked = account /\ logins'[n].before = opSession.account
        BY <1>4 DEF l
      <4> QED BY <1>1, <1>2, <4>1 DEF PromptsLogin, PromptFor, Prompt, Meant
    <3> HIDE DEF prompt
    <3> QED BY <1>4, <2>1, <3>1, <3>2, ProceedIsMeant
  <2>2. CASE mock # "up" /\ UNCHANGED <<interaction, codes, callbacks>>
    <3>1. interaction' = NoInteraction
      BY <2>2 DEF MockInv, UpAsConfigured
    <3>2. PromptedAsMeant'
      BY <3>1, NoneIsNoPrompt DEF PromptedAsMeant, NoInteraction
    <3>3. codes \subseteq callbacks /\ callbacks \subseteq Code
      BY DEF MockInv, TypeOK
    <3> QED BY <1>6, <2>2, <3>1, <3>2, <3>3
  <2> QED BY <1>1, <2>1, <2>2
<1>8. TypeOK'
  <2>1. interaction' \in {NoInteraction} \cup [prompt : Prompt, login : 1..Len(logins')]
    BY <1>4, <1>7
  <2>2. pending' \in 0..Len(logins')
    BY <1>1, <1>2, <1>4
  <2>3. callback' = None \/ callback' \in [code : callbacks', token : Token \cup {None}]
    BY <1>1, <1>7 DEF MockInv, TypeOK
  <2>4. result' = None \/ result' \in [login : 1..Len(logins'), account : Account \cup {None}, reason : Failure \cup {None}]
    <3>1. 1..Len(logins) \subseteq 1..Len(logins')
      BY <1>2, <1>4
    <3> QED BY <1>1, <3>1 DEF MockInv, TypeOK
  <2>5. /\ UNCHANGED <<mock, boot, registered, opSession, knownKeys>>
        /\ codes' \subseteq callbacks' /\ callbacks' \subseteq Code
    BY <1>1, <1>7
  <2> QED BY <2>1, <2>2, <2>3, <2>4, <2>5 DEF MockInv, TypeOK
<1>9. UpAsConfigured'
  <2>1. mock # "up" => interaction' = NoInteraction
    BY <1>1 DEF MockInv, UpAsConfigured
  <2> QED BY <1>1, <2>1 DEF MockInv, UpAsConfigured
<1>10. IssuedAsMeant'
  <2>1. \A c \in callbacks : c.login \in 1..Len(logins) /\ logins'[c.login] = logins[c.login]
    BY <1>2, <1>4 DEF MockInv, IssuedAsMeant
  <2>2. callback # None => callback.code \in callbacks
    BY DEF MockInv, TypeOK
  <2> QED BY <1>1, <1>4, <1>7, <2>1, <2>2 DEF MockInv, IssuedAsMeant, Fits
<1>11. SignsInAsAsked' /\ ClientIsTheRegistered' /\ RestartsAreRecovered'
  BY <1>1, <1>4, ResultsKept
<1> QED BY <1>5, <1>7, <1>8, <1>9, <1>10, <1>11 DEF MockInv

(* A prompt that is answered goes on with the session it leaves.               *)
LEMMA PromptAnswered ==
  ASSUME MockInv, NEW n \in 1..Len(logins), mock = "up",
         UNCHANGED <<env, client, mock, boot, registered, twVars, logins>>,
         Proceed(n, PromptFor(opSession')),
         opSession' \in [account : Account, grant : BOOLEAN],
         opSession'.account = Meant(logins[n])
  PROVE  MockInv'
<1> USE DEF twVars
<1>1. /\ opSession'.account # None /\ boot \in 1..MaxBoots /\ n \in 1..MaxLogins
      /\ Len(logins) \in Nat
  <2>1. opSession'.account # None
    BY AskedAssumption
  <2>2. boot \in 1..MaxBoots
    BY BoundsAssumption DEF MockInv, TypeOK, UpAsConfigured
  <2>3. Len(logins) \in Nat /\ Len(logins) <= MaxLogins
    BY Types DEF MockInv, LoginsBegan
  <2> QED BY <2>1, <2>2, <2>3, BoundsAssumption
<1>2. /\ interaction' \in {NoInteraction} \cup [prompt : Prompt, login : 1..Len(logins')]
      /\ codes' \subseteq callbacks' /\ callbacks' \subseteq Code /\ callbacks \subseteq callbacks'
      /\ PromptedAsMeant'
      /\ \A c \in callbacks' : c.login \in 1..Len(logins') /\ c.account = Meant(logins'[c.login])
  <2>1. PromptFor(opSession') \in {"consent", "none"}
    BY <1>1 DEF PromptFor
  <2>2. \A c \in callbacks : c.login \in 1..Len(logins') /\ c.account = Meant(logins'[c.login])
    BY <1>1, Types DEF MockInv, IssuedAsMeant
  <2>3. PromptFor(opSession') \in Prompt \cup {"none"}
    BY <2>1 DEF Prompt
  <2> QED BY <1>1, <2>1, <2>2, <2>3, ProceedIsMeant
<1>3. TypeOK'
  <2>1. callback' = None \/ callback' \in [code : callbacks', token : Token \cup {None}]
    BY <1>2 DEF MockInv, TypeOK
  <2>2. UNCHANGED <<mock, boot, registered, pending, result, knownKeys, logins>>
    OBVIOUS
  <2>3. /\ opSession' \in [account : Account \cup {None}, grant : BOOLEAN]
        /\ opSession'.grant => opSession'.account # None
    BY <1>1
  <2> QED BY <1>2, <2>1, <2>2, <2>3 DEF MockInv, TypeOK
<1>4. LoginsBegan' /\ UpAsConfigured'
  BY DEF MockInv, LoginsBegan, UpAsConfigured
<1>5. IssuedAsMeant'
  BY <1>1, <1>2, Types DEF MockInv, IssuedAsMeant
<1>6. SignsInAsAsked' /\ ClientIsTheRegistered' /\ RestartsAreRecovered'
  BY ResultsKept
<1> QED BY <1>2, <1>3, <1>4, <1>5, <1>6 DEF MockInv

(* What is asked of the browser is asked for a login, by a mock that is up.    *)
LEMMA Interacting ==
  ASSUME MockInv, interaction.prompt # None
  PROVE  interaction.login \in 1..Len(logins) /\ mock = "up"
  BY DEF MockInv, TypeOK, UpAsConfigured, NoInteraction

LEMMA FinishLoginStep ==
  ASSUME MockInv, FinishLogin PROVE MockInv'
<1> DEFINE login == logins[interaction.login]
           account == RequestedAccount(login.asked)
<1>1. /\ interaction.prompt = "login" /\ account # None
      /\ opSession' = IF account = opSession.account THEN opSession
                      ELSE [account |-> account, grant |-> FALSE]
      /\ Proceed(interaction.login, PromptFor(opSession'))
      /\ UNCHANGED <<env, client, mock, boot, registered, twVars, logins>>
  BY DEF FinishLogin
<1>2. interaction.login \in 1..Len(logins) /\ mock = "up"
  BY <1>1, NoneIsNoPrompt, Interacting
<1>3. login.asked # None \/ login.before = None
  BY <1>1 DEF MockInv, PromptedAsMeant
<1>4. account \in Account /\ account = Meant(login)
  BY <1>1, <1>3, RequestedIsAccount DEF Meant
<1>5. opSession \in [account : Account \cup {None}, grant : BOOLEAN]
  BY DEF MockInv, TypeOK
<1> HIDE DEF account, login
<1>6. opSession' \in [account : Account, grant : BOOLEAN] /\ opSession'.account = Meant(login)
  BY <1>1, <1>4, <1>5
<1> QED BY <1>1, <1>2, <1>6, PromptAnswered DEF login

LEMMA FinishConsentStep ==
  ASSUME MockInv, FinishConsent PROVE MockInv'
<1> DEFINE login == logins[interaction.login]
<1>1. /\ interaction.prompt = "consent"
      /\ opSession' = [opSession EXCEPT !.grant = TRUE]
      /\ Proceed(interaction.login, PromptFor(opSession'))
      /\ UNCHANGED <<env, client, mock, boot, registered, twVars, logins>>
  BY DEF FinishConsent
<1>2. interaction.login \in 1..Len(logins) /\ mock = "up"
  BY <1>1, NoneIsNoPrompt, Interacting
<1>3. opSession.account = Meant(login)
  BY <1>1 DEF MockInv, PromptedAsMeant
<1>4. Meant(login) # None
  BY FirstAccount, AskedAssumption DEF Meant
<1>5. opSession \in [account : Account \cup {None}, grant : BOOLEAN]
  BY DEF MockInv, TypeOK
<1> HIDE DEF login
<1>6. opSession' \in [account : Account, grant : BOOLEAN] /\ opSession'.account = Meant(login)
  BY <1>1, <1>3, <1>4, <1>5
<1> QED BY <1>1, <1>2, <1>6, PromptAnswered DEF login

-----------------------------------------------------------------------------
(* What a handler of Teacher Workspace leaves alone in the mock.               *)
LEMMA MockKept ==
  ASSUME MockInv,
         UNCHANGED <<env, client, mock, boot, registered, opSession, interaction, callbacks, logins>>
  PROVE  LoginsBegan' /\ UpAsConfigured' /\ PromptedAsMeant'
  BY DEF MockInv, LoginsBegan, UpAsConfigured, PromptedAsMeant

LEMMA FailType ==
  ASSUME NEW n \in 1..Len(logins), NEW reason \in Failure, Fail(n, reason), logins' = logins
  PROVE  /\ result' \in [login : 1..Len(logins'), account : Account \cup {None}, reason : Failure \cup {None}]
         /\ result'.account = None /\ result'.reason = reason /\ result'.login = n
         /\ SignsInAsAsked'
  BY DEF Fail, SignsInAsAsked

LEMMA CallbackStep ==
  ASSUME MockInv, NEW code \in callbacks, Callback(code) PROVE MockInv'
<1>1. /\ UNCHANGED <<env, client, mock, boot, registered, opSession, interaction, codes>>
      /\ UNCHANGED <<callbacks, knownKeys, logins>> /\ pending' = 0 /\ callback = None
      /\ \/ callback' = [code |-> code, token |-> None] /\ result' = result
         \/ /\ Fail(code.login, IF pending = 0 THEN "no pending login" ELSE "state mismatch")
            /\ callback' = callback
  BY DEF Callback, mockVars
<1>2. code.login \in 1..Len(logins) /\ pending' \in 0..Len(logins')
  <2>1. code.login \in 1..Len(logins)
    BY Types DEF MockInv, IssuedAsMeant
  <2>2. Len(logins) \in Nat
    BY Types, LenProperties
  <2>3. pending' = 0 /\ logins' = logins
    BY <1>1
  <2>4. 0 \in 0..Len(logins)
    BY <2>2
  <2> QED BY <2>1, <2>3, <2>4
<1>3. LoginsBegan' /\ UpAsConfigured' /\ PromptedAsMeant'
  BY <1>1, MockKept
<1>4. CASE callback' = [code |-> code, token |-> None] /\ result' = result
  <2>1. TypeOK'
    <3>1. callback' \in [code : callbacks', token : Token \cup {None}]
      BY <1>1, <1>4
    <3>2. UNCHANGED <<mock, boot, registered, opSession, interaction, codes, callbacks, knownKeys, result, logins>>
      BY <1>1, <1>4
    <3> QED BY <1>2, <3>1, <3>2 DEF MockInv, TypeOK
  <2>2. IssuedAsMeant'
    BY <1>1, <1>4 DEF MockInv, IssuedAsMeant
  <2>3. SignsInAsAsked' /\ ClientIsTheRegistered' /\ RestartsAreRecovered'
    BY <1>1, <1>4, ResultsKept
  <2> QED BY <1>3, <2>1, <2>2, <2>3 DEF MockInv
<1>5. CASE /\ Fail(code.login, IF pending = 0 THEN "no pending login" ELSE "state mismatch")
           /\ callback' = callback
  <2> DEFINE reason == IF pending = 0 THEN "no pending login" ELSE "state mismatch"
  <2>1. reason \in Failure /\ reason \notin {"invalid_client", "unknown key"}
    BY DEF Failure
  <2> HIDE DEF reason
  <2>2. /\ result' \in [login : 1..Len(logins'), account : Account \cup {None}, reason : Failure \cup {None}]
        /\ result'.account = None /\ result'.reason = reason
        /\ SignsInAsAsked'
    BY <1>1, <1>2, <1>5, <2>1, FailType DEF reason
  <2>3. TypeOK'
    <3>1. UNCHANGED <<mock, boot, registered, opSession, interaction, codes, callbacks, knownKeys, callback, logins>>
      BY <1>1, <1>5
    <3> QED BY <1>2, <2>2, <3>1 DEF MockInv, TypeOK
  <2>4. IssuedAsMeant'
    BY <1>1, <1>5 DEF MockInv, IssuedAsMeant, Fits
  <2>5. ClientIsTheRegistered' /\ RestartsAreRecovered'
    BY <2>1, <2>2 DEF ClientIsTheRegistered, RestartsAreRecovered
  <2> QED BY <1>3, <2>2, <2>3, <2>4, <2>5 DEF MockInv
<1> QED BY <1>1, <1>4, <1>5

(* The token endpoint: the client that is registered is the one that fits.     *)
LEMMA ExchangeStep ==
  ASSUME MockInv, Exchange PROVE MockInv'
<1> DEFINE code == callback.code
           n == code.login
           Issues == /\ mock = "up" /\ Authenticated(client) /\ code \in codes
                     /\ codes' = codes \ {code} /\ result' = result
                     /\ callback' = [callback EXCEPT !.token = [account |-> code.account, key |-> boot]]
           Refuses(reason) == /\ Fail(n, reason) /\ callback' = None /\ codes' = codes
<1>1. /\ UNCHANGED <<env, client, mock, boot, registered, opSession, interaction>>
      /\ UNCHANGED <<pending, callbacks, knownKeys, logins>>
      /\ callback # None
      /\ \/ Issues
         \/ Refuses("unreachable") \/ Refuses("invalid_grant")
         \/ mock = "up" /\ ~Authenticated(client) /\ Refuses("invalid_client")
  BY DEF Exchange
<1> HIDE DEF Issues, Refuses
<1>2. /\ callback \in [code : callbacks, token : Token \cup {None}]
      /\ code \in callbacks /\ n \in 1..Len(logins) /\ code.account \in Account
  BY <1>1, Types DEF MockInv, TypeOK, IssuedAsMeant, Code
<1>3. LoginsBegan' /\ UpAsConfigured' /\ PromptedAsMeant'
  BY <1>1, MockKept
<1>4. mock = "up" => (Authenticated(client) <=> Fits(client, env))
  BY FitsTheRegistered DEF MockInv, UpAsConfigured, Authenticated
<1> HIDE DEF code
<1>5. CASE Issues
  <2> DEFINE token == [account |-> code.account, key |-> boot]
  <2>1. boot \in 1..MaxBoots /\ token \in Token /\ token.account = code.account /\ token.key = boot
    <3>1. boot \in 1..MaxBoots
      BY <1>5, BoundsAssumption DEF MockInv, TypeOK, UpAsConfigured, Issues
    <3> QED BY <1>2, <3>1 DEF Token
  <2> HIDE DEF token
  <2>2. /\ callback' \in [code : callbacks, token : Token]
        /\ callback'.code = code /\ callback'.token = token
    BY <1>2, <1>5, <2>1 DEF Issues, token, code
  <2>3. TypeOK'
    <3>1. codes' \subseteq codes /\ result' = result
      BY <1>5 DEF Issues
    <3>2. callback' \in [code : callbacks', token : Token \cup {None}]
      BY <1>1, <2>2
    <3> QED BY <1>1, <3>1, <3>2 DEF MockInv, TypeOK
  <2>4. IssuedAsMeant'
    <3>1. boot \in logins[n].boot..boot
      BY <1>2, Types
    <3>2. Fits(client, env)
      BY <1>4, <1>5 DEF Issues
    <3> QED BY <1>1, <2>1, <2>2, <3>1, <3>2 DEF MockInv, IssuedAsMeant
  <2>5. SignsInAsAsked' /\ ClientIsTheRegistered' /\ RestartsAreRecovered'
    BY <1>1, <1>5, ResultsKept DEF Issues
  <2> QED BY <1>3, <2>3, <2>4, <2>5 DEF MockInv
<1>6. ASSUME NEW reason \in {"unreachable", "invalid_grant", "invalid_client"}, Refuses(reason),
             reason = "invalid_client" => mock = "up" /\ ~Authenticated(client)
      PROVE  MockInv'
  <2>1. reason \in Failure /\ reason # "unknown key"
    BY DEF Failure
  <2>2. /\ result' \in [login : 1..Len(logins'), account : Account \cup {None}, reason : Failure \cup {None}]
        /\ result'.account = None /\ result'.reason = reason
        /\ SignsInAsAsked'
    BY <1>1, <1>2, <1>6, <2>1, FailType DEF Refuses
  <2>3. TypeOK'
    BY <1>1, <1>6, <2>2 DEF MockInv, TypeOK, Refuses
  <2>4. IssuedAsMeant'
    BY <1>1, <1>6 DEF MockInv, IssuedAsMeant, Refuses
  <2>5. ClientIsTheRegistered'
    BY <1>1, <1>4, <1>6, <2>2 DEF ClientIsTheRegistered, Fits
  <2>6. RestartsAreRecovered'
    BY <2>1, <2>2 DEF RestartsAreRecovered
  <2> QED BY <1>3, <2>2, <2>3, <2>4, <2>5, <2>6 DEF MockInv
<1> QED BY <1>1, <1>5, <1>6

(* go-oidc fetches the keys again for one it does not know: only a mock that   *)
(* restarted since it signed has another.                                      *)
LEMMA VerifyStep ==
  ASSUME MockInv, Verify PROVE MockInv'
<1> DEFINE n == callback.code.login
           token == callback.token
           SignsIn == /\ token.key \in knownKeys'
                      /\ result' = [login |-> n, account |-> token.account, reason |-> None]
<1>1. /\ UNCHANGED <<env, client, mock, boot, registered, opSession, interaction, codes>>
      /\ UNCHANGED <<pending, callbacks, logins>>
      /\ callback # None /\ token # None /\ callback' = None
      /\ knownKeys' = FetchedKeys(token.key)
      /\ \/ SignsIn
         \/ Fail(n, "groups") \/ Fail(n, "no cesEmail")
         \/ token.key \notin knownKeys' /\ Fail(n, "unknown key")
  BY DEF Verify, mockVars
<1>2. /\ callback.code \in callbacks /\ token \in Token
      /\ n \in 1..Len(logins)
      /\ token.account \in Account /\ token.account = Meant(logins[n])
      /\ token.key \in logins[n].boot..boot
      /\ Fits(client, env)
  <2>1. callback.code \in callbacks /\ token \in Token
    BY <1>1 DEF MockInv, TypeOK
  <2>2. n \in 1..Len(logins) /\ token.account = Meant(logins[n])
    <3>1. /\ callback.code.login \in 1..Len(logins)
          /\ callback.code.account = Meant(logins[callback.code.login])
      BY <2>1, Types DEF MockInv, IssuedAsMeant
    <3>2. token.account = callback.code.account
      BY <1>1 DEF MockInv, IssuedAsMeant
    <3> QED BY <3>1, <3>2
  <2>3. token.key \in logins[n].boot..boot /\ Fits(client, env)
    BY <1>1 DEF MockInv, IssuedAsMeant
  <2> QED BY <2>1, <2>2, <2>3 DEF Token
<1> HIDE DEF token, n
<1>3. knownKeys' \subseteq 1..boot
  <2>1. knownKeys \subseteq 1..boot /\ (mock = "up" => boot \in 1..boot)
    BY Types DEF MockInv, TypeOK, UpAsConfigured
  <2>2. knownKeys' = knownKeys \/ (mock = "up" /\ knownKeys' = {boot})
    BY <1>1 DEF FetchedKeys
  <2> QED BY <2>1, <2>2
<1>4. token.key \notin knownKeys' /\ mock = "up" => logins[n].boot < boot
  <2>1. token.key \notin knownKeys' /\ mock = "up" => knownKeys' = {boot}
    BY <1>1 DEF FetchedKeys
  <2>2. /\ boot \in Nat /\ logins[n].boot \in Nat
        /\ logins[n].boot <= token.key /\ token.key <= boot /\ token.key \in Int
    BY <1>2, Types
  <2> QED BY <2>1, <2>2
<1>5. LoginsBegan' /\ UpAsConfigured' /\ PromptedAsMeant'
  BY <1>1, MockKept
<1>6. IssuedAsMeant'
  BY <1>1 DEF MockInv, IssuedAsMeant
<1>7. ASSUME result' \in [login : 1..Len(logins'), account : Account \cup {None}, reason : Failure \cup {None}]
      PROVE  TypeOK'
  BY <1>1, <1>3, <1>7 DEF MockInv, TypeOK
<1>8. CASE SignsIn
  <2>1. /\ result' \in [login : 1..Len(logins'), account : Account \cup {None}, reason : Failure \cup {None}]
        /\ result'.login = n /\ result'.account = token.account /\ result'.reason = None
    BY <1>1, <1>2, <1>8
  <2>2. SignsInAsAsked'
    BY <1>1, <1>2, <2>1 DEF SignsInAsAsked
  <2>3. ClientIsTheRegistered' /\ RestartsAreRecovered'
    BY <1>1, <1>2, <2>1, NoneIsNoFailure DEF ClientIsTheRegistered, RestartsAreRecovered, Fits
  <2> QED BY <1>5, <1>6, <1>7, <2>1, <2>2, <2>3 DEF MockInv
<1>9. ASSUME NEW reason \in {"groups", "no cesEmail", "unknown key"}, Fail(n, reason),
             reason = "unknown key" => token.key \notin knownKeys'
      PROVE  MockInv'
  <2>1. reason \in Failure /\ reason # "invalid_client"
    BY DEF Failure
  <2>2. /\ result' \in [login : 1..Len(logins'), account : Account \cup {None}, reason : Failure \cup {None}]
        /\ result'.account = None /\ result'.reason = reason /\ result'.login = n
        /\ SignsInAsAsked'
    BY <1>1, <1>2, <1>9, <2>1, FailType
  <2>3. ClientIsTheRegistered'
    BY <2>1, <2>2 DEF ClientIsTheRegistered
  <2>4. RestartsAreRecovered'
    BY <1>1, <1>4, <1>9, <2>2 DEF RestartsAreRecovered
  <2> QED BY <1>5, <1>6, <1>7, <2>2, <2>3, <2>4 DEF MockInv
<1> QED BY <1>1, <1>8, <1>9

LEMMA MockStep == MockInv /\ [Next]_vars => MockInv'
<1> SUFFICES ASSUME MockInv, [Next]_vars PROVE MockInv'
  OBVIOUS
<1>1. CASE Start
  BY <1>1, StartStep
<1>2. CASE Stop
  BY <1>2, StopStep
<1>3. ASSUME NEW account \in Asked, AuthEdupass(account) PROVE MockInv'
  BY <1>3, AuthEdupassStep
<1>4. CASE FinishLogin
  BY <1>4, FinishLoginStep
<1>5. CASE UnknownAccount
  BY <1>5, UnknownAccountStep
<1>6. CASE FinishConsent
  BY <1>6, FinishConsentStep
<1>7. CASE ExpireCode
  BY <1>7, ExpireCodeStep
<1>8. CASE ExpireSession
  BY <1>8, ExpireSessionStep
<1>9. ASSUME NEW code \in callbacks, Callback(code) PROVE MockInv'
  BY <1>9, CallbackStep
<1>10. CASE Exchange
  BY <1>10, ExchangeStep
<1>11. CASE Verify
  BY <1>11, VerifyStep
<1>12. CASE UNCHANGED vars
  <2>1. /\ UNCHANGED <<env, client, mock, boot, registered, opSession, interaction, codes>>
        /\ UNCHANGED <<pending, callback, callbacks, knownKeys, logins, result>>
    BY <1>12 DEF vars, mockVars, twVars
  <2>2. TypeOK'
    BY <2>1 DEF MockInv, TypeOK
  <2>3. LoginsBegan' /\ UpAsConfigured' /\ PromptedAsMeant'
    BY <2>1, MockKept
  <2>4. IssuedAsMeant'
    BY <2>1 DEF MockInv, IssuedAsMeant, Fits
  <2>5. SignsInAsAsked' /\ ClientIsTheRegistered' /\ RestartsAreRecovered'
    BY <2>1, ResultsKept
  <2> QED BY <2>2, <2>3, <2>4, <2>5 DEF MockInv
<1> QED BY <1>1, <1>2, <1>3, <1>4, <1>5, <1>6, <1>7, <1>8, <1>9, <1>10, <1>11, <1>12 DEF Next

-----------------------------------------------------------------------------
(* The inductive invariant, from the first boot of the mock on.                *)
THEOREM MockInvariant == Spec => []MockInv
  BY InitMock, MockStep, PTL DEF Spec

(* Every variable of the mock and of Teacher Workspace's side of it keeps its  *)
(* kind: what is registered can prove a client, a code names an account.       *)
THEOREM MockTypeOK == Spec => []TypeOK
<1>1. MockInv => TypeOK
  BY DEF MockInv
<1> QED BY <1>1, MockInvariant, PTL

(* A developer who asks for an account signs in as that one or not at all,     *)
(* whoever the mock remembers and however its prompts are answered.            *)
THEOREM DeveloperSignsInAsAsked == Spec => []SignsInAsAsked
<1>1. MockInv => SignsInAsAsked
  BY DEF MockInv
<1> QED BY <1>1, MockInvariant, PTL

(* With any secret, certificate or file of them, exactly the client that the   *)
(* environment tells of is taken, across restarts.                             *)
THEOREM OnlyTheRegisteredClient == Spec => []ClientIsTheRegistered
<1>1. MockInv => ClientIsTheRegistered
  BY DEF MockInv
<1> QED BY <1>1, MockInvariant, PTL

(* An unknown signing key is the sign of a restart during the login.           *)
THEOREM OnlyRestartsLoseKeys == Spec => []RestartsAreRecovered
<1>1. MockInv => RestartsAreRecovered
  BY DEF MockInv
<1> QED BY <1>1, MockInvariant, PTL
=============================================================================
