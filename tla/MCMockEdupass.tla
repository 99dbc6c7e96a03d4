---------------------------- MODULE MCMockEdupass ----------------------------
(* The mock Edupass with every way to give it a secret or a certificate.     *)
EXTENDS MockEdupass

CONSTANT Unknown    \* an account parameter that names no account

Secret == <<"s">>
SecretLine == <<"s", Newline>>

Base == [identity |-> TRUE, method |-> "client_secret_post", secret |-> <<>>, secretFile |-> None,
         certificate |-> None, certificateFile |-> None]

SecretEnvs ==
  {[Base EXCEPT !.secret = text, !.secretFile = file] :
     text \in {<<>>, Secret, SecretLine},
     file \in {None, Unreadable, <<>>, <<Newline>>, SecretLine}}

CertificateEnvs ==
  {[Base EXCEPT !.method = "private_key_jwt", !.certificate = pem, !.certificateFile = file] :
     pem \in {None, "good", "another"} \cup BadCertificate,
     file \in {None, Unreadable, "good", "empty"}}

OtherEnvs ==
  {[Base EXCEPT !.method = "other", !.secret = Secret],
   [Base EXCEPT !.identity = FALSE, !.secret = Secret],
   [Base EXCEPT !.secret = Secret, !.certificate = "good"]}

AllEnvs == SecretEnvs \cup CertificateEnvs \cup OtherEnvs

Clients == {[method |-> "client_secret_post", proof |-> Secret],
            [method |-> "private_key_jwt", proof |-> <<"good">>]}

\* The second account, one without a CES email, and one that does not exist.
SomeAsked == {None, 2, 8, Unknown}
=============================================================================
