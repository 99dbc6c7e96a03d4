---------------------------- MODULE MCEdupassLogin ----------------------------
(* Instances of EdupassLogin for TLC. *)
EXTENDS EdupassLogin, EdupassAccounts

AllSegments == {"0001", "1001", "1234", "5678", "6101", "X", "5", "TW", "TWSTG", "XX", "ROLE", "ATTR",
                "TEACHER", "HOD", "COUNSELLOR", "VICE", "PRINCIPAL", "ADMINISTRATION", "SUPERINTENDENT",
                "CCE", "DM", "PG", "ADMIN", "SDE"}
Schools == {"0001", "1001", "1234", "5678", "6101"}
Roles == {<<"ROLE", "TEACHER">>, <<"ROLE", "HOD">>, <<"ROLE", "PRINCIPAL">>, <<"ROLE", "COUNSELLOR">>,
          <<"ROLE", "VICE", "PRINCIPAL", "ADMINISTRATION">>}
Attrs == {<<"ATTR", "CCE">>, <<"ATTR", "DM">>, <<"ATTR", "SDE">>, <<"ATTR", "PG", "ADMIN">>}

Teacher == <<"1234", "TW", "ROLE", "TEACHER">>

Good == [pending |-> TRUE, returnTo |-> <<"/", "a">>, passed |-> Check, groups |-> <<Teacher>>]

(* No check fails, or one, or two. *)
SomeChecks == {[Good EXCEPT !.passed = Check \ {c, d}, !.pending = pending] :
               c, d \in Check \cup {None}, pending \in BOOLEAN}

(* Every short path, and longer ones of the characters that matter in one. *)
SomePaths == {[Good EXCEPT !.returnTo = s] :
              s \in BoundedSeq(Char, 3)
                    \cup {<<"/">> \o t : t \in BoundedSeq({"/", "\\", "a", ".", "%2e", " "}, 4)}
                    \cup {<<"/", "a", "a", "a", "a", "a">>}}

(* Every entry that can be made of these segments. *)
SomeEntries == {[Good EXCEPT !.groups = <<e>>] :
                e \in {<<first>> \o t : first \in {"1234", "ROLE"},
                                       t \in BoundedSeq({"TW", "ROLE", "ATTR", "TEACHER", "CCE"}, 4)}}

(* Roles and attributes at several schools, and what is none of them. *)
Entries == {Teacher,
            <<"1234", "TW", "ROLE", "HOD">>,
            <<"5678", "TW", "ROLE", "TEACHER">>,
            <<"6101", "TW", "ROLE", "TEACHER">>,
            <<"1234", "TW", "ATTR", "CCE">>,
            <<"1234", "TW", "ATTR", "DM">>,
            <<"5678", "TW", "ATTR", "CCE">>,
            <<"X", "TW", "ROLE", "TEACHER">>,
            <<"1234", "5", "TW", "ATTR", "DM">>}

SomeLists == {[Good EXCEPT !.groups = list] : list \in BoundedSeq(Entries, 4)}

(* The accounts of the mock Edupass; a missing CES email fails that check. *)
LoginOf(a) ==
  [Good EXCEPT !.groups = accounts[a].groups,
               !.passed = IF accounts[a].cesEmail THEN Check ELSE Check \ {"email"}]

SomeAccounts == {LoginOf(a) : a \in Account}

AllLogins == UNION {SomeChecks, SomePaths, SomeEntries, SomeLists, SomeAccounts}

(* "Result in Teacher Workspace" (apps/mock-edupass/README.md:42-61): the role *)
(* or the error, and the attributes where the table names them.                *)
SignsInAs(code) == [role |-> <<"ROLE">> \o code, error |-> None]
Refused(error) == [role |-> None, error |-> error]

Documented == <<
  SignsInAs(<<"TEACHER">>), SignsInAs(<<"TEACHER">>), Refused("no_role"), Refused("multiple_roles"),
  Refused("no_role"), Refused("multiple_roles"), SignsInAs(<<"TEACHER">>),
  Refused("oauth2_callback_failed"), Refused("unsupported_school_mk"), SignsInAs(<<"TEACHER">>),
  SignsInAs(<<"PRINCIPAL">>), SignsInAs(<<"VICE", "PRINCIPAL", "ADMINISTRATION">>),
  Refused("no_role"), Refused("multiple_roles"), Refused("multiple_roles"), Refused("no_role"),
  Refused("no_role"), Refused("no_role"), SignsInAs(<<"TEACHER">>), SignsInAs(<<"TEACHER">>) >>

(* Each account of the mock Edupass has the result that its table promises,    *)
(* and the last two keep the one attribute of their role's school.             *)
AccountsAsDocumented ==
  \A a \in Account :
    pc = "done" /\ login = LoginOf(a) =>
      /\ redirect.error = Documented[a].error
      /\ Documented[a].role = None => user = None
      /\ Documented[a].role # None => user # None /\ user.role = Documented[a].role
      /\ a \in {19, 20} => user.attributes = <<<<"ATTR", "CCE">>>>

=============================================================================
