--------------------------- MODULE EdupassAccounts ---------------------------
(***************************************************************************)
(* The accounts of the mock Edupass, apps/mock-edupass/src/provider.ts.    *)
(* As in EdupassLogin, a group is the sequence of its segments between     *)
(* underscores.                                                            *)
(***************************************************************************)
EXTENDS Naturals, Sequences

LOCAL Group(location, app, code) == <<location, app>> \o code
LOCAL TW(location, code) == Group(location, "TW", code)

LOCAL Teacher == <<"ROLE", "TEACHER">>
LOCAL HOD == <<"ROLE", "HOD">>
LOCAL CCE == <<"ATTR", "CCE">>
LOCAL PGAdmin == <<"ATTR", "PG", "ADMIN">>

\* An account, with or without a CES email; its ID is its place in the list.
LOCAL Staff(groups) == [cesEmail |-> TRUE, groups |-> groups]
LOCAL StaffWithoutEmail(groups) == [cesEmail |-> FALSE, groups |-> groups]

accounts == <<
  Staff(<<TW("0001", Teacher), TW("0001", PGAdmin)>>),
  Staff(<<TW("1234", Teacher)>>),
  Staff(<<TW("X", Teacher), TW("X", PGAdmin)>>),
  Staff(<<TW("0001", Teacher), TW("0001", HOD)>>),
  Staff(<<Group("0001", "TWSTG", Teacher)>>),
  Staff(<<TW("0001", Teacher), TW("1001", HOD)>>),
  Staff(<<TW("0001", Teacher), Group("0001", "XX", <<"ROLE", "COUNSELLOR">>)>>),
  StaffWithoutEmail(<<>>),
  Staff(<<TW("6101", Teacher)>>),
  Staff(<<TW("6101", HOD), TW("1234", Teacher)>>),
  Staff(<<TW("0001", <<"ROLE", "PRINCIPAL">>)>>),
  Staff(<<TW("1234", <<"ROLE", "VICE", "PRINCIPAL", "ADMINISTRATION">>)>>),
  Staff(<<TW("1234", CCE)>>),
  Staff(<<TW("1234", Teacher), TW("1234", HOD), TW("5678", Teacher)>>),
  Staff(<<TW("6101", Teacher), TW("1234", Teacher), TW("1234", HOD)>>),
  Staff(<<Group("6101", "XX", Teacher)>>),
  Staff(<<TW("6101", <<"ROLE", "SUPERINTENDENT">>)>>),
  Staff(<<TW("6101", CCE)>>),
  Staff(<<TW("1234", Teacher), TW("1234", CCE), TW("1234", CCE)>>),
  Staff(<<TW("1234", Teacher), TW("1234", CCE), TW("5678", <<"ATTR", "SDE">>)>>) >>

Account == DOMAIN accounts
=============================================================================
