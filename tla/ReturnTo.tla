------------------------------- MODULE ReturnTo -------------------------------
(***************************************************************************)
(* safeReturnTo (server/internal/handler/auth.go) on one side, and on the  *)
(* other what net/http and a browser make of a redirect to its result.     *)
(*                                                                         *)
(* A path is a sequence of the characters that either side tells apart; a  *)
(* percent-encoded one is a character of its own, and "%zz" is any         *)
(* malformed escape.                                                       *)
(***************************************************************************)
EXTENDS SequencesExt

CONSTANT MaxLength    \* 1024 bytes in the code

Plain   == {"/", "\\", ".", "a", "?", "#", " ", "tab"}
Escape  == {"%2e", "%2f", "%5c", "%zz"}
Char    == Plain \cup Escape

Unescaped(path) ==
  [i \in DOMAIN path |-> CASE path[i] = "%2e" -> "."
                           [] path[i] = "%2f" -> "/"
                           [] path[i] = "%5c" -> "\\"
                           [] OTHER           -> path[i]]

(* What comes before the first of the marks, and from it on. *)
Before(s, marks) ==
  LET i == SelectInSeq(s, LAMBDA c : c \in marks) IN IF i = 0 THEN s ELSE SubSeq(s, 1, i - 1)

From(s, marks) == SubSeq(s, Len(Before(s, marks)) + 1, Len(s))

PathOf(s) == Before(s, {"?", "#"})

(* The k-th of a set of positions, in order.                                   *)
Nth(positions, k) == CHOOSE i \in positions : Cardinality({j \in positions : j <= i}) = k

(* Segments start after nothing and after each separator.                      *)
Starts(path, separators) == {0} \cup {i \in DOMAIN path : path[i] \in separators}

SegmentAfter(path, separators, i) == Before(SubSeq(path, i + 1, Len(path)), separators)

Segments(path, separators) ==
  LET starts == Starts(path, separators) IN
  [k \in 1..Cardinality(starts) |-> SegmentAfter(path, separators, Nth(starts, k))]

-----------------------------------------------------------------------------
(* url.Parse refuses control characters before the fragment, and malformed     *)
(* escapes in the path and in the fragment.                                    *)
Parses(s) == /\ ~Contains(Before(s, {"#"}), "tab")
             /\ ~Contains(PathOf(s) \o From(s, {"#"}), "%zz")

Unsafe(s) ==
  LET path == Unescaped(PathOf(s)) IN
  \/ Len(s) > MaxLength
  \/ ~IsPrefix(<<"/">>, s)
  \/ IsPrefix(<<"/", "/">>, s)
  \/ IsPrefix(<<"/", "\\">>, s)
  \/ ~Parses(s)
  \/ Contains(path, "\\")
  \/ \E i \in Starts(path, {"/"}) : SegmentAfter(path, {"/"}, i) \in {<<".">>, <<".", ".">>}

(* A bug: the path is searched for dots before it is unescaped. *)
SafeReturnToUndecoded(candidate, fallback) ==
  IF \/ Unsafe(SelectSeq(candidate, LAMBDA c : c \notin Escape))
     \/ ~Parses(candidate)
  THEN fallback ELSE candidate

SafeReturnTo(candidate, fallback) == IF Unsafe(candidate) THEN fallback ELSE candidate

-----------------------------------------------------------------------------
(* net/http trims a header's value, and a browser a URL. *)
Trimmed(s) ==
  LET kept == {i \in DOMAIN s : s[i] \notin {" ", "tab"}} IN
  IF kept = {} THEN <<>> ELSE SubSeq(s, Min(kept), Max(kept))

(* A browser drops tabs, takes backslashes for slashes, and resolves the dots  *)
(* of a path, encoded or not.                                                  *)
WithoutTabs(s) ==
  LET kept == {i \in DOMAIN s : s[i] # "tab"} IN [k \in 1..Cardinality(kept) |-> s[Nth(kept, k)]]

Dots(seg) == IF \A i \in DOMAIN seg : seg[i] \in {".", "%2e"} THEN Len(seg) ELSE 0

Resolved(segs) ==
  LET path[i \in DOMAIN segs] ==
        IF i = 1 THEN <<>>
        ELSE LET here == CASE Dots(segs[i]) = 2 -> IF path[i - 1] = <<>> THEN <<>> ELSE Front(path[i - 1])
                           [] Dots(segs[i]) = 1 -> path[i - 1]
                           [] OTHER             -> Append(path[i - 1], segs[i])
             IN IF i = Len(segs) /\ Dots(segs[i]) \in {1, 2} THEN Append(here, <<>>) ELSE here
  IN path[Len(segs)]

Elsewhere == [site |-> "another", path |-> <<>>]
Here(path) == [site |-> "this", path |-> path]

(* Two slashes at the start name another site.                                 *)
Landing(s) ==
  LET path == WithoutTabs(PathOf(Trimmed(s))) IN
  IF Len(path) >= 2 /\ {path[1], path[2]} \subseteq {"/", "\\"} THEN Elsewhere
  ELSE Here(Resolved(Segments(path, {"/", "\\"})))

(* Where the path says it goes. *)
Face(s) == Here(Tail(Segments(PathOf(s), {"/"})))
=============================================================================
