--------------------------- MODULE MCSessionServer ---------------------------
(* Instances of SessionServer for TLC. *)
EXTENDS SessionServer, TLC

(* Every request here commits an Update, a Create or a Delete; "index" and     *)
(* "login" would only add pages, which nothing reads without "api".            *)
SignInRoutes == {"logout", "authEdupass", "callback"}

EveryRoute == AllRoutes

(* IDs of an older release are not interchangeable with the others. *)
Symmetry == Permutations(Key \ Legacy) \cup Permutations(Req)
            \cup Permutations(Attempt) \cup Permutations(User)

=============================================================================
