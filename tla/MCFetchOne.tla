----------------------------- MODULE MCFetchOne ------------------------------
(* The three programs with small bodies, two fragments and short redirections. *)
EXTENDS FetchOne

FragmentNumbers == {0, 2}
===============================================================================
