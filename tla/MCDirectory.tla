--------------------------- MODULE MCDirectory ---------------------------
(* Directory instantiated for TLC: two members, so a response has two      *)
(* pages and a stale page can land between or after current ones; a       *)
(* queried peer whose listing takes two pages, two GetLinkInfos calls and  *)
(* one second's tick, so two responses may or may not share a cookie.     *)
EXTENDS Directory, TLC

(* Members are interchangeable: every action and both invariants treat    *)
(* them alike.                                                             *)
PeerSymmetry == Permutations(Peers)
====
