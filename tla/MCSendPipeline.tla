---------------------------- MODULE MCSendPipeline ----------------------------
(***************************************************************************)
(* SendPipeline with two attempts.  A client puts the peer's keys first,   *)
(* in the order the peer's server lists them, which changes whenever one   *)
(* registers; a message to Favorites has keys of the sender only.          *)
(***************************************************************************)
EXTENDS SendPipeline, TLC
CONSTANTS h1, h2, p1, p2, o1, o2
TwoAttempts == {h1, h2}
Symmetry == Permutations(TwoAttempts)
TwoPeerKeys == {p1, p2}
NoKeys == {}
OneOwnKey == {o1}
TwoOwnKeys == {o1, o2}
ToThePeer == {<<p1, p2, o1>>, <<p2, o1>>}
ToFavorites == {<<o1>>, <<o1, o2>>, <<o2, o1>>}
===============================================================================
