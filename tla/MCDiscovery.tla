---------------------------- MODULE MCDiscovery -----------------------------
(***************************************************************************)
(* Discovery on every program of a few words.                              *)
(***************************************************************************)
EXTENDS Discovery

\* The extra entries of the pointer scan: none, or the second word.
NoSeeds    == {<< >>}
MaySeedOne == {<< >>, <<1>>}

\* "mark every instruction address that is REACHABLE" (discovery.rs:1-2):
\* what is executed along the jumps the walk could prove is marked.
MarksAllReachable == Done => Executed(Recorded) \subseteq visited
=============================================================================
