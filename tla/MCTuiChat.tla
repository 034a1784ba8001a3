------------------------------ MODULE MCTuiChat ------------------------------
(***************************************************************************)
(* Instances of TuiChat.                                                   *)
(***************************************************************************)
EXTENDS TuiChat

CONSTANTS h1, h2

\* Homes are interchangeable, so the agent the UI starts with may be fixed; a
\* symmetry set would not be sound for the liveness property.
MCInit == Init /\ app.home = h1
MCSpec == MCInit /\ [][Next]_vars /\ Fairness

=============================================================================
