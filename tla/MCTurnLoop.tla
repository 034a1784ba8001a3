----------------------------- MODULE MCTurnLoop -----------------------------
(* TurnLoop on small instances. *)
EXTENDS TurnLoop

\* A fresh session; one whose last turn ran two tools in one response, long
\* enough for compaction to cut between the call and its results; and what is
\* left of its log when the process dies before the second result is appended.
Whole ==
    <<Msg("user", <<>>), Msg("calls", <<CallId(1, 8), PositionId(2)>>),
      Msg("result", <<CallId(1, 8)>>), Msg("result", <<PositionId(2)>>),
      Msg("assistant", <<>>)>>
MCHistories == {<<>>, Whole, SubSeq(Whole, 1, 3)}

FreshOnly == {<<>>}

=============================================================================
