---------------------------- MODULE MCFleetWriting ----------------------------
(* FleetWriting on small fleets. *)
EXTENDS FleetWriting

\* What the closing picture leaves undone has the lines that finish it, and each device in
\* Loader mode is told of, but for a Done board and for two or more boards reset unwritten
\* that come back under new ids, of whom nobody hears (correctEndedBoards(), retryLines(),
\* closeRun()).
LinesTellAll == ClosingTells /\ LinesFinishTheBoard
=============================================================================
