---------------------------- MODULE MCWorkstation ----------------------------
(* The instance of Workstation that TLC checks.  The parts share the portal's *)
(* process, the event stream and the checkout only, so each is explored at    *)
(* length on its own, and those of the portal together with one plan and one  *)
(* request to act.                                                            *)
EXTENDS Workstation

Nothing == [sessions |-> FALSE, plans |-> 0, operations |-> 0, attempts |-> 0,
            edits |-> 0, mainMoves |-> FALSE, stream |-> FALSE, others |-> FALSE,
            moves |-> FALSE, platform |-> FALSE]

\* Two plans, submitted concurrently.
OfPlans == [Nothing EXCEPT !.sessions = TRUE, !.plans = 2, !.edits = 3, !.mainMoves = TRUE]

\* Break glass on one Rollout: two requests to act by the portal and the
\* command line; two commands, while others change the Rollout; and one request
\* of the portal, while they do.
OfRequests == [Nothing EXCEPT !.sessions = TRUE, !.operations = 1, !.attempts = 2]
OfCommands == [Nothing EXCEPT !.attempts = 2, !.moves = TRUE]
OfMoves == [Nothing EXCEPT !.sessions = TRUE, !.operations = 1, !.attempts = 1,
                           !.moves = TRUE]

\* The stream, whoever broadcasts.
OfStream == [Nothing EXCEPT !.sessions = TRUE, !.stream = TRUE, !.others = TRUE,
                            !.moves = TRUE]

\* All of the portal together.
OfPortal == [Nothing EXCEPT !.sessions = TRUE, !.plans = 1, !.operations = 1,
                            !.attempts = 1, !.stream = TRUE]

\* Two platform commands, while the owner pulls.
OfPlatform == [Nothing EXCEPT !.mainMoves = TRUE, !.platform = TRUE]

MCBudgets == {OfPlans, OfRequests, OfCommands, OfMoves, OfStream, OfPortal,
              OfPlatform}
=============================================================================
