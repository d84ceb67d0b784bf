------------------------------ MODULE MCWriters ------------------------------
(* What a browser writes, side by side for TLC: the turns of a conversation  *)
(* and the saves of a board. The two share no state; every behaviour runs    *)
(* one of them and leaves the other in one of its initial states.            *)
EXTENDS MCChatTurn, BoardSave

VARIABLE surface

WritersInit ==
  /\ surface \in {"chat", "board"}
  /\ TurnInit /\ BoardInit
  /\ surface = "chat" => body # NoBody
  /\ surface = "board" => opts = Opt(1, 2)

WritersNext ==
  \/ surface = "chat" /\ TurnNext /\ UNCHANGED <<surface, boardVars>>
  \/ surface = "board" /\ BoardNext /\ UNCHANGED <<surface, turnVars>>

(* The fairness of the two modules, for the surface that runs.               *)
WritersFairness ==
  /\ WF_turnVars(surface = "chat" /\ Tick)
  /\ \A l \in Lane : WF_turnVars(surface = "chat" /\ TurnStep(l))
  /\ \A w \in Window : /\ WF_boardVars(surface = "board" /\ editor[w].timer /\ Flush(w))
                      /\ WF_boardVars(surface = "board" /\ SaveStep(w))

WritersSpec ==
  WritersInit /\ [][WritersNext]_<<surface, turnVars, boardVars>> /\ WritersFairness

-----------------------------------------------------------------------------
(* What was written is settled or has somebody who will settle it: no        *)
(* message stays pending after its turn, no edit of a board is forgotten.    *)
NothingIsForgotten == NothingLeftPending /\ EditIsBacked

(* Concurrent writers of one thing do not spoil it: the turns of a session   *)
(* run one after the other; racing saves leave the board's two stores in     *)
(* agreement, a reader with no older content than its version, and a save    *)
(* of the current version is refused only for another one.                   *)
WritersAreSerialized ==
  SessionsSerialized /\ StoresAgree /\ DetailIsNotBehind /\ RefusedOnlyIfStale

(* Turns end and edits are saved or reported.                                *)
EveryWriteEnds == EveryTurnEnds /\ EveryEditIsSaved
=============================================================================
