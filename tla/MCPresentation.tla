---------------------------- MODULE MCPresentation ----------------------------
(* A behaviour is one scene of a Presentation: windows that command it, or a  *)
(* participant's page and the server. Each scene allows some of the steps, so *)
(* that the others stay few.                                                  *)
EXTENDS PresentationCommands, PresentationAnswers

CONSTANTS host, companion, k1, k2, Scenes

ASSUME ScenesAssumption ==
    Scenes \subseteq {"faults", "rivals", "two_keys", "deadline", "link", "order", "readings"}

VARIABLE scene

MCDeck == << Block("q1", "question", "q2"), Block("c1", "content", None),
             Block("q2", "question", None) >>

MCInsertion ==
    [quick |-> << Block("x1", "question", None) >>,
     pack |-> << Block("p1", "question", "p2"), Block("p2", "question", None) >>,
     published |-> << Block("y1", "question", None) >>]

MCDecks == {MCDeck, << Block("q1", "question", None), Block("q2", "question", None) >>}

MCOffers == [w \in {host, companion} |->
                IF w = host THEN CommandKinds ELSE {"advance", "card", "quick"}]

-------------------------------------------------------------------------------
\* One window whose requests, pass and source may all fail.
Faults ==
    /\ UNCHANGED << answersVars, clock >>
    /\ window'[companion] = window[companion] /\ pass'[companion] = pass[companion]
    /\ source' # source => source = "published" /\ window[host].kind = "published"

\* Two windows, and the endpoint without a pass, each with one attempt.
Rivals ==
    /\ UNCHANGED << answersVars, clock, pass, faults, fenced, source >>
    /\ \A w \in Windows : window'[w].try <= 1
    /\ window'[host].kind \in {None, "pack", "quick"}

\* A reading is not interrupted by other steps.
Calm == reading # NoReading => reading' # reading

Page(revisions) ==
    /\ UNCHANGED commandVars /\ Calm /\ room'.revision <= revisions
    /\ reading'.for # "broadcast" /\ roster' = roster

Frozen == clock' = 0 /\ room.flex

\* The keys are alike, so the page may as well use them in this order.
InOrder == client'.sub.key = k2 => client'.told[k1] # None

Online == client'.link # "down" /\ reconc'.stage # "rest"

\* The page submits twice; the room's clock stands still.
TwoKeys == Page(2) /\ InOrder /\ Frozen /\ ~fenced' /\ Online

OneKey == client'.sub.key # k2

\* The page submits once, around the deadline.
Deadline == Page(2) /\ clock' <= 2 /\ OneKey /\ ~fenced' /\ Online

\* The page submits once and loses its connection, or the workspace is deleted.
Link == Page(3) /\ OneKey /\ Frozen

\* Others join and answer; broadcasts are late and out of order.
Order ==
    /\ UNCHANGED << commandVars, emission >> /\ Calm
    /\ room'.revision <= 3 /\ clock' <= 2 /\ Online /\ ~fenced'

\* Readings of a room that changes.
Readings ==
    /\ UNCHANGED << commandVars, client >>
    /\ room'.revision <= 3 /\ clock' <= 2 /\ ~fenced'

Untimed == {"faults", "rivals", "two_keys", "link"}
Linked == {"faults", "rivals"}

MCInit ==
    /\ RoomInit({Me}) /\ CommandsInit /\ AnswersInit /\ scene \in Scenes
    /\ room.flex = (scene \in Untimed) /\ (room.blocks = MCDeck) = (scene \in Linked)

MCNext ==
    /\ UNCHANGED scene
    /\ \/ /\ scene \in Linked /\ CommandsNext
          /\ scene = "faults" => Faults
          /\ scene = "rivals" => Rivals
       \/ /\ scene \notin Linked /\ AnswersNext
          /\ scene = "two_keys" => TwoKeys
          /\ scene = "deadline" => Deadline
          /\ scene = "link" => Link
          /\ scene = "order" => Order
          /\ scene = "readings" => Readings

MCSpec == MCInit /\ [][MCNext]_<< roomVars, commandVars, answersVars, scene >>

\* The room's timeline names its blocks, what a command was told stays true, and a
\* submission under way is always watched: RoomInv, CommandsInv and AnswersInv.
PresentationInv == RoomInv /\ CommandsInv /\ AnswersInv
===============================================================================
