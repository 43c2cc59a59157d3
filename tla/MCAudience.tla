----------------------------- MODULE MCAudience -----------------------------
(* A behaviour follows the audience's data on the server, one viewer, or    *)
(* one page of the Round editor with its draft.                             *)
EXTENDS AudienceStore, AudiencePanel, DraftEditor

VARIABLE side

MCInit ==
  /\ StoreInit /\ PanelInit /\ EditorInit
  /\ side \in {"server", "viewer", "editor"} /\ (side # "server" => settings = Fresh)

MCNext ==
  /\ UNCHANGED side
  /\ \/ side = "server" /\ StoreNext /\ UNCHANGED << panelVars, editorVars >>
     \/ side = "viewer" /\ PanelNext /\ UNCHANGED << storeVars, editorVars >>
     \/ side = "editor" /\ EditorNext /\ UNCHANGED << storeVars, panelVars >>

MCSpec == MCInit /\ [][MCNext]_<<storeVars, panelVars, editorVars, side>>

\* What the viewer's panel shows is the room's chat, and the editor keeps its author's work.
PagesInv == PanelInv /\ EditorInv
=============================================================================
