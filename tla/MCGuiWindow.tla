----------------------------- MODULE MCGuiWindow -----------------------------
(* GuiWindow with as many calls under way as it takes to let each overtake    *)
(* the user's next action.                                                     *)
EXTENDS GuiWindow
=============================================================================
