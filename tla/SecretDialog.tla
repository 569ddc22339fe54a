---------------------------- MODULE SecretDialog -----------------------------
(***************************************************************************)
(* secret_dialog.py: the dialog that shows the stored password for a short *)
(* while and lends it to the clipboard.  Three kinds of GLib timers, the   *)
(* user's clicks, the window that takes the dialog down and other programs *)
(* that use the clipboard take turns in one main loop.  One dialog follows *)
(* another; what a dialog hands out must not outlive it.                   *)
(***************************************************************************)
EXTENDS Integers

CONSTANTS
  HideTicks,   \* HIDE_SECONDS, in ticks of the clock
  ExpireTicks  \* EXPIRE_SECONDS

ASSUME TicksAssumption == /\ HideTicks \in Nat \ {0}
                          /\ ExpireTicks \in Nat \ {0}
                          /\ HideTicks <= ExpireTicks

VARIABLES
  dialog,    \* "open", "closing" (close() until its `closed' signal), or "none": cleared
  visible,   \* the field shows the password
  provider,  \* the dialog remembers the provider it gave to the clipboard
  content,   \* the clipboard: "empty", "ours" (the password) or "other"
  sources,   \* live GLib timers; `named' says that the dialog's attribute holds it
  openFor,   \* history: time since the dialog was made,
  shownFor,  \* ... since the password was last made visible,
  copiedFor  \* ... since it was last copied

clocks == <<openFor, shownFor, copiedFor>>
vars   == <<dialog, visible, provider, content, sources, openFor, shownFor, copiedFor>>

Kinds  == {"hide", "copy", "expire"}
Source == [kind: Kinds, left: 0..ExpireTicks, named: BOOLEAN]

TypeOK ==
  /\ dialog \in {"none", "open", "closing"}
  /\ visible \in BOOLEAN /\ provider \in BOOLEAN
  /\ content \in {"empty", "ours", "other"}
  /\ sources \subseteq Source
  /\ openFor \in 0..ExpireTicks /\ shownFor \in 0..ExpireTicks /\ copiedFor \in 0..ExpireTicks
-----------------------------------------------------------------------------
(* Timers: an attribute names at most one source of its kind. *)

Cancel(live, kinds) == {s \in live : ~(s.kind \in kinds /\ s.named)}
Arm(live, kind, ticks) ==
  {[s EXCEPT !.named = @ /\ s.kind # kind] : s \in live}
    \cup {[kind |-> kind, left |-> ticks, named |-> TRUE]}

Alive == dialog # "none"                                          \* not self.cleared

\* What clear_clipboard leaves: only our own copy is taken back.
TakenBack == IF provider /\ content = "ours" THEN "empty" ELSE content

\* Mutant: the provider is forgotten before it is compared with the clipboard.
ClearForgetting(live) ==
  /\ dialog' = "none" /\ visible' = FALSE
  /\ provider' = FALSE /\ content' = content
  /\ sources' = Cancel(live, Kinds)
  /\ UNCHANGED clocks

\* clear(): hidden, every timer cancelled, our copy taken back, the handler gone.
Clear(live) ==
  /\ dialog' = "none" /\ visible' = FALSE
  /\ provider' = FALSE /\ content' = TakenBack
  /\ sources' = Cancel(live, Kinds)
  /\ UNCHANGED clocks
-----------------------------------------------------------------------------
(* The dialog. *)

\* Mutant: the dialog has no expiry of its own.
OpenForGood ==
  /\ ~Alive /\ dialog' = "open" /\ openFor' = 0
  /\ UNCHANGED <<visible, provider, content, sources, shownFor, copiedFor>>

\* __init__, for an authorized reveal when the window has no dialog.
Open ==
  /\ ~Alive /\ dialog' = "open" /\ openFor' = 0
  /\ sources' = Arm(sources, "expire", ExpireTicks)
  /\ UNCHANGED <<visible, provider, content, shownFor, copiedFor>>

HidePassword(live) ==
  /\ visible' = FALSE /\ sources' = Cancel(live, {"hide"})
  /\ UNCHANGED <<dialog, provider, content, clocks>>

ShowPassword ==
  /\ visible' = TRUE /\ shownFor' = 0
  /\ sources' = Arm(sources, "hide", HideTicks)
  /\ UNCHANGED <<dialog, provider, content, openFor, copiedFor>>

Toggle == Alive /\ IF visible THEN HidePassword(sources) ELSE ShowPassword

\* Mutant: the timer of the copy before is left running.
CopyPasswordAgain ==
  /\ Alive
  /\ provider' = TRUE /\ content' = "ours" /\ copiedFor' = 0
  /\ sources' = Arm(sources, "copy", HideTicks)
  /\ UNCHANGED <<dialog, visible, openFor, shownFor>>

\* The clipboard takes the new provider or refuses it; what we copied before is
\* taken back first, and its timer with it.
CopyPassword ==
  /\ Alive
  /\ \/ /\ provider' = TRUE /\ content' = "ours" /\ copiedFor' = 0
        /\ sources' = Arm(Cancel(sources, {"copy"}), "copy", HideTicks)
     \/ /\ provider' = FALSE /\ content' = TakenBack /\ UNCHANGED copiedFor
        /\ sources' = Cancel(sources, {"copy"})
  /\ UNCHANGED <<dialog, visible, openFor, shownFor>>

Close == dialog = "open" /\ dialog' = "closing"
         /\ UNCHANGED <<visible, provider, content, sources, clocks>>

Closed == dialog = "closing" /\ Clear(sources)

\* The window's clear_secret: a request, a change of language, hiding, closing.
ClearSecret == Alive /\ Clear(sources)
-----------------------------------------------------------------------------
(* Timers that are due, the clock, and other programs. *)

\* clear_clipboard as the callback of the copy timer.
TakeBack(live) ==
  /\ provider' = FALSE /\ content' = TakenBack
  /\ sources' = Cancel(live, {"copy"})
  /\ UNCHANGED <<dialog, visible, clocks>>

Fire(s) ==
  /\ s.left = 0
  /\ LET rest == sources \ {s} IN
     \/ s.kind = "hide" /\ HidePassword(rest)
     \/ s.kind = "copy" /\ TakeBack(rest)
     \/ s.kind = "expire" /\ Alive /\ Clear(rest)                 \* then close()

\* A timer that is due runs before the clock goes on.
Tick ==
  /\ \A s \in sources : s.left > 0
  /\ sources' = {[s EXCEPT !.left = @ - 1] : s \in sources}
  /\ openFor' = IF Alive THEN openFor + 1 ELSE 0
  /\ shownFor' = IF visible THEN shownFor + 1 ELSE 0
  /\ copiedFor' = IF content = "ours" THEN copiedFor + 1 ELSE 0
  /\ UNCHANGED <<dialog, visible, provider, content>>

\* Another program, or the window's copy of an address, takes the clipboard over,
\* and clipboard_changed forgets the provider.
OtherContent(c) ==
  /\ content' = c
  /\ IF Alive /\ provider
       THEN provider' = FALSE /\ sources' = Cancel(sources, {"copy"})
       ELSE UNCHANGED <<provider, sources>>
  /\ UNCHANGED <<dialog, visible, clocks>>
-----------------------------------------------------------------------------
Init ==
  /\ dialog = "none" /\ visible = FALSE /\ provider = FALSE
  /\ content \in {"empty", "other"} /\ sources = {}
  /\ openFor = 0 /\ shownFor = 0 /\ copiedFor = 0

User  == Open \/ Toggle \/ CopyPassword \/ Close \/ ClearSecret
Timer == \E s \in sources : Fire(s)
Next  ==
  \/ User \/ Closed \/ Timer \/ Tick
  \/ \E c \in {"empty", "other"} : OtherContent(c)

Spec == Init /\ [][Next]_vars
-----------------------------------------------------------------------------
\* Whatever the user, the timers and other programs do in whatever order: the
\* password is visible for at most HIDE_SECONDS at a stretch, its copy is in the
\* clipboard for at most HIDE_SECONDS, and neither outlives the dialog
\* (secret_dialog.py:61-67, 82-107).
SecretExpires ==
  /\ visible => Alive /\ shownFor <= HideTicks
  /\ content = "ours" => Alive /\ provider /\ copiedFor <= HideTicks
  /\ ~Alive => sources = {}

\* What is in the clipboard gets its full time: other programs' content goes only
\* when the user copies the password or they replace it themselves, and no timer
\* of an earlier copy takes back a later one (secret_dialog.py:69-80).
ClipboardRespected ==
  [][/\ content = "other" /\ content' # "other" => CopyPassword \/ OtherContent("empty")
     /\ content = "ours" /\ content' = "empty" /\ Timer =>
          copiedFor = HideTicks \/ openFor = ExpireTicks]_vars
=============================================================================
