-------------------------------- MODULE MCDwm -------------------------------
(* Instances of Dwm for TLC: small sets, and windows with telling properties. *)
EXTENDS Dwm

CONSTANTS w1, w2, w3, screen1, screen2

Plain ==
  [ parent |-> None, ruletags |-> {}, rulefloat |-> FALSE, dialog |-> FALSE,
    fullscreen |-> FALSE, fixed |-> FALSE ]

\* Plain windows.
AllPlain == [c \in Client |-> Plain]

\* w1 has a fixed size, w2 starts fullscreen, w3 is a dialog of w1, and a rule
\* would put it on a tag TAGMASK does not have, as the Firefox rule of config.h does.
StateHints ==
  [AllPlain EXCEPT ![w1].fixed = TRUE,
                   ![w2].fullscreen = TRUE,
                   ![w3].parent = w1, ![w3].dialog = TRUE, ![w3].ruletags = Bit \ Tag]

One == <<screen1>>

\* Tags, views and the stack on one monitor; and monitors that come and go.
ManyTags == {"view", "toggleview", "tag", "toggletag", "focusstack", "movestack", "zoom",
             "bar"}

ManyScreens == {"screens", "tagmon", "focusmon", "drag", "quit", "motion", "click"}

\* Windows that take no input, or say so later, and programs that take it.
Inputs == {"hints", "deaf", "steal", "focusmon", "screens", "kill"}

TagsOrScreens == {ManyTags, ManyScreens, Inputs}

\* The states of windows, on one monitor.
OfStates == {{"floatkey", "fullscreen", "type", "focusstack", "enter", "active",
              "hints", "urgent", "kill"}}

Windows == Permutations(Client)
=============================================================================
