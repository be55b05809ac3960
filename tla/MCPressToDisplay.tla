--------------------------- MODULE MCPressToDisplay ---------------------------
(* From a press to the display, on small instances of the components that do  *)
(* it: what the pins do is settled in Buttons, what the handlers of the       *)
(* buttons change has a frame in Gui, and the frame is drawn in Painting. The *)
(* initial state says which of them is looked at; the others stand still.     *)
EXTENDS Gui, Integers, Sequences, TLC

CONSTANTS
  NumButtons, ActiveLow, HoldHandlers, HoldButton, MinHold, Debounce, UsPerMs,
  QueueLength, Emulated, MaxTime, LastEdge,
  Layouts, Size, GlyphHeight, Changes(_), Hideable

VARIABLES
  part,                 \* the component that is looked at
  clock, pin, irq, queue, lost,
  last_level, debounce_deadline_us, debounced_level, last_button_press, dispatched,
  debounce_timer_active, debounce_timer_deadline, alarm, esp_timer, now, i, next_deadline,
  layout, hidden_elements, selected_entry, scroll

B == INSTANCE Buttons
P == INSTANCE Painting WITH hidden <- hidden_elements

buttonsVars ==
  <<clock, pin, irq, queue, lost, last_level, debounce_deadline_us, debounced_level, last_button_press,
    dispatched, debounce_timer_active, debounce_timer_deadline, alarm, esp_timer, now, i, next_deadline>>
paintingVars == <<layout, hidden_elements, selected_entry, scroll>>
MCvars == <<part, vars, buttonsVars, paintingVars>>

\* A handler for a hold of button 1.
MCHandlers == 1..1
MCHoldButton == [h \in HoldHandlers |-> 1]
MCMinHold == [h \in HoldHandlers |-> h]

\* The root, a container with a label, and a label that comes and goes.
MCElements == {"root", "container", "label", "ota_label"}
MCParent == [e \in {"container", "label", "ota_label"} |->
               IF e = "container" THEN "root" ELSE "container"]
MCAbove == [root |-> {"root"}, container |-> {"container", "root"},
            label |-> {"label", "container", "root"},
            ota_label |-> {"ota_label", "container", "root"}]

\* A frame of 6 by 4 pixels. A menu has two lists, with entries that move, overlap
\* or are almost as high as the list, and a line beside them. An application has
\* an animation, a text that moves, a container that is cut on any side, and one
\* that is not, with a text at its end.
Element(kind, children, x, y, w, h) ==
  [kind |-> kind, children |-> children, x |-> x, y |-> y, w |-> w, h |-> h,
   filled |-> FALSE, text |-> <<>>, text_offset |-> [x |-> 0, y |-> 0], align |-> "START", duration |-> -1]
Label(text, x, y, w, h) == [Element("label", <<>>, x, y, w, h) EXCEPT !.text = text]
MenuLayout ==
  "gui" :> Element("container", <<"menu">>, 0, 0, 6, 4)
  @@ "menu" :> Element("container", <<"list", "other list", "line">>, 0, 0, 6, 4)
  @@ "list" :> Element("list", <<"first", "second", "third">>, 1, 0, 4, 4)
  @@ "first" :> Label(<<2, 1>>, 0, 0, 3, 2)
  @@ "second" :> Element("marquee", <<"long">>, 0, 2, 3, 2)
  @@ "long" :> [Label(<<2, 2, 2>>, 0, 0, 6, 2) EXCEPT !.text_offset = [x |-> 1, y |-> 0]]
  @@ "third" :> [Label(<<3>>, 0, 5, 6, 1) EXCEPT !.text_offset = [x |-> 0, y |-> -1]]
  @@ "other list" :> Element("list", <<"high", "low">>, 1, 0, 4, 4)
  @@ "high" :> Label(<<1, 1>>, 0, 0, 3, 3)
  @@ "low" :> [Label(<<2, 3>>, 0, 3, 4, 1) EXCEPT !.align = "END"]
  @@ "line" :> [Element("rectangle", <<>>, 5, 0, 1, 4) EXCEPT !.filled = TRUE]
AppLayout ==
  "gui" :> Element("container", <<"animation", "panel", "status", "ticker">>, 0, 0, 6, 4)
  @@ "animation" :> [Element("animation", <<>>, 0, 0, 6, 4) EXCEPT !.duration = 7]
  @@ "panel" :> Element("container", <<"border", "picture", "title">>, 1, 1, 5, 4)
  @@ "border" :> Element("rectangle", <<>>, 2, -1, 4, 4)
  @@ "picture" :> Element("image", <<>>, 2, 0, 2, 2)
  @@ "title" :> [Label(<<1, 2>>, 0, 2, 4, 3) EXCEPT !.text_offset = [x |-> 1, y |-> -1]]
  @@ "status" :> Element("container", <<"soc", "bar">>, 0, 0, 4, 2)
  @@ "soc" :> [Label(<<1, 2>>, 0, 0, 4, 2) EXCEPT !.align = "END", !.text_offset = [x |-> -1, y |-> 1]]
  @@ "bar" :> [Element("rectangle", <<>>, 1, 1, 2, 2) EXCEPT !.filled = TRUE]
  @@ "ticker" :> Element("marquee", <<"news">>, 1, 3, 3, 1)
  @@ "news" :> [Label(<<2, 2>>, 0, 0, 5, 1) EXCEPT !.align = "CENTER"]
MCLayouts == {MenuLayout, AppLayout}
MCHideable == {"list", "other list", "animation", "ticker"}
\* Containers move, the text and the bar change.
MCChanges(l) ==
  IF "panel" \notin DOMAIN l THEN {}
  ELSE {[l EXCEPT !["panel"].x = x, !["panel"].y = y] : x \in {-1, 0, 2}, y \in {-1, 0, 1}}
       \cup {[l EXCEPT !["status"].x = x, !["status"].y = y] : x \in {0, 2}, y \in {0, 2}}
       \cup {[l EXCEPT !["bar"].w = w] : w \in 0..3}
       \cup {[l EXCEPT !["soc"].text = t] : t \in {<<1>>, <<1, 2>>, <<1, 2, 2>>}}
MCSize == [x |-> 6, y |-> 4]

\* The parts that are not looked at have one initial state.
MCInit ==
  /\ B!Init /\ Init /\ P!Init
  /\ part \in {"buttons", "changes", "frame"}
  /\ part # "buttons" => pin = [b \in 1..NumButtons |-> FALSE]
  /\ part # "changes" => hidden = {} /\ \A e \in Elements : look[e] = 1
  /\ part # "frame" => layout = MenuLayout

Buttons(Step) == part = "buttons" /\ Step /\ UNCHANGED <<part, vars, paintingVars>>

\* The steps of Buttons' PromptNext, of Gui and of Painting.
MCNext ==
  \/ \E b \in 1..NumButtons : Buttons(B!PromptEdge(b)) \/ Buttons(B!button_isr(b))
  \/ Buttons(B!button_event_loop) \/ Buttons(B!EspTimerTask) \/ Buttons(B!PromptTick)
  \/ part = "changes" /\ Next /\ UNCHANGED <<part, buttonsVars, paintingVars>>
  \/ part = "frame" /\ P!Next /\ UNCHANGED <<part, buttonsVars, vars>>

\* The fairness of Buttons' PromptSpec and of Gui.
MCFairness ==
  /\ \A b \in 1..NumButtons : WF_MCvars(Buttons(B!button_isr(b)))
  /\ WF_MCvars(Buttons(B!button_event_loop)) /\ WF_MCvars(Buttons(B!EspTimerTask))
  /\ SF_MCvars(Buttons(B!PromptTick))
  /\ Fairness

MCSpec == MCInit /\ [][MCNext]_MCvars /\ MCFairness

LevelsSettle == B!LevelsSettle
HoldsDetected == B!HoldsDetected
FrameAsPlaced == part = "frame" => P!FrameAsPlaced
SelectedInView == part = "frame" => P!SelectedInView
===============================================================================
