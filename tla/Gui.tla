---------------------------------- MODULE Gui ----------------------------------
(***************************************************************************)
(* gui.c and the render loop of main.c: what is changed in the tree of     *)
(* elements is drawn.                                                      *)
(*                                                                         *)
(* An element is drawn while it and all elements above it are shown and    *)
(* not hidden.  A change marks its element dirty, and the elements above   *)
(* as far as it can be seen; then gui_element_check_render asks for a      *)
(* frame if the marks reach the root.  A frame draws everything.           *)
(*                                                                         *)
(* A change under gui_lock is one action.  Many are made without it, by    *)
(* the menu, the applications and the HTTP client: those are two, because  *)
(* the renderer takes the mark of each element away as soon as that one is *)
(* drawn, the elements below it first: a change may come before or after,  *)
(* and its check may find some of its marks gone.                          *)
(*                                                                         *)
(* What an element looks like is one value.  Positions are part of it, and *)
(* clipping is left out.                                                   *)
(***************************************************************************)
EXTENDS Naturals, FiniteSets

CONSTANTS
  Elements, Root,       \* Root: the container of gui_t
  Parent,               \* the parent an element has, or is given
  Above,                \* the element, its parent, and so on up to Root
  Dynamic,              \* the elements added and removed while running
  Animated,             \* those that ask for the next frame themselves
  Looks,                \* what an element may look like
  Callers,              \* the tasks that change elements without gui_lock
  MaxChanges            \* bound of the number of changes

NoElement == "none"

ASSUME GuiAssumption ==
  /\ Root \in Elements /\ Dynamic \subseteq Elements \ {Root}
  /\ Parent \in [Elements \ {Root} -> Elements]
  /\ Above \in [Elements -> SUBSET Elements]
  /\ Above[Root] = {Root}
  /\ \A e \in Elements \ {Root} : Above[e] = {e} \cup Above[Parent[e]] /\ e \notin Above[Parent[e]]
  /\ \A e \in Elements :
       /\ {e, Root} \subseteq Above[e]
       /\ \A a \in Above[e] : Above[a] \subseteq Above[e] /\ (a # e => e \notin Above[a])
  /\ NoElement \notin Elements
  /\ Animated \subseteq Elements /\ MaxChanges \in Nat

VARIABLES
  attached,             \* the elements that are in the list of their parent
  shown, hidden, dirty, \* the flags, as sets
  look,
  changes,              \* the number of changes so far
  pending,              \* by caller: where its check is to start, or NoElement
  notified,             \* the notification of main_task
  renderer,             \* the render loop
  to_draw,              \* the elements it has still to return from
  frame,                \* what it has drawn
  screen,               \* the image on the display
  timed,                \* render_ret >= 0
  met                   \* history: callers whose change met a frame that is being
                        \* drawn, and did not ask for another since

tree == <<attached, shown, hidden, look>>
loop == <<renderer, to_draw, frame, screen, timed>>
vars == <<tree, dirty, changes, pending, notified, loop, met>>

-------------------------------------------------------------------------------
(* The tree.                                                                *)

Strictly(e) == Above[e] \ {e}
Open(e) == e \in shown /\ e \notin hidden

\* The elements reached from e by parent pointers.
Chain(e) == {a \in Above[e] : \A b \in Above[e] \ Above[a] : b \in attached}

\* The elements reached from e by the lists of children.
Subtree(e) == {d \in Elements : e \in Chain(d)}

Visible(e) == Root \in Chain(e) /\ \A b \in Above[e] \ {Root} : Open(b)

\* What gui_container_render draws of it all.
Picture == [e \in {e \in Elements : Visible(e)} |-> look[e]]

\* gui_element_render is called for the children of what is drawn.
Visited == {e \in Elements : Root \in Chain(e) /\ \A b \in Strictly(e) \ {Root} : Open(b)}

\* gui_element_invalidate marks e, and what is above, up to the first that is
\* hidden or not shown.
Invalidate(e) == {a \in Chain(e) : \A b \in Above[e] : a \in Above[b] => Open(b)}
InvalidateParent(e) ==
  {a \in Chain(e) \ {e} : \A b \in Strictly(e) : a \in Above[b] => Open(b)}

\* gui_element_check_render, from e, with the marks d.
Requests(e, d) == Root \in Chain(e) /\ Above[e] \subseteq d

-------------------------------------------------------------------------------
(* The changes: what each does to the tree, and where its check starts.     *)

\* gui_element_set_size and the other functions that change what is drawn.
set_look(e, l) ==
  /\ look' = [look EXCEPT ![e] = l]
  /\ dirty' = dirty \cup Invalidate(e)
  /\ UNCHANGED <<attached, shown, hidden>>

\* Mutant: hiding an element invalidates it as any change does, after it is
\* hidden.
HideThenInvalidate(e, h) ==
  /\ hidden' = IF h THEN hidden \cup {e} ELSE hidden \ {e}
  /\ dirty' = IF h THEN dirty ELSE dirty \cup Invalidate(e)
  /\ UNCHANGED <<attached, shown, look>>

gui_element_set_hidden(e, h) ==
  /\ hidden' = IF h THEN hidden \cup {e} ELSE hidden \ {e}
  /\ dirty' = IF e \in shown THEN dirty \cup {e} \cup InvalidateParent(e) ELSE dirty
  /\ UNCHANGED <<attached, shown, look>>

\* gui_element_set_shown, of the element and all below it.
set_shown(e, s) ==
  /\ shown' = IF s THEN shown \cup Subtree(e) ELSE shown \ Subtree(e)
  /\ dirty' = dirty \cup Subtree(e) \cup InvalidateParent(e)

gui_element_show(e) ==
  /\ set_shown(e, TRUE)
  /\ UNCHANGED <<attached, hidden, look>>

gui_element_add_child(e) ==
  /\ e \in Dynamic \ attached
  /\ attached' = attached \cup {e}
  /\ UNCHANGED <<shown, hidden, dirty, look>>

gui_element_remove_child(e) ==
  /\ e \in Dynamic \cap attached
  /\ set_shown(e, FALSE)
  /\ attached' = attached \ {e}
  /\ UNCHANGED <<hidden, look>>

\* A change of element e whose check starts at c.  What is not in the tree is
\* given its look, as the HTTP client does before it adds a label; nobody
\* shows it.
ChangeOf(e, c) ==
  \/ c = e /\ \E l \in Looks : set_look(e, l)
  \/ c = e /\ e \in attached /\ \E h \in BOOLEAN : gui_element_set_hidden(e, h)
  \/ c = e /\ e \in attached /\ gui_element_show(e)
  \/ c = Parent[e] /\ (gui_element_add_child(e) \/ gui_element_remove_child(e))

-------------------------------------------------------------------------------
(* The tasks that change elements.                                          *)

Count == changes < MaxChanges /\ changes' = changes + 1

\* gui_lock, a change, gui_unlock: not while a frame is drawn.
LockedChange(e, c) ==
  /\ Count
  /\ renderer # "drawing"
  /\ ChangeOf(e, c)
  /\ notified' = (notified \/ Requests(c, dirty)')
  /\ UNCHANGED <<pending, loop, met>>

\* The tree is changed while it is drawn: the change may be in the frame or not,
\* what is no longer drawn may be left out, and what is drawn now may be added.
MeetsFrame ==
  /\ frame' \in {frame, Picture'}
  /\ \E gone \in SUBSET (to_draw \ Visited'), new \in SUBSET (Visited' \ Visited) :
       to_draw' = (to_draw \ gone) \cup new

UnlockedChange(t, e, c) ==
  /\ Count
  /\ pending[t] = NoElement
  /\ ChangeOf(e, c)
  /\ pending' = [pending EXCEPT ![t] = c]
  /\ IF renderer = "drawing" THEN MeetsFrame /\ met' = met \cup {t}
     ELSE UNCHANGED <<to_draw, frame, met>>
  /\ UNCHANGED <<notified, renderer, screen, timed>>

\* Mutant: only the element itself is looked at.
CheckElementOnly(t) ==
  /\ pending[t] # NoElement
  /\ pending' = [pending EXCEPT ![t] = NoElement]
  /\ notified' = (notified \/ pending[t] = Root)
  /\ met' = IF Requests(pending[t], dirty) THEN met \ {t} ELSE met
  /\ UNCHANGED <<tree, dirty, changes, loop>>

gui_element_check_render(t) ==
  /\ pending[t] # NoElement
  /\ pending' = [pending EXCEPT ![t] = NoElement]
  /\ notified' = (notified \/ Requests(pending[t], dirty))
  /\ met' = IF Requests(pending[t], dirty) THEN met \ {t} ELSE met
  /\ UNCHANGED <<tree, dirty, changes, loop>>

-------------------------------------------------------------------------------
(* The render loop.                                                         *)

\* ulTaskNotifyTake, without a limit or until the next frame is due.
TakeNotification ==
  /\ renderer = "waiting" /\ (notified \/ timed)
  /\ notified' = FALSE
  /\ renderer' = "notified"
  /\ UNCHANGED <<tree, dirty, changes, pending, to_draw, frame, screen, timed, met>>

\* gui_lock, and the elements are drawn.
gui_render ==
  /\ renderer = "notified"
  /\ renderer' = "drawing"
  /\ to_draw' = Visited \ {Root}
  /\ frame' = Picture
  /\ met' = {}
  /\ UNCHANGED <<tree, dirty, changes, pending, notified, screen, timed>>

\* gui_element_render has drawn e and all below it.
ElementReturns(e) ==
  /\ renderer = "drawing"
  /\ \A d \in to_draw : e \notin Strictly(d)
  /\ to_draw' = to_draw \ {e}
  /\ dirty' = dirty \ {e}
  /\ UNCHANGED <<tree, changes, pending, notified, renderer, frame, screen, timed, met>>

\* gui_render returns, and gui_unlock.
RenderReturns ==
  /\ renderer = "drawing" /\ to_draw = {}
  /\ renderer' = "drawn"
  /\ dirty' = dirty \ {Root}
  /\ timed' = (Animated \cap DOMAIN frame # {})
  /\ UNCHANGED <<tree, changes, pending, notified, to_draw, frame, screen, met>>

\* oled_write_image and oled_show_image
ShowImage ==
  /\ renderer = "drawn"
  /\ renderer' = "waiting"
  /\ screen' = frame
  /\ UNCHANGED <<tree, dirty, changes, pending, notified, to_draw, frame, timed, met>>

RenderLoop ==
  TakeNotification \/ gui_render \/ (\E e \in to_draw : ElementReturns(e)) \/ RenderReturns \/ ShowImage

-------------------------------------------------------------------------------
\* The elements have been initialised and added, and are hidden or not shown.
Init ==
  /\ attached = Elements \ (Dynamic \cup {Root})
  /\ shown = {Root} /\ hidden \in SUBSET (Elements \ {Root}) /\ dirty = {}
  /\ look \in [Elements -> Looks]
  /\ changes = 0 /\ pending = [t \in Callers |-> NoElement]
  /\ notified = FALSE /\ renderer = "waiting" /\ to_draw = {} /\ timed = FALSE /\ met = {}
  /\ frame = Picture /\ screen = frame

Next ==
  \/ \E e \in Elements \ {Root}, c \in Elements :
       LockedChange(e, c) \/ \E t \in Callers : UnlockedChange(t, e, c)
  \/ \E t \in Callers : gui_element_check_render(t)
  \/ RenderLoop

Fairness == WF_vars(RenderLoop) /\ \A t \in Callers : WF_vars(gui_element_check_render(t))

Spec == Init /\ [][Next]_vars /\ Fairness

-------------------------------------------------------------------------------
(* Properties.                                                              *)

\* The values of the variables; and what is not in the tree is not shown.
TypeOK ==
  /\ attached \subseteq Elements \ {Root}
  /\ Root \in shown /\ shown \subseteq attached \cup {Root}
  /\ hidden \subseteq Elements \ {Root} /\ dirty \subseteq Elements
  /\ look \in [Elements -> Looks]
  /\ changes \in 0..MaxChanges
  /\ pending \in [Callers -> Elements \cup {NoElement}]
  /\ notified \in BOOLEAN /\ timed \in BOOLEAN /\ met \subseteq Callers
  /\ renderer \in {"waiting", "notified", "drawing", "drawn"} /\ to_draw \subseteq Elements

\* A caller has still to make a check that will ask for a frame.
Asks(t) == pending[t] # NoElement /\ Requests(pending[t], dirty)

\* What the render loop shows, or will show, without another notification is
\* not what the tree is now.
Behind ==
  CASE renderer = "waiting" -> screen # Picture
    [] renderer = "notified" -> FALSE
    [] OTHER -> frame # Picture

\* A change that can be seen is drawn: the render loop is notified, wakes up
\* by itself, or a caller has still to make its check, which will notify it.
\* Only a change made without gui_lock while a frame is drawn may be missed, when
\* its check finds that the drawing has taken one of its marks away; it is until
\* the next frame.
ChangeNoticed == Behind /\ met = {} => notified \/ timed \/ \E t \in Callers : Asks(t)

\* When the changes end the display shows the tree, if none was missed since the
\* last frame.
TreeDisplayed == <>[](met # {} \/ screen = Picture)
================================================================================
