------------------------------- MODULE GuiProofs -------------------------------
(***************************************************************************)
(* Proofs about Gui and about Menu.                                        *)
(*                                                                         *)
(* Gui: the flags keep their types, and a change that can be seen is drawn, *)
(* for every tree of elements and any number of callers and changes.       *)
(*                                                                         *)
(* ChangeNoticed is not inductive: while a frame is drawn a caller that    *)
(* still has to make its check may lose the marks it needs.  Noticed says  *)
(* that then nobody's check is needed: a frame is asked for, or some       *)
(* caller in met has made what the frame does not show.                    *)
(*                                                                         *)
(* Menu: one screen is shown with its handler, the menu shows what is      *)
(* selected, and the app in flash is the active one, for every menu tree,  *)
(* any list of handlers and any number of presses and resets.              *)
(*                                                                         *)
(* None of the three is inductive: they speak of moments when nothing is   *)
(* under way.  MenuInv says what holds in between: which steps a thread    *)
(* has left (AtWork lists them all) goes with what is shown, what is       *)
(* selected and what is stored; as long as main has not finished, the      *)
(* button task has only calls left of handlers that are enabled; when the  *)
(* two overlapped, less is known (Wild).                                   *)
(***************************************************************************)
EXTENDS Gui, Menu, SequenceTheorems, WellFoundedInduction, TLAPS

-------------------------------------------------------------------------------
(* The tree.                                                                *)

\* The assumption on Above, one fact at a time.
LEMMA TreeFacts ==
  /\ Root \in Elements /\ Above[Root] = {Root} /\ NoElement \notin Elements
  /\ \A e \in Elements : Above[e] \subseteq Elements /\ e \in Above[e] /\ Root \in Above[e]
  /\ \A e \in Elements : \A a \in Above[e] :
       Above[a] \subseteq Above[e] /\ (a # e => e \notin Above[a])
  /\ \A e \in Elements \ {Root} : Parent[e] \in Elements /\ Above[Parent[e]] = Strictly(e)
  BY GuiAssumption DEF GuiAssumption, Strictly

\* The root is reached from what is in the tree, with all above it.
LEMMA RootReached ==
  ASSUME NEW e \in Elements
  PROVE  Root \in Chain(e) <=> Above[e] \ {Root} \subseteq attached
  BY TreeFacts DEF Chain

\* What makes two pictures equal.
LEMMA SamePicture ==
  ASSUME \A d \in Elements : Visible(d)' <=> Visible(d),
         \A d \in Elements : Visible(d) => look'[d] = look[d]
  PROVE  Picture' = Picture
<1>1. {e \in Elements : Visible(e)}' = {e \in Elements : Visible(e)}
  OBVIOUS
<1> QED
  BY <1>1 DEF Picture

-------------------------------------------------------------------------------
(* Types.                                                                   *)

\* The flags of the tree.
TreeOK ==
  /\ attached \subseteq Elements \ {Root}
  /\ Root \in shown /\ shown \subseteq attached \cup {Root}
  /\ hidden \subseteq Elements \ {Root} /\ dirty \subseteq Elements
  /\ look \in [Elements -> Looks]

LEMMA ChangeTyped ==
  ASSUME TreeOK, NEW e \in Elements \ {Root}, NEW c \in Elements, ChangeOf(e, c)
  PROVE  TreeOK'
<1>1. Invalidate(e) \subseteq Elements /\ InvalidateParent(e) \subseteq Elements
  BY TreeFacts DEF Invalidate, InvalidateParent, Chain
<1>2. e \in Subtree(e) /\ Subtree(e) \subseteq Elements /\ Root \notin Subtree(e)
  BY TreeFacts DEF Subtree, Chain
<1>3. e \in attached => Subtree(e) \subseteq attached
  <2> SUFFICES ASSUME e \in attached, NEW d \in Elements, e \in Chain(d), d # e
               PROVE  d \in attached
    BY DEF Subtree
  <2>1. d \in Above[d] \ Above[e]
    BY TreeFacts DEF Chain
  <2> QED
    BY <2>1 DEF Chain
<1>4. CASE \E l \in Looks : set_look(e, l)
  BY <1>1, <1>4 DEF set_look, TreeOK
<1>5. CASE \E h \in BOOLEAN : gui_element_set_hidden(e, h)
  BY <1>1, <1>5 DEF gui_element_set_hidden, TreeOK
<1>6. CASE e \in attached /\ gui_element_show(e)
  BY <1>1, <1>2, <1>3, <1>6 DEF gui_element_show, set_shown, TreeOK
<1>7. CASE gui_element_add_child(e)
  BY <1>7 DEF gui_element_add_child, TreeOK
<1>8. CASE gui_element_remove_child(e)
  BY <1>1, <1>2, <1>8 DEF gui_element_remove_child, set_shown, TreeOK
<1> QED
  BY <1>4, <1>5, <1>6, <1>7, <1>8 DEF ChangeOf

LEMMA TypeInit == Init => TypeOK
<1> SUFFICES ASSUME Init PROVE TypeOK
  OBVIOUS
<1>1. changes \in 0..MaxChanges
  BY GuiAssumption DEF Init, GuiAssumption
<1>2. attached \subseteq Elements \ {Root}
  BY DEF Init
<1>3. pending \in [Callers -> Elements \cup {NoElement}]
  BY DEF Init
<1> QED
  BY <1>1, <1>2, <1>3 DEF Init, TypeOK

LEMMA TypeStep == TypeOK /\ [Next]_vars => TypeOK'
<1> SUFFICES ASSUME TypeOK, [Next]_vars PROVE TypeOK'
  OBVIOUS
<1> USE DEF TypeOK
<1>1. ASSUME NEW e \in Elements \ {Root}, NEW c \in Elements, ChangeOf(e, c), Count
      PROVE  TreeOK' /\ changes' \in 0..MaxChanges
  <2>1. TreeOK
    BY DEF TreeOK
  <2>2. TreeOK'
    BY <1>1, <2>1, ChangeTyped
  <2> QED
    BY <1>1, <2>2, GuiAssumption DEF Count, GuiAssumption
<1>2. ASSUME NEW e \in Elements \ {Root}, NEW c \in Elements, LockedChange(e, c)
      PROVE  TypeOK'
  <2>1. TreeOK' /\ changes' \in 0..MaxChanges
    BY <1>1, <1>2 DEF LockedChange
  <2> QED
    BY <1>2, <2>1 DEF LockedChange, loop, TreeOK
<1>3. ASSUME NEW t \in Callers, NEW e \in Elements \ {Root}, NEW c \in Elements,
             UnlockedChange(t, e, c)
      PROVE  TypeOK'
  <2>1. TreeOK' /\ changes' \in 0..MaxChanges
    BY <1>1, <1>3 DEF UnlockedChange
  <2>2. to_draw' \subseteq Elements
    BY <1>3 DEF UnlockedChange, MeetsFrame, Visited
  <2>3. pending' \in [Callers -> Elements \cup {NoElement}] /\ met' \subseteq Callers
    BY <1>3 DEF UnlockedChange
  <2> QED
    BY <1>3, <2>1, <2>2, <2>3 DEF UnlockedChange, TreeOK
<1>4. ASSUME NEW t \in Callers, gui_element_check_render(t) PROVE TypeOK'
  BY <1>4 DEF gui_element_check_render, tree, loop
<1>5. CASE TakeNotification
  BY <1>5 DEF TakeNotification, tree
<1>6. CASE gui_render
  <2>1. Visited \subseteq Elements
    BY DEF Visited
  <2> QED
    BY <1>6, <2>1 DEF gui_render, tree
<1>7. CASE RenderReturns \/ \E e \in to_draw : ElementReturns(e)
  BY <1>7 DEF RenderReturns, ElementReturns, tree
<1>8. CASE ShowImage
  BY <1>8 DEF ShowImage, tree
<1>9. CASE UNCHANGED vars
  BY <1>9 DEF vars, tree, loop
<1> QED
  BY <1>2, <1>3, <1>4, <1>5, <1>6, <1>7, <1>8, <1>9 DEF Next, RenderLoop

\* The flags, the callers and the render loop keep their types, and an element
\* that was removed from the tree is not shown.
THEOREM GuiTypes == Spec => []TypeOK
  BY TypeInit, TypeStep, PTL DEF Spec

-------------------------------------------------------------------------------
(* A change that can be seen asks for a frame.                              *)

\* If it could be seen before or after the change.
LEMMA ChangeRequests ==
  ASSUME TypeOK, NEW e \in Elements \ {Root}, NEW c \in Elements, ChangeOf(e, c),
         Picture' # Picture
  PROVE  Requests(c, dirty)'
<1> DEFINE Path(d) == Above[d] \ {Root} \subseteq attached
<1>1. Root \in shown /\ Root \notin hidden /\ Open(Root)
  BY DEF TypeOK, Open
<1>2. CASE c = e /\ \E l \in Looks : set_look(e, l)
  <2>1. UNCHANGED <<attached, shown, hidden>> /\ dirty' = dirty \cup Invalidate(e)
        /\ \A d \in Elements \ {e} : look'[d] = look[d]
    BY <1>2 DEF set_look, TypeOK
  <2>2. \A d \in Elements : Visible(d)' <=> Visible(d)
    BY <2>1 DEF Visible, Chain, Open
  <2>3. Visible(e)
    BY <2>1, <2>2, SamePicture
  <2>4. Above[e] \subseteq Invalidate(e)
    BY <1>1, <2>3, TreeFacts DEF Visible, Invalidate, Chain
  <2> QED
    BY <1>2, <2>1, <2>3, <2>4 DEF Visible, Requests, Chain
<1>3. CASE c = e /\ \E h \in BOOLEAN : gui_element_set_hidden(e, h)
  <2>1. UNCHANGED <<attached, shown, look>> /\ hidden' \ {e} = hidden \ {e}
        /\ (e \in shown => dirty' = dirty \cup {e} \cup InvalidateParent(e))
    BY <1>3 DEF gui_element_set_hidden
  <2>2. PICK d \in Elements : ~(Visible(d)' <=> Visible(d))
    BY <2>1, SamePicture
  <2>3. e \in Above[d] /\ e \in shown /\ Root \in Chain(d)
        /\ \A b \in Strictly(e) : Open(b)
    BY <1>1, <2>1, <2>2, TreeFacts DEF Visible, Open, Chain, Strictly
  <2>4. Root \in Chain(e)
    BY <2>3, TreeFacts, RootReached
  <2>5. Strictly(e) \subseteq InvalidateParent(e)
    BY <2>3, <2>4, TreeFacts DEF InvalidateParent, Chain, Strictly
  <2> QED
    BY <1>3, <2>1, <2>3, <2>4, <2>5 DEF Requests, Chain, Strictly
<1>4. CASE c = e /\ e \in attached /\ gui_element_show(e)
  <2>1. UNCHANGED <<attached, hidden, look>> /\ shown' = shown \cup Subtree(e)
        /\ dirty' = dirty \cup Subtree(e) \cup InvalidateParent(e)
    BY <1>4 DEF gui_element_show, set_shown
  <2>2. PICK d \in Elements : ~(Visible(d)' <=> Visible(d))
    BY <2>1, SamePicture
  <2>3. PICK b \in Above[d] : b \in Subtree(e)
    BY <2>1, <2>2 DEF Visible, Open, Chain
  <2>4. e \in Above[d] /\ Root \in Chain(d) /\ \A a \in Above[d] : Open(a)' \/ a = Root
    BY <2>1, <2>2, <2>3, TreeFacts DEF Visible, Open, Chain, Subtree
  <2>5. \A a \in Strictly(e) : a \notin Subtree(e)
    BY TreeFacts DEF Strictly, Subtree, Chain
  <2>6. \A a \in Strictly(e) : Open(a)
    BY <1>1, <2>1, <2>4, <2>5, TreeFacts DEF Open, Strictly
  <2>7. Root \in Chain(e)
    BY <2>4, TreeFacts, RootReached
  <2>8. Strictly(e) \subseteq InvalidateParent(e) /\ e \in Subtree(e)
    BY <2>6, <2>7, TreeFacts DEF InvalidateParent, Chain, Strictly, Subtree
  <2> QED
    BY <1>4, <2>1, <2>7, <2>8 DEF Requests, Chain, Strictly
<1>5. CASE gui_element_add_child(e)
  <2>1. UNCHANGED <<shown, hidden, look>> /\ attached' = attached \cup {e} /\ e \notin shown
    BY <1>5 DEF gui_element_add_child, TypeOK
  <2>2. ASSUME NEW d \in Elements, e \notin Above[d]
        PROVE  Visible(d)' <=> Visible(d)
    BY <2>1, <2>2 DEF Visible, Open, Chain
  <2>3. ASSUME NEW d \in Elements, e \in Above[d]
        PROVE  ~Visible(d)' /\ ~Visible(d)
    BY <2>1, <2>3 DEF Visible, Open
  <2> QED
    BY <2>1, <2>2, <2>3, SamePicture
<1>6. CASE c = Parent[e] /\ gui_element_remove_child(e)
  <2>1. UNCHANGED <<hidden, look>> /\ attached' = attached \ {e}
        /\ shown' = shown \ Subtree(e)
        /\ dirty' = dirty \cup Subtree(e) \cup InvalidateParent(e)
    BY <1>6 DEF gui_element_remove_child, set_shown
  <2>2. ASSUME NEW d \in Elements, e \notin Above[d]
        PROVE  Visible(d)' <=> Visible(d)
    <3>1. \A b \in Above[d] : b \notin Subtree(e)
      BY <2>2, TreeFacts DEF Subtree, Chain
    <3> QED
      BY <2>1, <2>2, <3>1 DEF Visible, Open, Chain
  <2>3. ASSUME NEW d \in Elements, e \in Above[d]
        PROVE  ~Visible(d)'
    <3>1. e \notin shown'
      BY <2>1, TreeFacts DEF Subtree, Chain
    <3> QED
      BY <2>3, <3>1 DEF Visible, Open
  <2>4. PICK d \in Elements : Visible(d) /\ e \in Above[d]
    BY <2>1, <2>2, <2>3, SamePicture
  <2>5. Root \in Chain(e) /\ \A a \in Strictly(e) : Open(a)
    BY <1>1, <2>4, TreeFacts, RootReached DEF Visible, Strictly
  <2>6. Strictly(e) \subseteq InvalidateParent(e)
    BY <2>5, TreeFacts DEF InvalidateParent, Chain, Strictly
  <2>7. (Root \in Chain(c))'
    BY <1>6, <2>1, <2>5, TreeFacts DEF Chain, Strictly
  <2> QED
    BY <1>6, <2>1, <2>6, <2>7, TreeFacts DEF Requests, Strictly
<1> QED
  BY <1>2, <1>3, <1>4, <1>5, <1>6 DEF ChangeOf

\* A request stays, or is made by the change that takes it away.
LEMMA RequestsKept ==
  ASSUME TypeOK, NEW e \in Elements \ {Root}, NEW c \in Elements, ChangeOf(e, c),
         NEW x \in Elements, Requests(x, dirty)
  PROVE  Requests(x, dirty)' \/ Requests(c, dirty)'
<1>1. dirty \subseteq dirty'
  BY DEF ChangeOf, set_look, gui_element_set_hidden, gui_element_show, set_shown,
         gui_element_add_child, gui_element_remove_child
<1>2. CASE attached \subseteq attached'
  BY <1>1, <1>2 DEF Requests, Chain
<1>3. CASE c = Parent[e] /\ attached' = attached \ {e}
  <2>1. CASE e \in Above[x]
    <3>1. Above[c] \subseteq dirty' /\ Above[c] \subseteq Above[x] /\ e \notin Above[c]
      BY <1>1, <1>3, <2>1, TreeFacts DEF Requests, Strictly
    <3>2. Above[x] \ {Root} \subseteq attached
      BY RootReached DEF Requests
    <3>3. (Root \in Chain(c))'
      BY <1>3, <3>1, <3>2, TreeFacts DEF Chain
    <3> QED
      BY <3>1, <3>3 DEF Requests
  <2>2. CASE e \notin Above[x]
    BY <1>1, <1>3, <2>2 DEF Requests, Chain
  <2> QED
    BY <2>1, <2>2
<1> QED
  BY <1>2, <1>3 DEF ChangeOf, set_look, gui_element_set_hidden, gui_element_show,
     set_shown, gui_element_add_child, gui_element_remove_child

-------------------------------------------------------------------------------
(* The invariant.                                                           *)

\* While a frame is drawn no check counts that has still to be made.
Noticed ==
  /\ renderer = "drawing" /\ frame # Picture => notified \/ met # {}
  /\ renderer # "drawing" => ChangeNoticed

LEMMA NoticedStep == TypeOK /\ Noticed /\ [Next]_vars => Noticed'
<1> SUFFICES ASSUME TypeOK, Noticed, [Next]_vars PROVE Noticed'
  OBVIOUS
<1> USE DEF TypeOK
<1>1. ASSUME NEW e \in Elements \ {Root}, NEW c \in Elements, LockedChange(e, c)
      PROVE  Noticed'
  <2>1. ChangeOf(e, c) /\ renderer # "drawing" /\ renderer' = renderer
        /\ UNCHANGED <<pending, frame, screen, timed, met>>
        /\ notified' = (notified \/ Requests(c, dirty)')
    BY <1>1 DEF LockedChange, loop
  <2>2. CASE Requests(c, dirty)'
    BY <2>1, <2>2 DEF Noticed, ChangeNoticed
  <2>3. CASE ~(Requests(c, dirty)')
    <3>1. Picture' = Picture
      BY <2>1, <2>3, ChangeRequests
    <3>2. \A t \in Callers : Asks(t) => Asks(t)'
      BY <2>1, <2>3, RequestsKept DEF Asks
    <3>3. Behind' <=> Behind
      BY <2>1, <3>1 DEF Behind
    <3> QED
      BY <2>1, <3>2, <3>3 DEF Noticed, ChangeNoticed
  <2> QED
    BY <2>2, <2>3
<1>2. ASSUME NEW t \in Callers, NEW e \in Elements \ {Root}, NEW c \in Elements,
             UnlockedChange(t, e, c)
      PROVE  Noticed'
  <2>1. ChangeOf(e, c) /\ UNCHANGED <<renderer, notified, screen, timed>>
        /\ pending[t] = NoElement /\ pending' = [pending EXCEPT ![t] = c]
    BY <1>2 DEF UnlockedChange
  <2>2. CASE renderer = "drawing"
    <3>1. t \in met'
      BY <1>2, <2>2 DEF UnlockedChange
    <3> QED
      BY <2>1, <2>2, <3>1 DEF Noticed
  <2>3. CASE renderer # "drawing"
    <3>1. UNCHANGED <<frame, met>>
      BY <1>2, <2>3 DEF UnlockedChange
    <3>2. CASE Requests(c, dirty)'
      <4>1. Asks(t)'
        BY <2>1, <3>2, TreeFacts DEF Asks
      <4> QED
        BY <2>1, <2>3, <4>1 DEF Noticed, ChangeNoticed
    <3>3. CASE ~(Requests(c, dirty)')
      <4>1. Picture' = Picture
        BY <2>1, <3>3, ChangeRequests
      <4>2. \A u \in Callers : Asks(u) => Asks(u)'
        BY <2>1, <3>3, RequestsKept DEF Asks
      <4>3. Behind' <=> Behind
        BY <2>1, <3>1, <4>1 DEF Behind
      <4> QED
        BY <2>1, <2>3, <3>1, <4>2, <4>3 DEF Noticed, ChangeNoticed
    <3> QED
      BY <3>2, <3>3
  <2> QED
    BY <2>2, <2>3
<1>3. ASSUME NEW t \in Callers, gui_element_check_render(t) PROVE Noticed'
  <2>1. UNCHANGED <<tree, dirty, loop>> /\ pending' = [pending EXCEPT ![t] = NoElement]
        /\ (Asks(t) => notified') /\ (notified => notified') /\ (met' # met => notified')
    BY <1>3 DEF gui_element_check_render, Asks
  <2>2. Picture' = Picture
    BY <2>1, SamePicture DEF tree, Visible, Chain, Open
  <2>3. Behind' <=> Behind
    BY <2>1, <2>2 DEF Behind, loop
  <2>4. \A u \in Callers \ {t} : Asks(u) => Asks(u)'
    BY <2>1 DEF Asks, Requests, Chain, tree
  <2> QED
    BY <2>1, <2>2, <2>3, <2>4 DEF Noticed, ChangeNoticed, loop
<1>4. CASE TakeNotification
  BY <1>4 DEF TakeNotification, Noticed, ChangeNoticed, Behind
<1>5. CASE gui_render
  <2>1. Picture' = Picture
    BY <1>5, SamePicture DEF gui_render, tree, Visible, Chain, Open
  <2> QED
    BY <1>5, <2>1 DEF gui_render, Noticed
<1>6. CASE RenderReturns \/ \E e \in to_draw : ElementReturns(e)
  <2>1. Picture' = Picture
    BY <1>6, SamePicture DEF RenderReturns, ElementReturns, tree, Visible, Chain, Open
  <2> QED
    BY <1>6, <2>1 DEF RenderReturns, ElementReturns, Noticed, ChangeNoticed, Behind
<1>7. CASE ShowImage
  <2>1. Picture' = Picture
    BY <1>7, SamePicture DEF ShowImage, tree, Visible, Chain, Open
  <2>2. Behind' <=> Behind
    BY <1>7, <2>1 DEF ShowImage, Behind
  <2>3. \A t \in Callers : Asks(t) => Asks(t)'
    BY <1>7 DEF ShowImage, Asks, Requests, Chain, tree
  <2> QED
    BY <1>7, <2>2, <2>3 DEF ShowImage, Noticed, ChangeNoticed
<1>8. CASE UNCHANGED vars
  <2>1. Picture' = Picture
    BY <1>8, SamePicture DEF vars, tree, Visible, Chain, Open
  <2>2. Behind' <=> Behind
    BY <1>8, <2>1 DEF vars, loop, Behind
  <2>3. \A t \in Callers : Asks(t) => Asks(t)'
    BY <1>8 DEF vars, Asks, Requests, Chain, tree
  <2> QED
    BY <1>8, <2>1, <2>2, <2>3 DEF vars, loop, Noticed, ChangeNoticed
<1> QED
  BY <1>1, <1>2, <1>3, <1>4, <1>5, <1>6, <1>7, <1>8 DEF Next, RenderLoop

LEMMA NoticedHolds == TypeOK /\ Noticed => ChangeNoticed
  BY DEF Noticed, ChangeNoticed, Behind

\* A change that can be seen is drawn: the render loop is notified, or wakes up
\* by itself, or a caller's check will notify it, unless the change was made
\* without gui_lock while a frame was drawn and none was asked for since.
THEOREM ChangesAreNoticed == Spec => []ChangeNoticed
<1>1. Init => Noticed
  BY DEF Init, Noticed, ChangeNoticed, Behind
<1> QED
  BY <1>1, TypeInit, TypeStep, NoticedStep, NoticedHolds, PTL DEF Spec

-------------------------------------------------------------------------------
(* Menu: the steps that a thread has left.                                  *)

\* An app that has a screen is started, and noted in flash.
ToRun(a) == <<DoWith("run", a), DoWith("on_app_entry", a)>>
ToNote(a) == <<DoWith("on_app_entry", a)>>

\* One that returns at once, and the menu behind it.
ToRunToggle(a) == <<DoWith("run", a), DoWith("on_app_entry", a), Do("app_exit_cb")>>
ToNoteToggle(a) == <<DoWith("on_app_entry", a), Do("app_exit_cb")>>
ToExit == <<Do("app_exit_cb")>>
ToLeave == <<Do("on_app_exit"), Do("menu_show")>>
ToShow == <<Do("menu_show")>>

\* The same, started by menu_show, which goes on to show the list.
ToRunListed(a) ==
  <<DoWith("run", a), DoWith("on_app_entry", a), Do("app_exit_cb"), DoWith("show_list", a)>>
ToNoteListed(a) == <<DoWith("on_app_entry", a), Do("app_exit_cb"), DoWith("show_list", a)>>
ToExitListed(a) == <<Do("app_exit_cb"), DoWith("show_list", a)>>
ToLeaveListed(a) == <<Do("on_app_exit"), Do("menu_show"), DoWith("show_list", a)>>
ToShowListed(a) == <<Do("menu_show"), DoWith("show_list", a)>>
ToList(a) == <<DoWith("show_list", a)>>

\* Power on.
ToInit == <<Do("menutree_init")>>
ToStart == <<Do("app_main")>>

\* Calls of handlers of H.
CallsOf(H) == Seq({Dispatch(b, h) : b \in Events, h \in H})

-------------------------------------------------------------------------------
(* Menu: what is shown, and the invariant.                                  *)

Dark == visible = {} /\ enabled = {"shutdown"}
MenuUp == visible = {"menu"} /\ enabled = {"shutdown", "menu"}
Dim == Dark \/ MenuUp
AppUp(a) == visible = {a} /\ enabled = {"shutdown", HandlerOf[a]} /\ container[HandlerOf[a]] = a
ChargingUp == visible = {"charging"} /\ enabled = {"shutdown", "charging"} /\ ~latch
UpOf(a) == IF a = PowerOff THEN ChargingUp /\ container["charging"] = PowerOff ELSE AppUp(a)
InApp(a) == in_app /\ selected = a

\* The app in flash is the active one, unless main is to note its own.
DefaultRight ==
  "on_app_entry" \in raced \/ default_app = IF in_app /\ selected \notin Unnamed THEN selected ELSE NoEntry

\* The charging screen after power on; an app may be about to be started.
ChargingFirst == ChargingUp /\ container["charging"] = NoEntry /\ (in_app => selected \in Apps)

OneIsUp ==
  \/ MenuUp /\ ~in_app
  \/ \E a \in Apps \ Toggles : InApp(a) /\ UpOf(a)
  \/ ChargingFirst

\* The list that is not hidden is that of the selected entry.
ListsRight ==
  /\ selected \in (Items \ {menutree_root}) \cup {NoEntry}
  /\ IF selected = NoEntry THEN lists = {} ELSE lists \subseteq {ParentOf(selected)}
  /\ MenuUp => /\ selected # NoEntry /\ lists = {ParentOf(selected)}
               /\ highlighted[ParentOf(selected)] = selected
  /\ DOMAIN highlighted = Submenus

\* A thread is at work on what is shown.
AtWork(t) ==
  \/ \E a \in Apps \ Toggles : todo[t] = ToRun(a) /\ InApp(a) /\ Dark
  \/ \E a \in Apps \ Toggles : todo[t] = ToNote(a) /\ InApp(a) /\ UpOf(a)
  \/ \E a \in Toggles : todo[t] \in {ToRunToggle(a), ToNoteToggle(a)} /\ InApp(a) /\ Dim
  \/ todo[t] = ToExit /\ in_app /\ Dim
  \/ todo[t] = ToLeave /\ ~in_app /\ Dim
  \/ todo[t] = ToShow /\ DefaultRight /\ Dim /\ (in_app => selected \in Apps /\ Dark)
  \/ \E a \in Toggles : todo[t] \in {ToRunListed(a), ToNoteListed(a), ToExitListed(a)} /\ InApp(a) /\ Dark
  \/ \E a \in Toggles : todo[t] = ToLeaveListed(a) /\ ~in_app /\ selected = a /\ Dark
  \/ \E a \in Toggles : todo[t] = ToShowListed(a) /\ ~in_app /\ selected = a /\ Dark /\ DefaultRight
  \/ \E a \in Toggles : todo[t] = ToList(a) /\ ~in_app /\ selected = a /\ MenuUp /\ DefaultRight

\* The button task has only calls left of handlers that are still enabled.
ButtonsWait == todo["buttons"] \in CallsOf(enabled)

Starts(s) == \E a \in Apps : s \in {ToNote(a), ToList(a)}
MainWorks ==
  /\ ButtonsWait
  /\ \/ todo["main"] = ToInit /\ Dark /\ selected = NoEntry /\ ~in_app /\ container["charging"] = NoEntry
     \/ /\ todo["main"] = ToStart /\ Dark /\ container["charging"] = NoEntry
        /\ (in_app => selected \in Apps) /\ DefaultRight
     \/ AtWork("main") /\ (Dark \/ Starts(todo["main"]))

\* Main has returned, or has yet to note its app, while the button task has gone on.
ButtonsWork ==
  /\ \/ todo["main"] = <<>>
     \/ "on_app_entry" \in raced /\ \E a \in Apps : todo["main"] = ToNote(a)
  /\ (ButtonsWait /\ OneIsUp /\ DefaultRight) \/ AtWork("buttons")

\* Main shows the list late: no more is known than what is stored in flash.
Wild ==
  /\ todo["main"] = <<>> \/ \E a \in Apps : todo["main"] = ToList(a)
  /\ \/ todo["buttons"] \in CallsOf({h \in Handlers : h = "charging" => container["charging"] # NoEntry})
     \/ \E a \in Apps : todo["buttons"] \in {ToRun(a), ToNote(a), ToRunToggle(a), ToNoteToggle(a)}
     \/ todo["buttons"] = ToExit
     \/ todo["buttons"] \in {ToLeave, ToShow} /\ ~in_app
  /\ "charging" \in enabled => container["charging"] # NoEntry

MenuTypes ==
  /\ default_app \in (Apps \ Unnamed) \cup {NoEntry} /\ enabled \subseteq Handlers
  /\ DOMAIN todo = Threads /\ DOMAIN container = Handlers

MenuInv ==
  /\ MenuTypes
  /\ IF "show_list" \in raced THEN Wild ELSE ListsRight /\ (MainWorks \/ ButtonsWork)

-------------------------------------------------------------------------------
(* Menu: sequences of steps.                                                *)

LEMMA StepFields ==
  /\ \A op : Do(op).op = op
  /\ \A op, e : DoWith(op, e).op = op /\ DoWith(op, e).entry = e
  /\ \A b, h : Dispatch(b, h).op = "dispatch" /\ Dispatch(b, h).entry = b /\ Dispatch(b, h).handler = h
BY DEF Do, DoWith, Dispatch

\* What is to do next, and what follows.
Is(s, x, rest) == s # <<>> /\ Head(s) = x /\ Tail(s) = rest

LEMMA TupleParts ==
  /\ \A a : Is(<<a>>, a, <<>>)
  /\ \A a, b : Is(<<a, b>>, a, <<b>>)
  /\ \A a, b, c : Is(<<a, b, c>>, a, <<b, c>>)
  /\ \A a, b, c, d : Is(<<a, b, c, d>>, a, <<b, c, d>>)
BY DEF Is

LEMMA Parts ==
  /\ \A a : /\ Is(ToRun(a), DoWith("run", a), ToNote(a))
            /\ Is(ToNote(a), DoWith("on_app_entry", a), <<>>)
            /\ Is(ToRunToggle(a), DoWith("run", a), ToNoteToggle(a))
            /\ Is(ToNoteToggle(a), DoWith("on_app_entry", a), ToExit)
            /\ Is(ToRunListed(a), DoWith("run", a), ToNoteListed(a))
            /\ Is(ToNoteListed(a), DoWith("on_app_entry", a), ToExitListed(a))
            /\ Is(ToExitListed(a), Do("app_exit_cb"), ToList(a))
            /\ Is(ToLeaveListed(a), Do("on_app_exit"), ToShowListed(a))
            /\ Is(ToShowListed(a), Do("menu_show"), ToList(a))
            /\ Is(ToList(a), DoWith("show_list", a), <<>>)
  /\ Is(ToExit, Do("app_exit_cb"), <<>>)
  /\ Is(ToLeave, Do("on_app_exit"), ToShow)
  /\ Is(ToShow, Do("menu_show"), <<>>)
  /\ Is(ToInit, Do("menutree_init"), <<>>)
  /\ Is(ToStart, Do("app_main"), <<>>)
BY TupleParts, Zenon
   DEF ToRun, ToNote, ToRunToggle, ToNoteToggle, ToExit, ToLeave, ToShow, ToRunListed, ToNoteListed,
       ToExitListed, ToLeaveListed, ToShowListed, ToList, ToInit, ToStart

LEMMA TwoAndOne == ASSUME NEW a, NEW b, NEW c PROVE <<a, b>> \o <<c>> = <<a, b, c>>
<1> DEFINE S == {a, b, c}
<1>1. <<a, b>> \in Seq(S) /\ <<c>> \in Seq(S) /\ <<a, b, c>> \in Seq(S)
  OBVIOUS
<1>2. Len(<<a, b>>) = 2 /\ Len(<<c>>) = 1 /\ Len(<<a, b, c>>) = 3
  OBVIOUS
<1> HIDE DEF S
<1>3. /\ <<a, b>> \o <<c>> \in Seq(S) /\ Len(<<a, b>> \o <<c>>) = 3
      /\ \A i \in 1..3 : (<<a, b>> \o <<c>>)[i] = IF i <= 2 THEN <<a, b>>[i] ELSE <<c>>[i - 2]
  BY <1>1, <1>2, ConcatProperties
<1>4. \A i \in 1..3 : (<<a, b>> \o <<c>>)[i] = <<a, b, c>>[i]
  BY <1>3
<1> QED
  BY <1>1, <1>2, <1>3, <1>4, SeqEqual

LEMMA ThreeAndOne == ASSUME NEW a, NEW b, NEW c, NEW d PROVE <<a, b, c>> \o <<d>> = <<a, b, c, d>>
<1> DEFINE S == {a, b, c, d}
<1>1. <<a, b, c>> \in Seq(S) /\ <<d>> \in Seq(S) /\ <<a, b, c, d>> \in Seq(S)
  OBVIOUS
<1>2. Len(<<a, b, c>>) = 3 /\ Len(<<d>>) = 1 /\ Len(<<a, b, c, d>>) = 4
  OBVIOUS
<1> HIDE DEF S
<1>3. /\ <<a, b, c>> \o <<d>> \in Seq(S) /\ Len(<<a, b, c>> \o <<d>>) = 4
      /\ \A i \in 1..4 : (<<a, b, c>> \o <<d>>)[i] = IF i <= 3 THEN <<a, b, c>>[i] ELSE <<d>>[i - 3]
  BY <1>1, <1>2, ConcatProperties
<1>4. \A i \in 1..4 : (<<a, b, c>> \o <<d>>)[i] = <<a, b, c, d>>[i]
  BY <1>3
<1> QED
  <2> DEFINE u == <<a, b, c>> \o <<d>>
  <2> DEFINE v == <<a, b, c, d>>
  <2>1. u \in Seq(S) /\ v \in Seq(S) /\ Len(u) = Len(v) /\ \A i \in 1..Len(u) : u[i] = v[i]
    BY <1>1, <1>2, <1>3, <1>4
  <2> HIDE DEF u, v
  <2>2. u = v
    BY <2>1, SeqEqual
  <2> QED
    BY <2>2 DEF u, v

LEMMA FourAndNothing ==
  ASSUME NEW a, NEW b, NEW c, NEW d
  PROVE  <<a, b, c, d>> \o <<>> = <<a, b, c, d>>
OBVIOUS

LEMMA AndNothing ==
  /\ \A a : <<a>> \o <<>> = <<a>> /\ <<>> \o <<a>> = <<a>>
  /\ \A a, b : <<a, b>> \o <<>> = <<a, b>> /\ <<>> \o <<a, b>> = <<a, b>>
  /\ \A a, b, c : <<a, b, c>> \o <<>> = <<a, b, c>> /\ <<>> \o <<a, b, c>> = <<a, b, c>>
  /\ <<>> \o <<>> = <<>>
OBVIOUS

\* What an app is entered with, and what comes behind it.
LEMMA Entering ==
  ASSUME NEW a
  PROVE  /\ a \notin Toggles => EnterSteps(a) = ToRun(a)
         /\ a \in Toggles => EnterSteps(a) = ToRunToggle(a)
         /\ (EnterSteps(a) \o IF a \in Toggles THEN <<DoWith("show_list", a)>> ELSE <<>>) \o <<>>
              = IF a \in Toggles THEN ToRunListed(a) ELSE ToRun(a)
<1>1. ASSUME a \notin Toggles
      PROVE  /\ EnterSteps(a) = ToRun(a)
             /\ (EnterSteps(a) \o IF a \in Toggles THEN <<DoWith("show_list", a)>> ELSE <<>>) \o <<>> = ToRun(a)
  <2>1. EnterSteps(a) = ToRun(a)
    BY <1>1, AndNothing, Zenon DEF EnterSteps, ToRun
  <2>2. ToRun(a) \o <<>> = ToRun(a)
    BY AndNothing, Zenon DEF ToRun
  <2>3. (IF a \in Toggles THEN <<DoWith("show_list", a)>> ELSE <<>>) = <<>>
    BY <1>1
  <2> QED
    BY <2>1, <2>2, <2>3, Zenon
<1>2. ASSUME a \in Toggles
      PROVE  /\ EnterSteps(a) = ToRunToggle(a)
             /\ (EnterSteps(a) \o IF a \in Toggles THEN <<DoWith("show_list", a)>> ELSE <<>>) \o <<>>
                  = ToRunListed(a)
  <2>1. EnterSteps(a) = ToRunToggle(a)
    BY <1>2, TwoAndOne, Zenon DEF EnterSteps, ToRunToggle
  <2>2. ToRunToggle(a) \o <<DoWith("show_list", a)>> = ToRunListed(a)
    BY ThreeAndOne, Zenon DEF ToRunToggle, ToRunListed
  <2>3. ToRunListed(a) \o <<>> = ToRunListed(a)
    BY FourAndNothing, Zenon DEF ToRunListed
  <2>4. (IF a \in Toggles THEN <<DoWith("show_list", a)>> ELSE <<>>) = <<DoWith("show_list", a)>>
    BY <1>2
  <2> QED
    BY <2>1, <2>2, <2>3, <2>4, Zenon
<1> QED
  BY <1>1, <1>2

LEMMA ExitSteps ==
  /\ <<Do("on_app_exit"), Do("menu_show")>> \o <<>> = ToLeave
  /\ \A a : <<Do("on_app_exit"), Do("menu_show")>> \o ToList(a) = ToLeaveListed(a)
<1>1. <<Do("on_app_exit"), Do("menu_show")>> \o <<>> = ToLeave
  BY AndNothing, Zenon DEF ToLeave
<1>2. ASSUME NEW a PROVE <<Do("on_app_exit"), Do("menu_show")>> \o ToList(a) = ToLeaveListed(a)
  BY TwoAndOne, Zenon DEF ToList, ToLeaveListed
<1> QED
  BY <1>1, <1>2, Zenon

\* A call that returns leaves what is behind it.
LEMMA Returning ==
  /\ <<>> \o <<>> = <<>> /\ <<>> \o ToExit = ToExit /\ <<>> \o ToShow = ToShow
  /\ \A a : /\ <<>> \o ToNote(a) = ToNote(a) /\ <<>> \o ToNoteToggle(a) = ToNoteToggle(a)
            /\ <<>> \o ToNoteListed(a) = ToNoteListed(a) /\ <<>> \o ToExitListed(a) = ToExitListed(a)
            /\ <<>> \o ToShowListed(a) = ToShowListed(a) /\ <<>> \o ToList(a) = ToList(a)
BY AndNothing, Zenon
   DEF ToExit, ToShow, ToNote, ToNoteToggle, ToNoteListed, ToExitListed, ToShowListed, ToList

\* Calls of handlers.
LEMMA CallsAre ==
  ASSUME NEW H, NEW s \in CallsOf(H), s # <<>>
  PROVE  /\ Head(s).op = "dispatch" /\ Head(s).entry \in Events /\ Head(s).handler \in H
         /\ Tail(s) \in CallsOf(H) /\ <<>> \o Tail(s) \in CallsOf(H)
<1> DEFINE C == {Dispatch(b, h) : b \in Events, h \in H}
<1>1. \A x \in C : x.op = "dispatch" /\ x.entry \in Events /\ x.handler \in H
  BY StepFields
<1>2. CallsOf(H) = Seq(C)
  BY DEF CallsOf
<1> HIDE DEF C
<1>3. Head(s) \in C /\ Tail(s) \in Seq(C)
  BY <1>2
<1>4. <<>> \o Tail(s) = Tail(s)
  BY <1>3, ConcatEmptySeq
<1> QED
  BY <1>1, <1>2, <1>3, <1>4

LEMMA CallsOfMore ==
  ASSUME NEW H, NEW G, H \subseteq G, NEW s \in CallsOf(H)
  PROVE  s \in CallsOf(G)
<1> DEFINE C == {Dispatch(b, h) : b \in Events, h \in H}
<1> DEFINE D == {Dispatch(b, h) : b \in Events, h \in G}
<1>1. C \subseteq D
  OBVIOUS
<1>2. CallsOf(H) = Seq(C) /\ CallsOf(G) = Seq(D)
  BY DEF CallsOf
<1> HIDE DEF C, D
<1> QED
  BY <1>1, <1>2

LEMMA NoCalls == ASSUME NEW H PROVE <<>> \in CallsOf(H)
BY DEF CallsOf

-------------------------------------------------------------------------------
(* Menu: the list of the handlers that are called.  It is built by recursion *)
(* over the handlers: that such a list exists is shown by induction.         *)

LEMMA LeastNumber == ASSUME NEW S, S \subseteq Nat, S # {} PROVE \E n \in S : \A m \in S : n <= m
<1> DEFINE R == OpToRel(<, Nat)
<1>1. IsWellFoundedOn(R, Nat)
  BY NatLessThanWellFounded
<1>2. \A m, n \in Nat : m < n => <<m, n>> \in R
  BY DEF OpToRel
<1> HIDE DEF R
<1>3. PICK n \in S : \A m \in S : ~ (<<m, n>> \in R)
  BY <1>1, WFMin
<1>4. \A m \in S : m \in Nat /\ n \in Nat /\ ~ (m < n)
  BY <1>2, <1>3
<1>5. \A m \in S : n <= m
  BY <1>4
<1> QED
  BY <1>5

LEMMA InductionOnSet ==
  ASSUME NEW S, 0 \in S, \A n \in Nat : n \in S => n + 1 \in S
  PROVE  Nat \subseteq S
<1> SUFFICES ASSUME Nat \ S # {} PROVE FALSE
  OBVIOUS
<1>1. PICK n \in Nat \ S : \A m \in Nat \ S : n <= m
  BY LeastNumber
<1>2. n # 0 /\ n - 1 \in Nat
  BY <1>1
<1>3. n - 1 \in S
  BY <1>1, <1>2
<1> QED
  BY <1>1, <1>2, <1>3

\* What the loop over the first n handlers makes.
Extended(s, b, h) == IF h \in enabled THEN Append(s, Dispatch(b, h)) ELSE s
Looped(b, n, u) == u = [k \in 0..n |-> IF k = 0 THEN <<>> ELSE Extended(u[k - 1], b, Registered[k])]

LEMMA LoopIsDefined ==
  ASSUME NEW b, NEW N \in Nat
  PROVE  \E u : Looped(b, N, u)
<1> DEFINE S == {n \in Nat : \E u : Looped(b, n, u)}
<1>1. 0 \in S
  <2> DEFINE u == [k \in 0..0 |-> <<>>]
  <2>1. Looped(b, 0, u)
    BY DEF Looped
  <2> QED
    BY <2>1
<1>2. ASSUME NEW n \in Nat, n \in S PROVE n + 1 \in S
  <2>1. PICK u : Looped(b, n, u)
    BY <1>2
  <2> DEFINE last == Extended(u[n], b, Registered[n + 1])
  <2> HIDE DEF last
  <2> DEFINE v == [k \in 0..(n + 1) |-> IF k = n + 1 THEN last ELSE u[k]]
  <2>2. \A k \in 0..n : u[k] = IF k = 0 THEN <<>> ELSE Extended(u[k - 1], b, Registered[k])
    BY <2>1 DEF Looped
  <2>3. v[n + 1] = last /\ \A k \in 0..n : v[k] = u[k]
    OBVIOUS
  <2>4. ASSUME NEW k \in 0..(n + 1)
        PROVE  v[k] = IF k = 0 THEN <<>> ELSE Extended(v[k - 1], b, Registered[k])
    <3>1. CASE k = n + 1
      <4>1. v[k - 1] = u[n] /\ k # 0
        BY <3>1, <2>3
      <4> QED
        BY <4>1, <3>1, <2>3 DEF last
    <3>2. CASE k \in 0..n
      <4>1. k # 0 => v[k - 1] = u[k - 1]
        BY <3>2, <2>3
      <4> QED
        BY <4>1, <3>2, <2>2, <2>3
    <3> QED
      BY <3>1, <3>2
  <2>5. v = [k \in 0..(n + 1) |-> v[k]]
    OBVIOUS
  <2> HIDE DEF v
  <2>6. Looped(b, n + 1, v)
    BY <2>4, <2>5, Zenon DEF Looped
  <2> QED
    BY <2>6
<1> HIDE DEF S
<1>3. N \in S
  BY <1>1, <1>2, InductionOnSet
<1> QED
  BY <1>3 DEF S

\* Only handlers that are enabled are called.
LEMMA ShadowList ==
  ASSUME NEW b \in Events
  PROVE  shadow_list(b) \in CallsOf(enabled)
<1> DEFINE N == Len(Registered)
<1>1. N \in Nat
  BY MenuAssumption DEF MenuAssumption
<1> HIDE DEF N
<1>2. PICK u : /\ Looped(b, N, u)
               /\ shadow_list(b) = u[N]
  <2> DEFINE w == CHOOSE w : Looped(b, N, w)
  <2>1. Looped(b, N, w)
    BY <1>1, LoopIsDefined
  <2>2. shadow_list(b) = w[N]
    BY DEF shadow_list, Looped, Extended, N
  <2> QED
    BY <2>1, <2>2
<1> DEFINE S == {n \in Nat : n <= N => u[n] \in CallsOf(enabled)}
<1>3. \A k \in 0..N : u[k] = IF k = 0 THEN <<>> ELSE Extended(u[k - 1], b, Registered[k])
  BY <1>2 DEF Looped
<1>4. 0 \in S
  BY <1>1, <1>3, NoCalls
<1>5. ASSUME NEW n \in Nat, n \in S PROVE n + 1 \in S
  <2> SUFFICES ASSUME n + 1 <= N PROVE u[n + 1] \in CallsOf(enabled)
    OBVIOUS
  <2>1. u[n] \in CallsOf(enabled) /\ u[n + 1] = Extended(u[n], b, Registered[n + 1])
    BY <1>1, <1>3, <1>5
  <2> DEFINE h == Registered[n + 1]
  <2> DEFINE C == {Dispatch(e, g) : e \in Events, g \in enabled}
  <2>2. h \in enabled => Dispatch(b, h) \in C
    OBVIOUS
  <2>3. CallsOf(enabled) = Seq(C)
    BY DEF CallsOf
  <2> HIDE DEF h, C
  <2>4. h \in enabled => Append(u[n], Dispatch(b, h)) \in Seq(C)
    BY <2>1, <2>2, <2>3
  <2> QED
    BY <2>1, <2>3, <2>4 DEF Extended, h
<1> HIDE DEF S
<1>6. N \in S
  BY <1>1, <1>4, <1>5, InductionOnSet
<1> QED
  BY <1>2, <1>6 DEF S

-------------------------------------------------------------------------------
(* Menu: the entries.                                                       *)

LEMMA Names ==
  /\ Apps \cap Submenus = {} /\ NoEntry \notin Items /\ menutree_root \in Submenus
  /\ "menu" \notin Items /\ "charging" \notin Items
  /\ Toggles \subseteq Apps /\ KeepVisible \subseteq Toggles
  /\ PowerOff \in Apps \ Toggles /\ PowerOff \in Unnamed /\ Unnamed \subseteq Apps
  /\ "shutdown" \in Handlers /\ "menu" \in Handlers
  /\ \A a \in Apps \ Toggles : HandlerOf[a] \in Handlers \ {"shutdown", "menu"}
  /\ \A a \in Apps \ Toggles : HandlerOf[a] = "charging" <=> a = PowerOff
BY MenuAssumption DEF MenuAssumption

LEMMA Parents ==
  ASSUME NEW e \in Items \ {menutree_root}
  PROVE  /\ ParentOf(e) \in Submenus /\ HasEntry(ParentOf(e), e)
         /\ \A s \in Submenus : HasEntry(s, e) => ParentOf(e) = s
<1>1. PICK s \in Submenus : HasEntry(s, e) /\ \A other \in Submenus : HasEntry(other, e) => other = s
  BY MenuAssumption DEF MenuAssumption
<1> QED
  BY <1>1 DEF ParentOf

LEMMA EntriesOf ==
  ASSUME NEW s \in Submenus
  PROVE  /\ Entries[s] \in Seq(Items \ {menutree_root})
         /\ \A k \in 1..Len(Entries[s]) :
              Entries[s][k] \in Items \ {menutree_root} /\ ParentOf(Entries[s][k]) = s
<1>1. Entries[s] \in Seq(Items \ {menutree_root})
  BY MenuAssumption DEF MenuAssumption
<1>2. ASSUME NEW k \in 1..Len(Entries[s])
      PROVE  Entries[s][k] \in Items \ {menutree_root} /\ ParentOf(Entries[s][k]) = s
  <2>1. Entries[s][k] \in Items \ {menutree_root} /\ HasEntry(s, Entries[s][k])
    BY <1>1 DEF HasEntry
  <2> QED
    BY <2>1, Parents
<1> QED
  BY <1>1, <1>2

LEMMA FirstEntry ==
  ASSUME NEW s \in Submenus, Entries[s] # <<>>
  PROVE  /\ menu_find_first_entry(s) \in Items \ {menutree_root}
         /\ ParentOf(menu_find_first_entry(s)) = s
<1>1. Entries[s] \in Seq(Items \ {menutree_root})
  BY EntriesOf
<1>2. 1 \in 1..Len(Entries[s]) /\ Head(Entries[s]) = Entries[s][1]
  BY <1>1
<1> QED
  BY <1>2, EntriesOf DEF menu_find_first_entry

LEMMA FirstOfRoot ==
  /\ menu_find_first_entry(menutree_root) \in Items \ {menutree_root}
  /\ ParentOf(menu_find_first_entry(menutree_root)) = menutree_root
BY FirstEntry, MenuAssumption DEF MenuAssumption

\* The next entry is in the same submenu.
LEMMA NextEntry ==
  ASSUME NEW e \in Items \ {menutree_root}, NEW step \in {-1, 1}
  PROVE  /\ menu_find_next_entry(e, step) \in Items \ {menutree_root}
         /\ ParentOf(menu_find_next_entry(e, step)) = ParentOf(e)
<1> DEFINE s == ParentOf(e)
<1> DEFINE n == Len(Entries[s])
<1> DEFINE k == CHOOSE k \in 1..n : Entries[s][k] = e
<1>1. s \in Submenus /\ HasEntry(s, e)
  BY Parents
<1>2. n \in Nat
  BY <1>1, EntriesOf
<1>3. k \in 1..n
  BY <1>1 DEF HasEntry
<1>4. menu_find_next_entry(e, step) = Entries[s][((k - 1 + step) % n) + 1]
  BY DEF menu_find_next_entry
<1> HIDE DEF k, n
<1>5. ((k - 1 + step) % n) + 1 \in 1..n
  BY <1>2, <1>3
<1> QED
  BY <1>1, <1>4, <1>5, EntriesOf DEF n

-------------------------------------------------------------------------------
(* Menu: where a thread is, by its next step.                               *)

At(s, op, rest) == s # <<>> /\ Head(s).op = op /\ Tail(s) = rest
AtWith(s, op, a, rest) == At(s, op, rest) /\ Head(s).entry = a

LEMMA AtParts ==
  /\ \A a : /\ AtWith(ToRun(a), "run", a, ToNote(a))
            /\ AtWith(ToNote(a), "on_app_entry", a, <<>>)
            /\ AtWith(ToRunToggle(a), "run", a, ToNoteToggle(a))
            /\ AtWith(ToNoteToggle(a), "on_app_entry", a, ToExit)
            /\ AtWith(ToRunListed(a), "run", a, ToNoteListed(a))
            /\ AtWith(ToNoteListed(a), "on_app_entry", a, ToExitListed(a))
            /\ At(ToExitListed(a), "app_exit_cb", ToList(a))
            /\ At(ToLeaveListed(a), "on_app_exit", ToShowListed(a))
            /\ At(ToShowListed(a), "menu_show", ToList(a))
            /\ AtWith(ToList(a), "show_list", a, <<>>)
  /\ At(ToExit, "app_exit_cb", <<>>)
  /\ At(ToLeave, "on_app_exit", ToShow)
  /\ At(ToShow, "menu_show", <<>>)
  /\ At(ToInit, "menutree_init", <<>>)
  /\ At(ToStart, "app_main", <<>>)
<1>1. ASSUME NEW s, NEW op, NEW a, NEW rest, Is(s, DoWith(op, a), rest)
      PROVE  AtWith(s, op, a, rest)
  <2>1. s # <<>> /\ Head(s) = DoWith(op, a) /\ Tail(s) = rest
    BY <1>1 DEF Is
  <2>2. Head(s).op = op /\ Head(s).entry = a
    BY <2>1, StepFields
  <2> QED
    BY <2>1, <2>2 DEF At, AtWith
<1>2. ASSUME NEW s, NEW op, NEW rest, Is(s, Do(op), rest)
      PROVE  At(s, op, rest)
  BY <1>2, StepFields, Zenon DEF Is, At
<1> QED
  BY <1>1, <1>2, Parts, Zenon


\* What is left for main to do alone, while the button task works already.
LEMMA LastSteps ==
  /\ \A a, b : ToRun(a) # ToNote(b) /\ ToRun(a) # ToList(b)
  /\ \A a, b : ToRunToggle(a) # ToNote(b) /\ ToRunToggle(a) # ToList(b)
  /\ \A a, b : ToNoteToggle(a) # ToNote(b) /\ ToNoteToggle(a) # ToList(b)
  /\ \A a, b : ToRunListed(a) # ToNote(b) /\ ToRunListed(a) # ToList(b)
  /\ \A a, b : ToNoteListed(a) # ToNote(b) /\ ToNoteListed(a) # ToList(b)
  /\ \A a, b : ToExitListed(a) # ToNote(b) /\ ToExitListed(a) # ToList(b)
  /\ \A a, b : ToLeaveListed(a) # ToNote(b) /\ ToLeaveListed(a) # ToList(b)
  /\ \A a, b : ToShowListed(a) # ToNote(b) /\ ToShowListed(a) # ToList(b)
  /\ \A b : ToExit # ToNote(b) /\ ToExit # ToList(b)
  /\ \A b : ToLeave # ToNote(b) /\ ToLeave # ToList(b)
  /\ \A b : ToShow # ToNote(b) /\ ToShow # ToList(b)
<1>1. ASSUME NEW s, NEW op, NEW rest, NEW b, At(s, op, rest),
             op \in {"run", "app_exit_cb", "on_app_exit", "menu_show"}
      PROVE  s # ToNote(b) /\ s # ToList(b)
  <2>1. At(ToNote(b), "on_app_entry", <<>>) /\ At(ToList(b), "show_list", <<>>)
    BY AtParts, Zenon DEF AtWith
  <2>2. op # "on_app_entry" /\ op # "show_list"
    BY <1>1
  <2> QED
    BY <1>1, <2>1, <2>2 DEF At
<1>2. ASSUME NEW s, NEW rest, NEW b, At(s, "on_app_entry", rest), rest # <<>>
      PROVE  s # ToNote(b) /\ s # ToList(b)
  <2>1. At(ToNote(b), "on_app_entry", <<>>) /\ At(ToList(b), "show_list", <<>>)
    BY AtParts, Zenon DEF AtWith
  <2> QED
    BY <1>2, <2>1 DEF At
<1>3. ASSUME NEW a
      PROVE  /\ At(ToRun(a), "run", ToNote(a)) /\ At(ToRunToggle(a), "run", ToNoteToggle(a))
             /\ At(ToRunListed(a), "run", ToNoteListed(a))
             /\ At(ToExitListed(a), "app_exit_cb", ToList(a))
             /\ At(ToLeaveListed(a), "on_app_exit", ToShowListed(a))
             /\ At(ToShowListed(a), "menu_show", ToList(a))
  BY AtParts, Zenon DEF AtWith
<1>4. At(ToExit, "app_exit_cb", <<>>) /\ At(ToLeave, "on_app_exit", ToShow) /\ At(ToShow, "menu_show", <<>>)
  BY AtParts, Zenon
<1>5. ASSUME NEW a
      PROVE  /\ At(ToNoteToggle(a), "on_app_entry", ToExit) /\ ToExit # <<>>
             /\ At(ToNoteListed(a), "on_app_entry", ToExitListed(a)) /\ ToExitListed(a) # <<>>
  BY AtParts, Zenon DEF At, AtWith
<1>6. ASSUME NEW a, NEW b
      PROVE  /\ ToNoteToggle(a) # ToNote(b) /\ ToNoteToggle(a) # ToList(b)
             /\ ToNoteListed(a) # ToNote(b) /\ ToNoteListed(a) # ToList(b)
  BY <1>2, <1>5
<1>7. ASSUME NEW a, NEW b
      PROVE  /\ ToRun(a) # ToNote(b) /\ ToRun(a) # ToList(b)
             /\ ToRunToggle(a) # ToNote(b) /\ ToRunToggle(a) # ToList(b)
             /\ ToRunListed(a) # ToNote(b) /\ ToRunListed(a) # ToList(b)
             /\ ToExitListed(a) # ToNote(b) /\ ToExitListed(a) # ToList(b)
             /\ ToLeaveListed(a) # ToNote(b) /\ ToLeaveListed(a) # ToList(b)
             /\ ToShowListed(a) # ToNote(b) /\ ToShowListed(a) # ToList(b)
  BY <1>1, <1>3
<1>8. ASSUME NEW b
      PROVE  /\ ToExit # ToNote(b) /\ ToExit # ToList(b)
             /\ ToLeave # ToNote(b) /\ ToLeave # ToList(b)
             /\ ToShow # ToNote(b) /\ ToShow # ToList(b)
  BY <1>1, <1>4
<1> QED
  BY <1>6, <1>7, <1>8, Zenon

\* Where a thread at work is, and what follows.
Here(t, op, rest) == Busy(t) /\ Now(t).op = op /\ Tail(todo[t]) = rest
HereWith(t, op, a, rest) == Here(t, op, rest) /\ Now(t).entry = a

Running(t) ==
  /\ ~Starts(todo[t])
  /\ \E a \in Apps : /\ InApp(a)
                     /\ \/ a \notin Toggles /\ Dark /\ HereWith(t, "run", a, ToNote(a))
                        \/ a \in Toggles /\ Dim /\ HereWith(t, "run", a, ToNoteToggle(a))
                        \/ a \in Toggles /\ Dark /\ HereWith(t, "run", a, ToNoteListed(a))
Noting(t) ==
  \E a \in Apps : /\ InApp(a)
                  /\ \/ a \notin Toggles /\ UpOf(a) /\ HereWith(t, "on_app_entry", a, <<>>)
                     \/ a \in Toggles /\ Dim /\ ~Starts(todo[t]) /\ HereWith(t, "on_app_entry", a, ToExit)
                     \/ a \in Toggles /\ Dark /\ ~Starts(todo[t]) /\ HereWith(t, "on_app_entry", a, ToExitListed(a))
Exiting(t) ==
  /\ in_app /\ ~Starts(todo[t])
  /\ \/ Dim /\ Here(t, "app_exit_cb", <<>>)
     \/ \E a \in Toggles : selected = a /\ Dark /\ Here(t, "app_exit_cb", ToList(a))
Leaving(t) ==
  /\ ~in_app /\ ~Starts(todo[t])
  /\ \/ Dim /\ Here(t, "on_app_exit", ToShow)
     \/ \E a \in Toggles : selected = a /\ Dark /\ Here(t, "on_app_exit", ToShowListed(a))
Showing(t) ==
  /\ DefaultRight /\ ~Starts(todo[t])
  /\ \/ Dim /\ (in_app => selected \in Apps /\ Dark) /\ Here(t, "menu_show", <<>>)
     \/ \E a \in Toggles : ~in_app /\ selected = a /\ Dark /\ Here(t, "menu_show", ToList(a))
Listing(t) ==
  /\ ~in_app /\ MenuUp /\ DefaultRight
  /\ \E a \in Toggles : selected = a /\ HereWith(t, "show_list", a, <<>>)

LEMMA Places ==
  ASSUME NEW t \in Threads, AtWork(t)
  PROVE  Running(t) \/ Noting(t) \/ Exiting(t) \/ Leaving(t) \/ Showing(t) \/ Listing(t)
<1>1. ASSUME NEW op, NEW rest, At(todo[t], op, rest) PROVE Here(t, op, rest)
  BY <1>1 DEF At, Here, Busy, Now
<1>2. ASSUME NEW op, NEW a, NEW rest, AtWith(todo[t], op, a, rest) PROVE HereWith(t, op, a, rest)
  BY <1>2 DEF At, AtWith, Here, HereWith, Busy, Now
<1>3. \A a \in Toggles : a \in Apps
  BY Names
<1>4. CASE \E a \in Apps \ Toggles : todo[t] = ToRun(a) /\ InApp(a) /\ Dark
  <2>1. PICK a \in Apps \ Toggles : todo[t] = ToRun(a) /\ InApp(a) /\ Dark
    BY <1>4
  <2>2. HereWith(t, "run", a, ToNote(a)) /\ ~Starts(todo[t])
    BY <2>1, <1>2, AtParts, LastSteps, Zenon DEF Starts
  <2> QED
    BY <2>1, <2>2 DEF Running
<1>5. CASE \E a \in Apps \ Toggles : todo[t] = ToNote(a) /\ InApp(a) /\ UpOf(a)
  <2>1. PICK a \in Apps \ Toggles : todo[t] = ToNote(a) /\ InApp(a) /\ UpOf(a)
    BY <1>5
  <2>2. HereWith(t, "on_app_entry", a, <<>>)
    BY <2>1, <1>2, AtParts, Zenon
  <2> QED
    BY <2>1, <2>2 DEF Noting
<1>6. CASE \E a \in Toggles : todo[t] = ToRunToggle(a) /\ InApp(a) /\ Dim
  <2>1. PICK a \in Toggles : todo[t] = ToRunToggle(a) /\ InApp(a) /\ Dim
    BY <1>6
  <2>2. HereWith(t, "run", a, ToNoteToggle(a)) /\ ~Starts(todo[t])
    BY <2>1, <1>2, AtParts, LastSteps, Zenon DEF Starts
  <2> QED
    BY <2>1, <2>2, <1>3 DEF Running
<1>7. CASE \E a \in Toggles : todo[t] = ToNoteToggle(a) /\ InApp(a) /\ Dim
  <2>1. PICK a \in Toggles : todo[t] = ToNoteToggle(a) /\ InApp(a) /\ Dim
    BY <1>7
  <2>2. HereWith(t, "on_app_entry", a, ToExit) /\ ~Starts(todo[t])
    BY <2>1, <1>2, AtParts, LastSteps, Zenon DEF Starts
  <2> QED
    BY <2>1, <2>2, <1>3 DEF Noting
<1>8. CASE todo[t] = ToExit /\ in_app /\ Dim
  <2>1. Here(t, "app_exit_cb", <<>>) /\ ~Starts(todo[t])
    BY <1>1, <1>8, AtParts, LastSteps, Zenon DEF Starts
  <2> QED
    BY <2>1, <1>8 DEF Exiting
<1>9. CASE todo[t] = ToLeave /\ ~in_app /\ Dim
  <2>1. Here(t, "on_app_exit", ToShow) /\ ~Starts(todo[t])
    BY <1>1, <1>9, AtParts, LastSteps, Zenon DEF Starts
  <2> QED
    BY <2>1, <1>9 DEF Leaving
<1>10. CASE todo[t] = ToShow /\ DefaultRight /\ Dim /\ (in_app => selected \in Apps /\ Dark)
  <2>1. Here(t, "menu_show", <<>>) /\ ~Starts(todo[t])
    BY <1>1, <1>10, AtParts, LastSteps, Zenon DEF Starts
  <2> QED
    BY <2>1, <1>10 DEF Showing
<1>11. CASE \E a \in Toggles : todo[t] = ToRunListed(a) /\ InApp(a) /\ Dark
  <2>1. PICK a \in Toggles : todo[t] = ToRunListed(a) /\ InApp(a) /\ Dark
    BY <1>11
  <2>2. HereWith(t, "run", a, ToNoteListed(a)) /\ ~Starts(todo[t])
    BY <2>1, <1>2, AtParts, LastSteps, Zenon DEF Starts
  <2> QED
    BY <2>1, <2>2, <1>3 DEF Running
<1>12. CASE \E a \in Toggles : todo[t] = ToNoteListed(a) /\ InApp(a) /\ Dark
  <2>1. PICK a \in Toggles : todo[t] = ToNoteListed(a) /\ InApp(a) /\ Dark
    BY <1>12
  <2>2. HereWith(t, "on_app_entry", a, ToExitListed(a)) /\ ~Starts(todo[t])
    BY <2>1, <1>2, AtParts, LastSteps, Zenon DEF Starts
  <2> QED
    BY <2>1, <2>2, <1>3 DEF Noting
<1>13. CASE \E a \in Toggles : todo[t] = ToExitListed(a) /\ InApp(a) /\ Dark
  <2>1. PICK a \in Toggles : todo[t] = ToExitListed(a) /\ InApp(a) /\ Dark
    BY <1>13
  <2>2. Here(t, "app_exit_cb", ToList(a)) /\ ~Starts(todo[t])
    BY <2>1, <1>1, AtParts, LastSteps, Zenon DEF Starts
  <2> QED
    BY <2>1, <2>2 DEF Exiting, InApp
<1>14. CASE \E a \in Toggles : todo[t] = ToLeaveListed(a) /\ ~in_app /\ selected = a /\ Dark
  <2>1. PICK a \in Toggles : todo[t] = ToLeaveListed(a) /\ ~in_app /\ selected = a /\ Dark
    BY <1>14
  <2>2. Here(t, "on_app_exit", ToShowListed(a)) /\ ~Starts(todo[t])
    BY <2>1, <1>1, AtParts, LastSteps, Zenon DEF Starts
  <2> QED
    BY <2>1, <2>2 DEF Leaving
<1>15. CASE \E a \in Toggles : todo[t] = ToShowListed(a) /\ ~in_app /\ selected = a /\ Dark /\ DefaultRight
  <2>1. PICK a \in Toggles : todo[t] = ToShowListed(a) /\ ~in_app /\ selected = a /\ Dark /\ DefaultRight
    BY <1>15
  <2>2. Here(t, "menu_show", ToList(a)) /\ ~Starts(todo[t])
    BY <2>1, <1>1, AtParts, LastSteps, Zenon DEF Starts
  <2> QED
    BY <2>1, <2>2 DEF Showing
<1>16. CASE \E a \in Toggles : todo[t] = ToList(a) /\ ~in_app /\ selected = a /\ MenuUp /\ DefaultRight
  <2>1. PICK a \in Toggles : todo[t] = ToList(a) /\ ~in_app /\ selected = a /\ MenuUp /\ DefaultRight
    BY <1>16
  <2>2. HereWith(t, "show_list", a, <<>>)
    BY <2>1, <1>2, AtParts, Zenon
  <2> QED
    BY <2>1, <2>2 DEF Listing
<1> QED
  BY <1>4, <1>5, <1>6, <1>7, <1>8, <1>9, <1>10, <1>11, <1>12, <1>13, <1>14, <1>15, <1>16 DEF AtWork

-------------------------------------------------------------------------------
(* Menu: the steps of a thread at work.                                     *)

\* What such a step comes to.
Done(t) == todo'[t] = <<>> /\ OneIsUp' /\ DefaultRight'
Goes(t) ==
  /\ MenuTypes' /\ ListsRight'
  /\ AtWork(t)' \/ Done(t)
  /\ enabled \subseteq enabled' /\ raced' = raced /\ \A u \in Threads \ {t} : todo'[u] = todo[u]
  /\ Dark /\ ~Starts(todo[t]) => Dark' \/ Done(t) \/ Starts(todo'[t])
  /\ Starts(todo[t]) => Done(t)

LEMMA CallsTo ==
  ASSUME NEW t \in Threads, DOMAIN todo = Threads, NEW steps, Calls(t, steps)
  PROVE  /\ todo'[t] = steps \o Tail(todo[t]) /\ \A u \in Threads \ {t} : todo'[u] = todo[u]
         /\ DOMAIN todo' = Threads
BY DEF Calls

LEMMA ReturnsTo ==
  ASSUME NEW t \in Threads, DOMAIN todo = Threads, Returns(t)
  PROVE  /\ todo'[t] = <<>> \o Tail(todo[t]) /\ \A u \in Threads \ {t} : todo'[u] = todo[u]
         /\ DOMAIN todo' = Threads
BY CallsTo DEF Returns

LEMMA StartsOf == \A a \in Apps : Starts(ToNote(a)) /\ Starts(ToList(a))
BY DEF Starts

\* What is shown when an app or the charging screen is.
LEMMA Shown ==
  ASSUME Dark, NEW a \in Apps \ Toggles, DOMAIN container = Handlers,
         \/ a = PowerOff /\ power_off_run
         \/ a # PowerOff /\ ShowApp(a)
  PROVE  UpOf(a)' /\ ~MenuUp' /\ DOMAIN container' = Handlers /\ enabled' \subseteq Handlers
<1>1. HandlerOf[a] \in Handlers \ {"shutdown", "menu"} /\ HandlerOf[PowerOff] = "charging"
  BY Names
<1>2. a # "menu" /\ HandlerOf[PowerOff] \in Handlers /\ "shutdown" \in Handlers
  BY Names DEF Items
<1>3. ASSUME a = PowerOff, power_off_run
      PROVE  UpOf(a)' /\ ~MenuUp' /\ DOMAIN container' = Handlers /\ enabled' \subseteq Handlers
  BY <1>1, <1>2, <1>3 DEF power_off_run, charging_screen_show, UpOf, ChargingUp, MenuUp, Dark
<1>4. ASSUME a # PowerOff, ShowApp(a)
      PROVE  UpOf(a)' /\ ~MenuUp' /\ DOMAIN container' = Handlers /\ enabled' \subseteq Handlers
  BY <1>1, <1>2, <1>4 DEF ShowApp, UpOf, AppUp, MenuUp, Dark
<1> QED
  BY <1>3, <1>4

LEMMA RunGoes ==
  ASSUME NEW t \in Threads, MenuTypes, ListsRight, AtWork(t), run(t)
  PROVE  Goes(t)
<1>1. Running(t)
  BY Places DEF run, Noting, Exiting, Leaving, Showing, Listing, Here, HereWith
<1>2. ~Starts(todo[t])
  BY <1>1 DEF Running
<1>3. PICK a \in Apps : /\ InApp(a)
                        /\ \/ a \notin Toggles /\ Dark /\ HereWith(t, "run", a, ToNote(a))
                           \/ a \in Toggles /\ Dim /\ HereWith(t, "run", a, ToNoteToggle(a))
                           \/ a \in Toggles /\ Dark /\ HereWith(t, "run", a, ToNoteListed(a))
  BY <1>1 DEF Running
<1>4. /\ todo'[t] = <<>> \o Tail(todo[t]) /\ \A u \in Threads \ {t} : todo'[u] = todo[u]
      /\ DOMAIN todo' = Threads
  BY ReturnsTo DEF run, MenuTypes
<1>5. UNCHANGED <<selected, in_app, default_app, raced, lists, highlighted>>
  BY DEF run
<1>6. Now(t).entry = a
  BY <1>3 DEF HereWith
<1>7. CASE a \notin Toggles
  <2>1. Dark /\ todo'[t] = ToNote(a)
    BY <1>3, <1>4, <1>7, Returning DEF Here, HereWith
  <2>2. UpOf(a)' /\ ~MenuUp' /\ DOMAIN container' = Handlers /\ enabled' \subseteq Handlers
    <3>1. \/ a = PowerOff /\ power_off_run
          \/ a # PowerOff /\ ShowApp(a)
      BY <1>6, <1>7 DEF run
    <3> QED
      BY <3>1, <1>7, <2>1, Shown DEF MenuTypes
  <2>3. enabled \subseteq enabled'
    BY <1>6, <1>7 DEF run, power_off_run, charging_screen_show, ShowApp
  <2>4. AtWork(t)'
    BY <1>3, <1>5, <1>7, <2>1, <2>2 DEF AtWork, InApp
  <2>5. ListsRight'
    BY <1>5, <2>2 DEF ListsRight
  <2>6. MenuTypes'
    BY <1>4, <1>5, <2>2 DEF MenuTypes
  <2> QED
    BY <1>2, <1>4, <1>5, <2>1, <2>3, <2>4, <2>5, <2>6, StartsOf DEF Goes, Done
<1>8. CASE a \in Toggles
  <2>1. UNCHANGED <<enabled, visible, container, latch>>
    BY <1>6, <1>8, Names DEF run
  <2>2. Dim' = Dim /\ Dark' = Dark /\ MenuUp' = MenuUp /\ InApp(a)' = InApp(a)
    BY <1>5, <2>1 DEF Dim, Dark, MenuUp, InApp
  <2>3. \/ Dim /\ todo'[t] = ToNoteToggle(a)
        \/ Dark /\ todo'[t] = ToNoteListed(a)
    BY <1>3, <1>4, <1>8, Returning DEF Here, HereWith
  <2>4. AtWork(t)'
    BY <1>3, <1>8, <2>2, <2>3 DEF AtWork
  <2>5. ListsRight'
    BY <1>5, <2>2 DEF ListsRight
  <2>6. MenuTypes'
    BY <1>4, <1>5, <2>1 DEF MenuTypes
  <2> QED
    BY <1>2, <1>4, <1>5, <2>1, <2>2, <2>4, <2>5, <2>6 DEF Goes, Done
<1> QED
  BY <1>7, <1>8

LEMMA NoteGoes ==
  ASSUME NEW t \in Threads, MenuTypes, ListsRight, AtWork(t), on_app_entry(t)
  PROVE  Goes(t)
<1>1. Noting(t)
  BY Places DEF on_app_entry, Running, Exiting, Leaving, Showing, Listing, Here, HereWith
<1>2. PICK a \in Apps :
        /\ InApp(a)
        /\ \/ a \notin Toggles /\ UpOf(a) /\ HereWith(t, "on_app_entry", a, <<>>)
           \/ a \in Toggles /\ Dim /\ ~Starts(todo[t]) /\ HereWith(t, "on_app_entry", a, ToExit)
           \/ a \in Toggles /\ Dark /\ ~Starts(todo[t]) /\ HereWith(t, "on_app_entry", a, ToExitListed(a))
  BY <1>1 DEF Noting
<1>3. /\ todo'[t] = <<>> \o Tail(todo[t]) /\ \A u \in Threads \ {t} : todo'[u] = todo[u]
      /\ DOMAIN todo' = Threads
  BY ReturnsTo DEF on_app_entry, MenuTypes
<1>4. UNCHANGED <<selected, in_app, enabled, visible, container, latch, raced, lists, highlighted>>
  BY DEF on_app_entry, volatile, screenVars
<1>5. Now(t).entry = a
  BY <1>2 DEF HereWith
<1>6. /\ Dim' = Dim /\ Dark' = Dark /\ MenuUp' = MenuUp /\ InApp(a)' = InApp(a) /\ UpOf(a)' = UpOf(a)
      /\ ListsRight'
  BY <1>4 DEF Dim, Dark, MenuUp, InApp, UpOf, AppUp, ChargingUp, ListsRight
<1>7. default_app' = IF a \in Unnamed THEN NoEntry ELSE a
  BY <1>5 DEF on_app_entry
<1>8. MenuTypes'
  BY <1>3, <1>4, <1>7 DEF MenuTypes
<1>9. DefaultRight'
  BY <1>2, <1>4, <1>7 DEF DefaultRight, InApp
<1>10. CASE a \notin Toggles
  <2>1. UpOf(a) /\ todo'[t] = <<>>
    BY <1>2, <1>3, <1>10, Returning DEF Here, HereWith
  <2>2. OneIsUp'
    BY <1>2, <1>6, <1>10, <2>1 DEF OneIsUp
  <2> QED
    BY <1>3, <1>4, <1>6, <1>8, <1>9, <2>1, <2>2 DEF Goes, Done
<1>11. CASE a \in Toggles
  <2>1. \/ Dim /\ todo'[t] = ToExit
        \/ Dark /\ todo'[t] = ToExitListed(a)
    BY <1>2, <1>3, <1>11, Returning DEF Here, HereWith
  <2>2. AtWork(t)'
    BY <1>2, <1>4, <1>6, <1>11, <2>1 DEF AtWork, InApp
  <2> QED
    BY <1>2, <1>3, <1>4, <1>6, <1>8, <1>11, <2>2 DEF Goes, Done
<1> QED
  BY <1>10, <1>11

LEMMA ExitGoes ==
  ASSUME NEW t \in Threads, MenuTypes, ListsRight, AtWork(t), app_exit_cb(t)
  PROVE  Goes(t)
<1>1. Exiting(t)
  BY Places DEF app_exit_cb, Running, Noting, Leaving, Showing, Listing, Here, HereWith
<1>2. /\ todo'[t] = <<Do("on_app_exit"), Do("menu_show")>> \o Tail(todo[t])
      /\ \A u \in Threads \ {t} : todo'[u] = todo[u]
      /\ DOMAIN todo' = Threads
  BY <1>1, CallsTo DEF app_exit_cb, MenuTypes, Exiting
<1>3. UNCHANGED <<selected, enabled, visible, container, latch, raced, lists, highlighted, default_app>>
  BY DEF app_exit_cb, screenVars
<1>4. Dim' = Dim /\ Dark' = Dark /\ MenuUp' = MenuUp /\ ListsRight' /\ ~in_app'
  BY <1>3 DEF Dim, Dark, MenuUp, ListsRight, app_exit_cb
<1>5. \/ Dim /\ todo'[t] = ToLeave
      \/ \E a \in Toggles : selected = a /\ Dark /\ todo'[t] = ToLeaveListed(a)
  BY <1>1, <1>2, ExitSteps DEF Exiting, Here
<1>6. AtWork(t)'
  BY <1>3, <1>4, <1>5 DEF AtWork
<1>7. MenuTypes'
  BY <1>2, <1>3 DEF MenuTypes
<1> QED
  BY <1>1, <1>2, <1>3, <1>4, <1>6, <1>7 DEF Goes, Done, Exiting

LEMMA LeaveGoes ==
  ASSUME NEW t \in Threads, MenuTypes, ListsRight, AtWork(t), on_app_exit(t)
  PROVE  Goes(t)
<1>1. Leaving(t)
  BY Places DEF on_app_exit, Running, Noting, Exiting, Showing, Listing, Here, HereWith
<1>2. /\ todo'[t] = <<>> \o Tail(todo[t]) /\ \A u \in Threads \ {t} : todo'[u] = todo[u]
      /\ DOMAIN todo' = Threads
  BY ReturnsTo DEF on_app_exit, MenuTypes
<1>3. UNCHANGED <<selected, in_app, enabled, visible, container, latch, raced, lists, highlighted>>
  BY DEF on_app_exit, volatile, screenVars
<1>4. Dim' = Dim /\ Dark' = Dark /\ MenuUp' = MenuUp /\ ListsRight' /\ ~in_app' /\ DefaultRight'
  BY <1>1, <1>3 DEF Dim, Dark, MenuUp, ListsRight, DefaultRight, on_app_exit, Leaving
<1>5. \/ Dim /\ todo'[t] = ToShow
      \/ \E a \in Toggles : selected = a /\ Dark /\ todo'[t] = ToShowListed(a)
  BY <1>1, <1>2, Returning DEF Leaving, Here
<1>6. AtWork(t)'
  BY <1>3, <1>4, <1>5 DEF AtWork
<1>7. MenuTypes'
  BY <1>2, <1>3 DEF MenuTypes, on_app_exit
<1> QED
  BY <1>1, <1>2, <1>3, <1>4, <1>6, <1>7 DEF Goes, Done, Leaving

\* The list of entry e is shown.
LEMMA ListIsShown ==
  ASSUME Dim, NEW e \in Items \ {menutree_root}, ListsRight, ShowList(e), selected' = e,
         selected \in {NoEntry, e}, enabled \subseteq Handlers
  PROVE  MenuUp' /\ ListsRight' /\ enabled \subseteq enabled' /\ enabled' \subseteq Handlers
<1>1. lists' = {ParentOf(e)} /\ highlighted'[ParentOf(e)] = e /\ DOMAIN highlighted' = Submenus
  <2>1. lists \subseteq {ParentOf(e)} /\ DOMAIN highlighted = Submenus /\ ParentOf(e) \in Submenus
    BY Parents DEF ListsRight
  <2> QED
    BY <2>1 DEF ShowList
<1>2. MenuUp' /\ enabled \subseteq enabled' /\ enabled' \subseteq Handlers
  BY Names DEF ShowList, Dim, Dark, MenuUp
<1>3. e # NoEntry
  BY Names
<1> QED
  BY <1>1, <1>2, <1>3 DEF ListsRight

LEMMA ListGoes ==
  ASSUME NEW t \in Threads, MenuTypes, ListsRight, AtWork(t), show_list(t)
  PROVE  Goes(t)
<1>1. Listing(t)
  BY Places DEF show_list, Running, Noting, Exiting, Leaving, Showing, Here, HereWith
<1>2. PICK a \in Toggles : selected = a /\ HereWith(t, "show_list", a, <<>>)
  BY <1>1 DEF Listing
<1>3. todo'[t] = <<>> /\ (\A u \in Threads \ {t} : todo'[u] = todo[u]) /\ DOMAIN todo' = Threads
  BY <1>2, ReturnsTo, Returning DEF show_list, MenuTypes, Here, HereWith
<1>4. ShowList(selected) /\ UNCHANGED <<selected, in_app, container, default_app, raced>>
  BY <1>2 DEF show_list, HereWith
<1>5. selected \in Items \ {menutree_root} /\ Dim
  BY <1>1, <1>2, Names DEF Listing, Dim, Items
<1>6. MenuUp' /\ ListsRight' /\ enabled \subseteq enabled' /\ enabled' \subseteq Handlers
  BY <1>4, <1>5, ListIsShown DEF MenuTypes
<1>7. OneIsUp' /\ DefaultRight'
  BY <1>1, <1>4, <1>6 DEF OneIsUp, DefaultRight, Listing
<1>8. MenuTypes'
  BY <1>3, <1>4, <1>6 DEF MenuTypes
<1> QED
  BY <1>3, <1>4, <1>6, <1>7, <1>8 DEF Goes, Done

LEMMA EnterAppDark ==
  ASSUME Dark, NEW a, enter_app(a)
  PROVE  Dark' /\ in_app' = TRUE
BY DEF Dark, enter_app

LEMMA ShowGoes ==
  ASSUME NEW t \in Threads, MenuTypes, ListsRight, AtWork(t), menu_show(t)
  PROVE  Goes(t)
<1>1. Showing(t)
  BY Places DEF menu_show, Running, Noting, Exiting, Leaving, Listing, Here, HereWith
<1> DEFINE e == IF selected = NoEntry THEN menu_find_first_entry(menutree_root) ELSE selected
<1>2. e \in Items \ {menutree_root} /\ e # NoEntry
  BY FirstOfRoot, Names DEF ListsRight
<1>3. selected' = e /\ UNCHANGED <<container, latch, default_app, raced>>
  BY DEF menu_show
<1>4. CASE /\ selected # NoEntry /\ in_app
           /\ enter_app(e)
           /\ Calls(t, EnterSteps(e) \o IF e \in Toggles THEN <<DoWith("show_list", e)>> ELSE <<>>)
           /\ UNCHANGED <<lists, highlighted>>
  <2>1. e = selected /\ e \in Apps /\ Dark /\ Here(t, "menu_show", <<>>)
    BY <1>1, <1>4 DEF Showing
  <2>2. Dark' /\ in_app'
    BY <1>4, <2>1, EnterAppDark
  <2>3. /\ todo'[t] = (EnterSteps(e) \o IF e \in Toggles THEN <<DoWith("show_list", e)>> ELSE <<>>) \o <<>>
        /\ \A u \in Threads \ {t} : todo'[u] = todo[u]
        /\ DOMAIN todo' = Threads
    <3> DEFINE steps == EnterSteps(e) \o IF e \in Toggles THEN <<DoWith("show_list", e)>> ELSE <<>>
    <3> HIDE DEF steps
    <3>1. Calls(t, steps) /\ DOMAIN todo = Threads /\ Tail(todo[t]) = <<>>
      BY <1>4, <2>1 DEF MenuTypes, Here, steps
    <3>2. todo'[t] = steps \o <<>> /\ (\A u \in Threads \ {t} : todo'[u] = todo[u]) /\ DOMAIN todo' = Threads
      BY <3>1, CallsTo
    <3> QED
      BY <3>2 DEF steps
  <2>4. todo'[t] = IF e \in Toggles THEN ToRunListed(e) ELSE ToRun(e)
    BY <2>3, Entering
  <2>5. AtWork(t)'
    BY <1>3, <2>1, <2>2, <2>4 DEF AtWork, InApp
  <2>6. enabled' = enabled
    BY <2>1, <2>2 DEF Dark
  <2>7. MenuTypes'
    BY <1>3, <2>3, <2>6 DEF MenuTypes
  <2>8. ListsRight'
    BY <1>3, <1>4, <2>1, <2>2 DEF ListsRight, MenuUp, Dark
  <2> QED
    BY <1>1, <1>3, <2>2, <2>3, <2>5, <2>6, <2>7, <2>8 DEF Goes, Done, Showing
<1>5. CASE (selected = NoEntry \/ ~in_app) /\ in_app' = FALSE /\ ShowList(e) /\ Returns(t)
  <2>1. ~in_app
    BY <1>1, <1>5, Names DEF Showing, Items
  <2>2. Dim
    BY <1>1 DEF Showing, Dim
  <2>3. MenuUp' /\ ListsRight' /\ enabled \subseteq enabled' /\ enabled' \subseteq Handlers
    BY <1>2, <1>3, <1>5, <2>2, ListIsShown DEF MenuTypes
  <2>4. /\ todo'[t] = <<>> \o Tail(todo[t]) /\ \A u \in Threads \ {t} : todo'[u] = todo[u]
        /\ DOMAIN todo' = Threads
    BY <1>5, ReturnsTo DEF MenuTypes
  <2>5. MenuTypes'
    BY <1>3, <2>3, <2>4 DEF MenuTypes
  <2>6. DefaultRight'
    BY <1>1, <1>3, <1>5, <2>1 DEF DefaultRight, Showing
  <2>7. CASE Here(t, "menu_show", <<>>)
    <3>1. todo'[t] = <<>>
      BY <2>4, <2>7, Returning DEF Here
    <3>2. OneIsUp'
      BY <1>5, <2>3 DEF OneIsUp
    <3> QED
      BY <1>1, <1>3, <2>3, <2>4, <2>5, <2>6, <3>1, <3>2 DEF Goes, Done, Showing
  <2>8. CASE \E a \in Toggles : selected = a /\ Here(t, "menu_show", ToList(a))
    <3>1. PICK a \in Toggles : selected = a /\ Here(t, "menu_show", ToList(a))
      BY <2>8
    <3>2. todo'[t] = ToList(a) /\ a \in Apps /\ selected' = a
      BY <1>3, <2>4, <3>1, Names, Returning DEF Here, Items
    <3>3. AtWork(t)'
      BY <1>5, <2>3, <2>6, <3>2, <3>1 DEF AtWork
    <3> QED
      BY <1>1, <1>3, <2>3, <2>4, <2>5, <3>2, <3>3, StartsOf DEF Goes, Done, Showing
  <2> QED
    BY <1>1, <2>7, <2>8 DEF Showing
<1> QED
  BY <1>4, <1>5 DEF menu_show

LEMMA ThreadGoes ==
  ASSUME NEW t \in Threads, MenuTypes, ListsRight, AtWork(t), Thread(t)
  PROVE  Goes(t)
BY RunGoes, NoteGoes, ExitGoes, LeaveGoes, ShowGoes, ListGoes DEF Thread

\* A thread that takes a step has one to take.
LEMMA ThreadBusy ==
  ASSUME NEW t \in Threads, Thread(t)
  PROVE  /\ Busy(t) /\ raced' = raced /\ UNCHANGED <<presses, resets>>
         /\ Now(t).op \in {"menu_show", "show_list", "app_exit_cb", "on_app_entry", "on_app_exit", "run"}
BY DEF Thread, menu_show, show_list, app_exit_cb, on_app_entry, on_app_exit, run, volatile, screenVars

-------------------------------------------------------------------------------
(* Menu: the calls of handlers.                                             *)

OpsOf(s) == {s[k].op : k \in 1..Len(s)}

\* What every such call does.
LEMMA Dispatches ==
  ASSUME MenuTypes, ButtonsWait, dispatch_event
  PROVE  /\ Now("buttons").entry \in Events /\ Now("buttons").handler \in enabled
         /\ todo'["main"] = todo["main"] /\ DOMAIN todo' = Threads
         /\ Passed => todo'["buttons"] \in CallsOf(enabled)
         /\ \A steps : Handled(steps) => todo'["buttons"] = steps
         /\ UNCHANGED <<default_app, presses, resets>>
         /\ raced' = IF UNCHANGED <<selected, in_app, screenVars>> THEN raced
                     ELSE raced \cup OpsOf(todo["main"])
<1>1. todo["buttons"] # <<>> /\ "buttons" \in Threads /\ "main" \in Threads \ {"buttons"}
  BY DEF dispatch_event, Busy, Threads
<1>2. /\ Now("buttons").entry \in Events /\ Now("buttons").handler \in enabled
      /\ <<>> \o Tail(todo["buttons"]) \in CallsOf(enabled)
  BY <1>1, CallsAre DEF ButtonsWait, Now
<1>3. UNCHANGED <<default_app, presses, resets>>
      /\ raced' = IF UNCHANGED <<selected, in_app, screenVars>> THEN raced
                  ELSE raced \cup OpsOf(todo["main"])
  BY DEF dispatch_event, OpsOf
<1>4. ASSUME Passed
      PROVE  /\ todo'["buttons"] \in CallsOf(enabled) /\ todo'["main"] = todo["main"]
             /\ DOMAIN todo' = Threads
  BY <1>1, <1>2, <1>4, ReturnsTo DEF Passed, MenuTypes
<1>5. ASSUME NEW steps, Handled(steps)
      PROVE  /\ todo'["buttons"] = steps /\ todo'["main"] = todo["main"]
             /\ DOMAIN todo' = Threads
  BY <1>1, <1>5 DEF Handled, MenuTypes
<1>6. Passed \/ \E steps : Handled(steps)
  <2> DEFINE b == Now("buttons").entry
  <2> DEFINE h == Now("buttons").handler
  <2>1. ShutdownHandler(b) \/ ChargingHandler(b) \/ MenuHandler(b) \/ AppHandler(h, b)
    BY DEF dispatch_event
  <2> HIDE DEF b, h
  <2>2. ASSUME ShutdownHandler(b) PROVE Passed \/ \E steps : Handled(steps)
    BY <2>2 DEF ShutdownHandler
  <2>3. ASSUME ChargingHandler(b) PROVE Passed \/ \E steps : Handled(steps)
    BY <2>3 DEF ChargingHandler
  <2>4. ASSUME MenuHandler(b) PROVE Passed \/ \E steps : Handled(steps)
    BY <2>4 DEF MenuHandler
  <2>5. ASSUME AppHandler(h, b) PROVE Passed \/ \E steps : Handled(steps)
    BY <2>5 DEF AppHandler
  <2> QED
    BY <2>1, <2>2, <2>3, <2>4, <2>5
<1> QED
  BY <1>2, <1>3, <1>4, <1>5, <1>6

\* Nothing changes but the latch.
Untouched == ButtonsWait' /\ (latch' => latch) /\ UNCHANGED <<selected, in_app, screenVars>>

\* The button task starts to change what is shown.
Begins == AtWork("buttons")' /\ (visible' # visible \/ in_app' # in_app)

LEMMA ListsStay ==
  ASSUME ListsRight, UNCHANGED <<selected, in_app, screenVars>>
  PROVE  ListsRight'
BY DEF ListsRight, MenuUp, screenVars

LEMMA ShutdownCalled ==
  ASSUME MenuTypes, ButtonsWait, dispatch_event, Now("buttons").handler = "shutdown"
  PROVE  Untouched
<1>1. ShutdownHandler(Now("buttons").entry)
  BY DEF dispatch_event
<1>2. UNCHANGED <<selected, in_app, screenVars>> /\ (latch' => latch) /\ (Passed \/ Handled(<<>>))
  BY <1>1 DEF ShutdownHandler
<1>3. enabled' = enabled
  BY <1>2 DEF screenVars
<1>4. todo'["buttons"] \in CallsOf(enabled')
  BY <1>2, <1>3, Dispatches, NoCalls
<1> QED
  BY <1>2, <1>4 DEF Untouched, ButtonsWait

LEMMA PassedUntouched ==
  ASSUME MenuTypes, ButtonsWait, dispatch_event, UNCHANGED volatile, Passed \/ Handled(<<>>)
  PROVE  Untouched
<1>1. UNCHANGED <<selected, in_app, screenVars>> /\ (latch' => latch) /\ enabled' = enabled
  BY DEF volatile, screenVars
<1>2. todo'["buttons"] \in CallsOf(enabled')
  BY <1>1, Dispatches, NoCalls
<1> QED
  BY <1>1, <1>2 DEF Untouched, ButtonsWait

\* The menu is shown.
LEMMA MenuCalled ==
  ASSUME MenuTypes, ListsRight, ButtonsWait, MenuUp, ~in_app, dispatch_event
  PROVE  /\ ListsRight' /\ container' = container
         /\ \/ Untouched
            \/ MenuUp' /\ ~in_app' /\ ButtonsWait' /\ (latch' => latch)
            \/ \E a \in Apps \ Toggles : todo'["buttons"] = ToRun(a) /\ InApp(a)' /\ Dark'
            \/ \E a \in Toggles : todo'["buttons"] = ToRunToggle(a) /\ InApp(a)' /\ Dim'
<1>1. Now("buttons").handler \in {"shutdown", "menu"}
  BY Dispatches DEF MenuUp
<1>2. CASE Now("buttons").handler = "shutdown"
  BY <1>2, ShutdownCalled, ListsStay DEF Untouched, screenVars
<1>3. CASE Now("buttons").handler = "menu"
  <2> DEFINE b == Now("buttons").entry
  <2>1. MenuHandler(b)
    BY <1>3 DEF dispatch_event
  <2> HIDE DEF b
  <2>2. /\ selected \in Items \ {menutree_root} /\ lists = {ParentOf(selected)}
        /\ highlighted[ParentOf(selected)] = selected /\ DOMAIN highlighted = Submenus
    BY DEF ListsRight
  <2>3. ASSUME UNCHANGED <<in_app, enabled, visible, container, latch>>,
               selected' \in Items \ {menutree_root}, lists' = {ParentOf(selected')},
               highlighted' = [highlighted EXCEPT ![ParentOf(selected')] = selected'],
               Passed \/ Handled(<<>>)
        PROVE  ListsRight' /\ MenuUp' /\ ~in_app' /\ ButtonsWait' /\ (latch' => latch) /\ container' = container
    <3>1. todo'["buttons"] \in CallsOf(enabled')
      BY <2>3, Dispatches, NoCalls
    <3>2. MenuUp' /\ ~in_app'
      BY <2>3 DEF MenuUp
    <3>3. selected' # NoEntry /\ highlighted'[ParentOf(selected')] = selected' /\ DOMAIN highlighted' = Submenus
      BY <2>2, <2>3, Names, Parents
    <3> QED
      BY <2>3, <3>1, <3>2, <3>3 DEF ListsRight, ButtonsWait
  <2>4. CASE b \in {"up", "down"} /\ Move(IF b = "up" THEN -1 ELSE 1) /\ Passed
             /\ UNCHANGED <<in_app, enabled, visible, container, latch>>
    <3>1. PICK step \in {-1, 1} : Move(step)
      BY <2>4
    <3>2. selected' \in Items \ {menutree_root} /\ ParentOf(selected') = ParentOf(selected)
      BY <2>2, <3>1, NextEntry DEF Move
    <3> QED
      BY <2>2, <2>3, <2>4, <3>1, <3>2 DEF Move
  <2>5. CASE b = "exit" /\ ParentOf(selected) # menutree_root /\ Back(ParentOf(selected)) /\ Handled(<<>>)
             /\ UNCHANGED <<in_app, enabled, visible, container, latch>>
    <3>1. ParentOf(selected) \in Items \ {menutree_root}
      BY <2>2, <2>5, Parents DEF Items
    <3> QED
      BY <2>2, <2>3, <2>5, <3>1 DEF Back
  <2>6. CASE b = "enter" /\ selected \in Apps /\ ~in_app /\ enter_app(selected) /\ Handled(EnterSteps(selected))
             /\ UNCHANGED <<selected, lists, highlighted, container, latch>>
    <3>1. InApp(selected)'
      BY <2>6 DEF InApp, enter_app
    <3>2. todo'["buttons"] = EnterSteps(selected)
      BY <2>6, Dispatches
    <3>3. IF selected \in KeepVisible THEN MenuUp' ELSE Dark'
      BY <2>6 DEF enter_app, MenuUp, Dark
    <3>4. ListsRight'
      BY <2>2, <2>6, Names DEF ListsRight
    <3>5. CASE selected \in Toggles
      BY <2>6, <3>1, <3>2, <3>3, <3>4, <3>5, Entering DEF Dim
    <3>6. CASE selected \notin Toggles
      <4>1. Dark' /\ todo'["buttons"] = ToRun(selected)
        BY <3>2, <3>3, <3>6, Names, Entering
      <4> QED
        BY <2>6, <3>1, <3>4, <3>6, <4>1
    <3> QED
      BY <3>5, <3>6
  <2>7. CASE b = "enter" /\ selected \in Submenus /\ Entries[selected] # <<>> /\ OpenSubmenu(selected)
             /\ Handled(<<>>) /\ UNCHANGED <<in_app, enabled, visible, container, latch>>
    <3>1. selected' \in Items \ {menutree_root} /\ ParentOf(selected') = selected
      BY <2>7, FirstEntry DEF OpenSubmenu
    <3>2. lists' = {selected}
      BY <2>2, <2>7 DEF OpenSubmenu
    <3>3. highlighted' = [highlighted EXCEPT ![selected] = selected']
      BY <2>7 DEF OpenSubmenu
    <3> QED
      BY <2>3, <2>7, <3>1, <3>2, <3>3
  <2>8. CASE Passed /\ UNCHANGED volatile
    BY <2>8, PassedUntouched, ListsStay DEF Untouched, screenVars
  <2> QED
    BY <2>1, <2>4, <2>5, <2>6, <2>7, <2>8 DEF MenuHandler
<1> QED
  BY <1>1, <1>2, <1>3

\* The handler of the screen that is shown takes it away.
LEMMA LeaveIsDark ==
  ASSUME NEW h, enabled = {"shutdown", h}, h # "shutdown", Leave(h),
         visible = {IF h = "charging" THEN h ELSE container[h]}
  PROVE  Dark' /\ visible' # visible
BY DEF Leave, Dark

\* An app is shown.
LEMMA AppCalled ==
  ASSUME MenuTypes, ListsRight, ButtonsWait, NEW a \in Apps \ Toggles, InApp(a), UpOf(a), dispatch_event
  PROVE  /\ ListsRight' /\ container' = container
         /\ Untouched \/ (todo'["buttons"] = ToExit /\ in_app' /\ Dark' /\ visible' # visible)
<1>1. /\ enabled = {"shutdown", HandlerOf[a]} /\ HandlerOf[a] \notin {"shutdown", "menu"}
      /\ HandlerOf[a] = "charging" <=> a = PowerOff
  BY Names DEF UpOf, ChargingUp, AppUp
<1>2. Now("buttons").handler \in {"shutdown", HandlerOf[a]}
  BY <1>1, Dispatches
<1>3. CASE Now("buttons").handler = "shutdown"
  BY <1>3, ShutdownCalled, ListsStay DEF Untouched, screenVars
<1>4. CASE Now("buttons").handler = HandlerOf[a] /\ a = PowerOff
  <2> DEFINE b == Now("buttons").entry
  <2>1. ChargingHandler(b)
    BY <1>1, <1>4 DEF dispatch_event
  <2> HIDE DEF b
  <2>2. CASE /\ b = "enter" /\ Leave("charging")
             /\ Handled(<<Do(IF container["charging"] = NoEntry THEN "menu_show" ELSE "app_exit_cb")>>)
             /\ UNCHANGED <<selected, in_app, lists, highlighted, container>>
    <3>1. container["charging"] = PowerOff /\ PowerOff # NoEntry /\ visible = {"charging"}
      BY <1>4, Names DEF UpOf, ChargingUp, Items
    <3>2. todo'["buttons"] = ToExit
      BY <2>2, <3>1, Dispatches DEF ToExit
    <3>3. Dark' /\ visible' # visible
      BY <1>1, <1>4, <2>2, <3>1, LeaveIsDark
    <3>4. ListsRight'
      BY <2>2, <3>3 DEF ListsRight, MenuUp, Dark
    <3> QED
      BY <2>2, <3>2, <3>3, <3>4 DEF InApp
  <2>3. CASE Passed /\ UNCHANGED volatile
    BY <2>3, PassedUntouched, ListsStay DEF Untouched, screenVars
  <2> QED
    BY <2>1, <2>2, <2>3 DEF ChargingHandler
<1>5. CASE Now("buttons").handler = HandlerOf[a] /\ a # PowerOff
  <2> DEFINE b == Now("buttons").entry
  <2>1. AppHandler(HandlerOf[a], b)
    BY <1>1, <1>5 DEF dispatch_event
  <2> HIDE DEF b
  <2>2. CASE /\ b = "exit" /\ Leave(HandlerOf[a]) /\ Handled(<<Do("app_exit_cb")>>)
             /\ UNCHANGED <<selected, in_app, lists, highlighted, container, latch>>
    <3>1. container[HandlerOf[a]] = a /\ visible = {a}
      BY <1>5 DEF UpOf, AppUp
    <3>2. todo'["buttons"] = ToExit
      BY <2>2, Dispatches DEF ToExit
    <3>3. Dark' /\ visible' # visible
      BY <1>1, <1>5, <2>2, <3>1, LeaveIsDark
    <3>4. ListsRight'
      BY <2>2, <3>3 DEF ListsRight, MenuUp, Dark
    <3> QED
      BY <2>2, <3>2, <3>3, <3>4 DEF InApp
  <2>3. CASE (Passed \/ Handled(<<>>)) /\ UNCHANGED volatile
    BY <2>3, PassedUntouched, ListsStay DEF Untouched, screenVars
  <2> QED
    BY <2>1, <2>2, <2>3 DEF AppHandler
<1> QED
  BY <1>2, <1>3, <1>4, <1>5

\* The charging screen is shown after power on.
LEMMA FirstCalled ==
  ASSUME MenuTypes, ListsRight, ButtonsWait, ChargingFirst, dispatch_event
  PROVE  /\ ListsRight' /\ container' = container
         /\ \/ Untouched
            \/ /\ todo'["buttons"] = ToShow /\ Dark' /\ visible' # visible
               /\ UNCHANGED <<selected, in_app>> /\ (in_app' => selected' \in Apps)
<1>1. enabled = {"shutdown", "charging"} /\ visible = {"charging"} /\ container["charging"] = NoEntry
  BY DEF ChargingFirst, ChargingUp
<1>2. Now("buttons").handler \in {"shutdown", "charging"}
  BY <1>1, Dispatches
<1>3. CASE Now("buttons").handler = "shutdown"
  BY <1>3, ShutdownCalled, ListsStay DEF Untouched, screenVars
<1>4. CASE Now("buttons").handler = "charging"
  <2> DEFINE b == Now("buttons").entry
  <2>1. ChargingHandler(b)
    BY <1>4 DEF dispatch_event
  <2> HIDE DEF b
  <2>2. CASE /\ b = "enter" /\ Leave("charging")
             /\ Handled(<<Do(IF container["charging"] = NoEntry THEN "menu_show" ELSE "app_exit_cb")>>)
             /\ UNCHANGED <<selected, in_app, lists, highlighted, container>>
    <3>1. todo'["buttons"] = ToShow
      BY <1>1, <2>2, Dispatches DEF ToShow
    <3>2. Dark' /\ visible' # visible
      BY <1>1, <2>2, LeaveIsDark
    <3>3. ListsRight'
      BY <2>2, <3>2 DEF ListsRight, MenuUp, Dark
    <3> QED
      BY <2>2, <3>1, <3>2, <3>3 DEF ChargingFirst
  <2>3. CASE Passed /\ UNCHANGED volatile
    BY <2>3, PassedUntouched, ListsStay DEF Untouched, screenVars
  <2> QED
    BY <2>1, <2>2, <2>3 DEF ChargingHandler
<1> QED
  BY <1>2, <1>3, <1>4

\* Only the power button is listened to.
LEMMA DarkCalled ==
  ASSUME MenuTypes, ListsRight, ButtonsWait, Dark, dispatch_event
  PROVE  Untouched /\ ListsRight' /\ container' = container
BY Dispatches, ShutdownCalled, ListsStay DEF Dark, Untouched, screenVars

\* What the button task does where it has calls left and one screen is shown.
LEMMA OneIsUpCalled ==
  ASSUME MenuTypes, ListsRight, ButtonsWait, OneIsUp, dispatch_event
  PROVE  /\ MenuTypes' /\ ListsRight'
         /\ \/ Untouched
            \/ (DefaultRight \/ "on_app_entry" \in raced') =>
                 (ButtonsWait' /\ OneIsUp' /\ DefaultRight') \/ AtWork("buttons")'
<1>1. UNCHANGED default_app /\ raced \subseteq raced' /\ DOMAIN todo' = Threads
  BY Dispatches
<1>2. CASE MenuUp /\ ~in_app
  <2>1. /\ ListsRight' /\ container' = container
        /\ \/ Untouched
           \/ MenuUp' /\ ~in_app' /\ ButtonsWait' /\ (latch' => latch)
           \/ \E a \in Apps \ Toggles : todo'["buttons"] = ToRun(a) /\ InApp(a)' /\ Dark'
           \/ \E a \in Toggles : todo'["buttons"] = ToRunToggle(a) /\ InApp(a)' /\ Dim'
    BY <1>2, MenuCalled
  <2>2. enabled' \subseteq Handlers
    BY <1>2, <2>1, Names DEF MenuTypes, Untouched, MenuUp, Dark, Dim, screenVars
  <2>3. MenuTypes'
    BY <1>1, <2>1, <2>2 DEF MenuTypes
  <2>4. ASSUME MenuUp' /\ ~in_app' /\ ButtonsWait', DefaultRight \/ "on_app_entry" \in raced'
        PROVE  ButtonsWait' /\ OneIsUp' /\ DefaultRight'
    BY <1>1, <1>2, <2>4 DEF OneIsUp, DefaultRight
  <2>5. ASSUME NEW a \in Apps \ Toggles, todo'["buttons"] = ToRun(a), InApp(a)', Dark'
        PROVE  AtWork("buttons")'
    BY <2>5 DEF AtWork
  <2>6. ASSUME NEW a \in Toggles, todo'["buttons"] = ToRunToggle(a), InApp(a)', Dim'
        PROVE  AtWork("buttons")'
    BY <2>6 DEF AtWork
  <2> QED
    BY <2>1, <2>3, <2>4, <2>5, <2>6
<1>3. CASE \E a \in Apps \ Toggles : InApp(a) /\ UpOf(a)
  <2>1. /\ ListsRight' /\ container' = container
        /\ Untouched \/ (todo'["buttons"] = ToExit /\ in_app' /\ Dark' /\ visible' # visible)
    BY <1>3, AppCalled
  <2>2. enabled' \subseteq Handlers
    BY <2>1, Names DEF MenuTypes, Untouched, Dark, screenVars
  <2>3. MenuTypes'
    BY <1>1, <2>1, <2>2 DEF MenuTypes
  <2>4. ASSUME todo'["buttons"] = ToExit, in_app', Dark' PROVE AtWork("buttons")'
    BY <2>4 DEF AtWork, Dim
  <2> QED
    BY <2>1, <2>3, <2>4
<1>4. CASE ChargingFirst
  <2>1. /\ ListsRight' /\ container' = container
        /\ \/ Untouched
           \/ /\ todo'["buttons"] = ToShow /\ Dark' /\ visible' # visible
              /\ UNCHANGED <<selected, in_app>> /\ (in_app' => selected' \in Apps)
    BY <1>4, FirstCalled
  <2>2. enabled' \subseteq Handlers
    BY <2>1, Names DEF MenuTypes, Untouched, Dark, screenVars
  <2>3. MenuTypes'
    BY <1>1, <2>1, <2>2 DEF MenuTypes
  <2>4. ASSUME todo'["buttons"] = ToShow, Dark', UNCHANGED <<selected, in_app>>, in_app' => selected' \in Apps,
               DefaultRight \/ "on_app_entry" \in raced'
        PROVE  AtWork("buttons")'
    <3>1. DefaultRight'
      BY <1>1, <2>4 DEF DefaultRight
    <3> QED
      BY <2>4, <3>1 DEF AtWork, Dim
  <2> QED
    BY <2>1, <2>3, <2>4
<1> QED
  BY <1>2, <1>3, <1>4 DEF OneIsUp

-------------------------------------------------------------------------------
(* Menu: every step keeps the invariant.                                    *)

LEMMA WorkOps ==
  ASSUME NEW t \in Threads, AtWork(t)
  PROVE  /\ Busy(t)
         /\ Now(t).op \in {"menu_show", "show_list", "app_exit_cb", "on_app_entry", "on_app_exit", "run"}
BY Places DEF Running, Noting, Exiting, Leaving, Showing, Listing, Here, HereWith

LEMMA WaitOps ==
  ASSUME ButtonsWait, Busy("buttons")
  PROVE  Now("buttons").op = "dispatch"
BY CallsAre DEF ButtonsWait, Busy, Now

LEMMA StartsAtWork ==
  ASSUME NEW t \in Threads, AtWork(t), Starts(todo[t])
  PROVE  \/ \E a \in Apps \ Toggles : todo[t] = ToNote(a) /\ InApp(a) /\ UpOf(a)
         \/ \E a \in Toggles : todo[t] = ToList(a) /\ ~in_app /\ selected = a /\ MenuUp /\ DefaultRight
<1>1. PICK b \in Apps : todo[t] = ToNote(b) \/ todo[t] = ToList(b)
  BY DEF Starts
<1> QED
  BY <1>1, LastSteps, Zenon DEF AtWork

LEMMA OpsOfParts == OpsOf(<<>>) = {} /\ \A a : OpsOf(ToNote(a)) = {"on_app_entry"} /\ OpsOf(ToList(a)) = {"show_list"}
<1>1. OpsOf(<<>>) = {}
  BY DEF OpsOf
<1>2. \A x : OpsOf(<<x>>) = {x.op}
  BY DEF OpsOf
<1> QED
  BY <1>1, <1>2, StepFields DEF ToNote, ToList

\* What is untouched stays as it is for a thread at work.
LEMMA StaysAtWork ==
  ASSUME NEW t \in Threads, AtWork(t), todo'[t] = todo[t], UNCHANGED <<selected, in_app, screenVars>>,
         latch' => latch, DefaultRight => DefaultRight'
  PROVE  AtWork(t)'
<1>1. UNCHANGED <<selected, in_app, enabled, visible, container>>
  BY DEF screenVars
<1>2. Dark' = Dark /\ MenuUp' = MenuUp /\ Dim' = Dim
  BY <1>1 DEF Dim, Dark, MenuUp
<1>3. \A a : InApp(a) => InApp(a)'
  BY <1>1 DEF InApp
<1>4. \A a : UpOf(a) => UpOf(a)'
  BY <1>1 DEF UpOf, AppUp, ChargingUp
<1>5. CASE \E a \in Apps \ Toggles : todo[t] = ToRun(a) /\ InApp(a) /\ Dark
  BY <1>2, <1>3, <1>5 DEF AtWork
<1>6. CASE \E a \in Apps \ Toggles : todo[t] = ToNote(a) /\ InApp(a) /\ UpOf(a)
  BY <1>3, <1>4, <1>6 DEF AtWork
<1>7. CASE \E a \in Toggles : todo[t] \in {ToRunToggle(a), ToNoteToggle(a)} /\ InApp(a) /\ Dim
  BY <1>2, <1>3, <1>7 DEF AtWork
<1>8. CASE \/ todo[t] = ToExit /\ in_app /\ Dim
           \/ todo[t] = ToLeave /\ ~in_app /\ Dim
           \/ todo[t] = ToShow /\ DefaultRight /\ Dim /\ (in_app => selected \in Apps /\ Dark)
  BY <1>1, <1>2, <1>8 DEF AtWork
<1>9. CASE \E a \in Toggles : todo[t] \in {ToRunListed(a), ToNoteListed(a), ToExitListed(a)} /\ InApp(a) /\ Dark
  BY <1>2, <1>3, <1>9 DEF AtWork
<1>10. CASE \E a \in Toggles : todo[t] = ToLeaveListed(a) /\ ~in_app /\ selected = a /\ Dark
  BY <1>1, <1>2, <1>10 DEF AtWork
<1>11. CASE \E a \in Toggles : todo[t] = ToShowListed(a) /\ ~in_app /\ selected = a /\ Dark /\ DefaultRight
  BY <1>1, <1>2, <1>11 DEF AtWork
<1>12. CASE \E a \in Toggles : todo[t] = ToList(a) /\ ~in_app /\ selected = a /\ MenuUp /\ DefaultRight
  BY <1>1, <1>2, <1>12 DEF AtWork
<1> QED
  BY <1>5, <1>6, <1>7, <1>8, <1>9, <1>10, <1>11, <1>12 DEF AtWork

\* Main is at work, or has not begun.
MainIn == MenuTypes /\ ListsRight /\ MainWorks /\ "show_list" \notin raced
ButtonsIn == MenuTypes /\ ListsRight /\ ButtonsWork /\ "show_list" \notin raced

LEMMA ThreadNames == "main" \in Threads /\ "buttons" \in Threads
BY DEF Threads

LEMMA MainMain ==
  ASSUME MainIn, Thread("main")
  PROVE  MainIn' \/ ButtonsIn'
<1>1. AtWork("main") /\ (Dark \/ Starts(todo["main"])) /\ ButtonsWait
  <2>1. Now("main").op \notin {"menutree_init", "app_main"}
    BY ThreadNames, ThreadBusy
  <2>2. todo["main"] # ToInit /\ todo["main"] # ToStart
    BY <2>1, AtParts DEF At, Now
  <2> QED
    BY <2>2 DEF MainIn, MainWorks
<1>2. Goes("main")
  BY <1>1, ThreadNames, ThreadGoes DEF MainIn
<1>3. MenuTypes' /\ ListsRight' /\ "show_list" \notin raced'
  BY <1>2 DEF Goes, MainIn
<1>4. ButtonsWait'
  <2>1. todo'["buttons"] = todo["buttons"] /\ enabled \subseteq enabled'
    BY <1>2 DEF Goes, Threads
  <2> QED
    BY <1>1, <2>1, CallsOfMore DEF ButtonsWait
<1>5. ASSUME Done("main") PROVE ButtonsIn'
  BY <1>3, <1>4, <1>5 DEF Done, ButtonsIn, ButtonsWork
<1>6. Done("main") \/ (AtWork("main")' /\ (Dark' \/ Starts(todo["main"])'))
  BY <1>1, <1>2 DEF Goes
<1> QED
  BY <1>3, <1>4, <1>5, <1>6 DEF MainIn, MainWorks

LEMMA MainButtons ==
  ASSUME MainIn, Thread("buttons")
  PROVE  FALSE
BY ThreadNames, ThreadBusy, WaitOps DEF MainIn, MainWorks

\* The main's part, where nothing of it is touched.
LEMMA MainStays ==
  ASSUME MainIn, todo'["main"] = todo["main"], UNCHANGED <<selected, in_app, screenVars, raced, default_app>>,
         latch' => latch, ButtonsWait', DOMAIN todo' = Threads
  PROVE  MainIn'
<1>1. UNCHANGED <<enabled, visible, container>>
  BY DEF screenVars
<1>2. Dark' = Dark /\ DefaultRight' = DefaultRight
  BY <1>1 DEF Dark, DefaultRight
<1>3. MenuTypes' /\ ListsRight' /\ "show_list" \notin raced'
  BY <1>1, ListsStay DEF MainIn, MenuTypes
<1>4. ASSUME AtWork("main"), Dark \/ Starts(todo["main"]) PROVE AtWork("main")' /\ (Dark' \/ Starts(todo["main"])')
  BY <1>2, <1>4, ThreadNames, StaysAtWork
<1>5. MainWorks'
  <2>1. CASE todo["main"] = ToInit /\ Dark /\ selected = NoEntry /\ ~in_app /\ container["charging"] = NoEntry
    BY <1>1, <1>2, <2>1 DEF MainWorks
  <2>2. CASE /\ todo["main"] = ToStart /\ Dark /\ container["charging"] = NoEntry
             /\ (in_app => selected \in Apps) /\ DefaultRight
    BY <1>1, <1>2, <2>2 DEF MainWorks
  <2>3. CASE AtWork("main") /\ (Dark \/ Starts(todo["main"]))
    BY <1>4, <2>3 DEF MainWorks
  <2> QED
    BY <2>1, <2>2, <2>3 DEF MainIn, MainWorks
<1> QED
  BY <1>3, <1>5 DEF MainIn

LEMMA MainPressed ==
  ASSUME MainIn, NEW b \in Events, process_button_event(b)
  PROVE  MainIn'
<1>1. UNCHANGED <<selected, in_app, screenVars, raced, default_app, latch>>
  BY DEF process_button_event, volatile
<1>2. todo'["main"] = todo["main"] /\ todo'["buttons"] = shadow_list(b) /\ DOMAIN todo' = Threads
  BY DEF process_button_event, MainIn, MenuTypes, Threads
<1>3. ButtonsWait'
  BY <1>1, <1>2, ShadowList DEF ButtonsWait, screenVars
<1> QED
  BY <1>1, <1>2, <1>3, MainStays

LEMMA MainCalled ==
  ASSUME MainIn, dispatch_event
  PROVE  MenuInv'
<1>1. MenuTypes /\ ListsRight /\ ButtonsWait /\ "show_list" \notin raced
  BY DEF MainIn, MainWorks
<1>2. /\ todo'["main"] = todo["main"] /\ DOMAIN todo' = Threads /\ UNCHANGED default_app
      /\ raced' = IF UNCHANGED <<selected, in_app, screenVars>> THEN raced ELSE raced \cup OpsOf(todo["main"])
  BY <1>1, Dispatches
<1>3. ASSUME Untouched PROVE MenuInv'
  <2>1. MainIn'
    BY <1>2, <1>3, MainStays DEF Untouched
  <2> QED
    BY <2>1 DEF MainIn, MenuInv
<1>4. CASE Dark
  BY <1>1, <1>3, <1>4, DarkCalled
<1>5. CASE \E a \in Apps \ Toggles : todo["main"] = ToNote(a) /\ InApp(a) /\ UpOf(a)
  <2>1. PICK a \in Apps \ Toggles : todo["main"] = ToNote(a) /\ InApp(a) /\ UpOf(a)
    BY <1>5
  <2>2. /\ ListsRight' /\ container' = container
        /\ Untouched \/ (todo'["buttons"] = ToExit /\ in_app' /\ Dark' /\ visible' # visible)
    BY <1>1, <2>1, AppCalled
  <2>3. ASSUME todo'["buttons"] = ToExit, in_app', Dark', visible' # visible PROVE MenuInv'
    <3>1. raced' = raced \cup {"on_app_entry"}
      BY <1>2, <2>1, <2>3, OpsOfParts DEF screenVars
    <3>2. AtWork("buttons")'
      BY <2>3 DEF AtWork, Dim
    <3>3. MenuTypes'
      BY <1>1, <1>2, <2>2, <2>3, Names DEF MenuTypes, Dark
    <3>4. ButtonsWork'
      BY <1>2, <2>1, <3>1, <3>2 DEF ButtonsWork
    <3>5. "show_list" \notin raced'
      BY <1>1, <3>1
    <3> QED
      BY <2>2, <3>3, <3>4, <3>5 DEF MenuInv
  <2> QED
    BY <1>3, <2>2, <2>3
<1>6. CASE \E a \in Toggles : todo["main"] = ToList(a) /\ ~in_app /\ selected = a /\ MenuUp /\ DefaultRight
  <2>1. PICK a \in Toggles : todo["main"] = ToList(a) /\ ~in_app /\ selected = a /\ MenuUp /\ DefaultRight
    BY <1>6
  <2>2. /\ container' = container
        /\ \/ Untouched
           \/ MenuUp' /\ ~in_app' /\ ButtonsWait' /\ (latch' => latch)
           \/ \E c \in Apps \ Toggles : todo'["buttons"] = ToRun(c) /\ InApp(c)' /\ Dark'
           \/ \E c \in Toggles : todo'["buttons"] = ToRunToggle(c) /\ InApp(c)' /\ Dim'
    BY <1>1, <2>1, MenuCalled
  <2>3. enabled' \subseteq {"shutdown", "menu"}
    BY <2>1, <2>2 DEF Untouched, MenuUp, Dark, Dim, screenVars
  <2>4. MenuTypes'
    BY <1>1, <1>2, <2>2, <2>3, Names DEF MenuTypes
  <2>5. CASE UNCHANGED <<selected, in_app, screenVars>> /\ ButtonsWait' /\ (latch' => latch)
    BY <1>3, <2>5 DEF Untouched
  <2>6. CASE ~UNCHANGED <<selected, in_app, screenVars>>
    <3>1. "show_list" \in raced'
      BY <1>2, <2>1, <2>6, OpsOfParts
    <3> DEFINE H == {h \in Handlers : h = "charging" => container'["charging"] # NoEntry}
    <3>2. enabled' \subseteq H
      BY <2>3, Names
    <3>3. \/ todo'["buttons"] \in CallsOf(H)
          \/ \E c \in Apps : todo'["buttons"] \in {ToRun(c), ToNote(c), ToRunToggle(c), ToNoteToggle(c)}
      <4>1. CASE ButtonsWait'
        BY <3>2, <4>1, CallsOfMore DEF ButtonsWait
      <4>2. CASE \E c \in Apps \ Toggles : todo'["buttons"] = ToRun(c)
        BY <4>2
      <4>3. CASE \E c \in Toggles : todo'["buttons"] = ToRunToggle(c)
        BY <4>3, Names
      <4> QED
        BY <2>2, <4>1, <4>2, <4>3 DEF Untouched
    <3>4. Wild'
      BY <1>2, <2>1, <2>3, <3>3, Names DEF Wild
    <3> QED
      BY <2>4, <3>1, <3>4 DEF MenuInv
  <2>7. ASSUME UNCHANGED <<selected, in_app, screenVars>> PROVE ButtonsWait' /\ (latch' => latch)
    <3>1. ~InApp(selected)' /\ \A c : InApp(c)' => c = selected'
      BY <2>1, <2>7 DEF InApp
    <3> QED
      BY <2>2, <3>1 DEF Untouched, InApp
  <2> QED
    BY <2>5, <2>6, <2>7
<1> QED
  <2>1. CASE AtWork("main") /\ Starts(todo["main"])
    BY <1>5, <1>6, <2>1, ThreadNames, StartsAtWork
  <2> QED
    BY <1>4, <2>1 DEF MainIn, MainWorks

LEMMA MainInits ==
  ASSUME MainIn, menutree_init
  PROVE  MainIn'
<1>1. Now("main").op = "menutree_init" /\ Busy("main") /\ "main" \in Threads
  BY ThreadNames DEF menutree_init
<1>2. todo["main"] = ToInit /\ Dark /\ selected = NoEntry /\ ~in_app /\ container["charging"] = NoEntry /\ ButtonsWait
  <2>1. ~AtWork("main")
    BY <1>1, WorkOps
  <2>2. todo["main"] # ToStart
    BY <1>1, AtParts DEF At, Now
  <2> QED
    BY <2>1, <2>2 DEF MainIn, MainWorks
<1>3. /\ selected' = default_app /\ in_app' = (default_app # NoEntry)
      /\ UNCHANGED <<enabled, visible, lists, highlighted, container, default_app, raced>>
  BY DEF menutree_init, screenVars
<1>4. todo'["main"] = ToStart /\ todo'["buttons"] = todo["buttons"] /\ DOMAIN todo' = Threads
  <2>1. /\ todo'["main"] = <<Do("app_main")>> \o Tail(todo["main"])
        /\ \A u \in Threads \ {"main"} : todo'[u] = todo[u]
        /\ DOMAIN todo' = Threads
    BY <1>1, CallsTo DEF menutree_init, MainIn, MenuTypes
  <2>2. Tail(todo["main"]) = <<>>
    BY <1>2, AtParts DEF At
  <2>3. <<Do("app_main")>> \o <<>> = ToStart
    BY AndNothing DEF ToStart
  <2> QED
    BY <2>1, <2>2, <2>3, ThreadNames
<1>5. default_app \in (Apps \ Unnamed) \cup {NoEntry} /\ NoEntry \notin Apps
  BY Names DEF MainIn, MenuTypes, Items
<1>6. MenuTypes'
  BY <1>3, <1>4 DEF MainIn, MenuTypes
<1>7. ListsRight'
  BY <1>2, <1>3, <1>5, Names DEF MainIn, ListsRight, MenuUp, Dark, Items
<1>8. Dark' /\ ButtonsWait'
  BY <1>2, <1>3, <1>4 DEF Dark, ButtonsWait
<1>9. DefaultRight' /\ (in_app' => selected' \in Apps)
  BY <1>3, <1>5 DEF DefaultRight
<1>10. MainWorks'
  BY <1>2, <1>3, <1>4, <1>8, <1>9 DEF MainWorks
<1> QED
  BY <1>3, <1>6, <1>7, <1>10 DEF MainIn

LEMMA MainStarts ==
  ASSUME MainIn, app_main
  PROVE  MainIn' \/ ButtonsIn'
<1>1. Now("main").op = "app_main" /\ Busy("main") /\ "main" \in Threads
  BY ThreadNames DEF app_main
<1>2. /\ todo["main"] = ToStart /\ Dark /\ container["charging"] = NoEntry
      /\ (in_app => selected \in Apps) /\ DefaultRight /\ ButtonsWait
  <2>1. ~AtWork("main")
    BY <1>1, WorkOps
  <2>2. todo["main"] # ToInit
    BY <1>1, AtParts DEF At, Now
  <2> QED
    BY <2>1, <2>2 DEF MainIn, MainWorks
<1>3. UNCHANGED <<selected, in_app, lists, highlighted, container, default_app, raced>> /\ DefaultRight'
  BY <1>2 DEF app_main, screenVars, DefaultRight
<1>4. Tail(todo["main"]) = <<>>
  BY <1>2, AtParts DEF At
<1>5. CASE Calls("main", <<Do("menu_show")>>) /\ UNCHANGED <<screenVars, latch>>
  <2>1. todo'["main"] = ToShow /\ todo'["buttons"] = todo["buttons"] /\ DOMAIN todo' = Threads
    <3>1. <<Do("menu_show")>> \o <<>> = ToShow
      BY AndNothing DEF ToShow
    <3> QED
      BY <1>4, <1>5, <3>1, ThreadNames, CallsTo DEF MainIn, MenuTypes
  <2>2. UNCHANGED <<enabled, visible>> /\ Dark'
    BY <1>2, <1>5 DEF screenVars, Dark
  <2>3. AtWork("main")'
    BY <1>2, <1>3, <2>1, <2>2 DEF AtWork, Dim
  <2>4. MenuTypes' /\ ListsRight' /\ ButtonsWait'
    BY <1>2, <1>3, <1>5, <2>1, <2>2, ListsStay DEF MainIn, MenuTypes, ButtonsWait
  <2> QED
    BY <1>3, <2>2, <2>3, <2>4 DEF MainIn, MainWorks
<1>6. CASE latch' = FALSE /\ charging_screen_show /\ Returns("main")
  <2>1. todo'["main"] = <<>> /\ todo'["buttons"] = todo["buttons"] /\ DOMAIN todo' = Threads
    BY <1>4, <1>6, ThreadNames, ReturnsTo, Returning DEF MainIn, MenuTypes
  <2>2. /\ visible' = {"charging"} /\ enabled' = {"shutdown", "charging"} /\ enabled \subseteq enabled'
        /\ enabled' \subseteq Handlers
    <3>1. "charging" \in Handlers
      BY Names
    <3> QED
      BY <1>2, <1>6, <3>1 DEF charging_screen_show, Dark, MainIn, MenuTypes
  <2>3. ChargingFirst'
    BY <1>2, <1>3, <1>6, <2>2 DEF ChargingFirst, ChargingUp
  <2>4. ButtonsWait'
    BY <1>2, <2>1, <2>2, CallsOfMore DEF ButtonsWait
  <2>5. ListsRight'
    BY <1>3, <2>2 DEF MainIn, ListsRight, MenuUp
  <2>6. MenuTypes'
    BY <1>3, <2>1, <2>2 DEF MainIn, MenuTypes
  <2>7. ButtonsWork'
    BY <1>3, <2>1, <2>3, <2>4 DEF ButtonsWork, OneIsUp
  <2> QED
    BY <1>3, <2>5, <2>6, <2>7 DEF MainIn, ButtonsIn
<1> QED
  BY <1>5, <1>6 DEF app_main

\* Main has yet to note its app, at most.
LEMMA LateOps ==
  ASSUME ButtonsIn, Busy("main")
  PROVE  /\ Now("main").op = "on_app_entry" /\ Now("main").entry \in Apps
         /\ "on_app_entry" \in raced /\ Tail(todo["main"]) = <<>>
<1>1. PICK a \in Apps : todo["main"] = ToNote(a) /\ "on_app_entry" \in raced
  BY DEF ButtonsIn, ButtonsWork, Busy
<1> QED
  BY <1>1, AtParts DEF AtWith, At, Now

LEMMA ButtonsMain ==
  ASSUME ButtonsIn, Thread("main")
  PROVE  ButtonsIn'
<1>1. /\ Now("main").op = "on_app_entry" /\ Now("main").entry \in Apps
      /\ "on_app_entry" \in raced /\ Tail(todo["main"]) = <<>>
  BY ThreadNames, ThreadBusy, LateOps
<1>2. on_app_entry("main")
  BY <1>1 DEF Thread, menu_show, show_list, app_exit_cb, on_app_exit, run
<1>3. todo'["main"] = <<>> /\ todo'["buttons"] = todo["buttons"] /\ DOMAIN todo' = Threads
  BY <1>1, <1>2, ThreadNames, ReturnsTo, Returning DEF on_app_entry, ButtonsIn, MenuTypes
<1>4. UNCHANGED <<selected, in_app, screenVars, latch, raced>>
      /\ UNCHANGED <<enabled, visible, container>>
  BY <1>2 DEF on_app_entry, volatile, screenVars
<1>5. default_app' \in (Apps \ Unnamed) \cup {NoEntry}
  BY <1>1, <1>2 DEF on_app_entry
<1>6. MenuTypes' /\ ListsRight'
  BY <1>3, <1>4, <1>5, ListsStay DEF ButtonsIn, MenuTypes
<1>7. DefaultRight'
  BY <1>1, <1>4 DEF DefaultRight
<1>8. AtWork("buttons") => AtWork("buttons")'
  BY <1>3, <1>4, <1>7, ThreadNames, StaysAtWork
<1>9. ButtonsWait /\ OneIsUp => ButtonsWait' /\ OneIsUp'
  BY <1>3, <1>4
     DEF ButtonsWait, OneIsUp, MenuUp, InApp, UpOf, AppUp, ChargingUp, ChargingFirst
<1> QED
  BY <1>3, <1>4, <1>6, <1>7, <1>8, <1>9 DEF ButtonsIn, ButtonsWork

LEMMA ButtonsButtons ==
  ASSUME ButtonsIn, Thread("buttons")
  PROVE  ButtonsIn'
<1>1. AtWork("buttons")
  BY ThreadNames, ThreadBusy, WaitOps DEF ButtonsIn, ButtonsWork
<1>2. Goes("buttons")
  BY <1>1, ThreadNames, ThreadGoes DEF ButtonsIn
<1>3. MenuTypes' /\ ListsRight' /\ raced' = raced /\ todo'["main"] = todo["main"]
  BY <1>2 DEF Goes, Threads
<1>4. ASSUME Done("buttons") PROVE ButtonsWait' /\ OneIsUp' /\ DefaultRight'
  BY <1>4, NoCalls DEF Done, ButtonsWait
<1>5. AtWork("buttons")' \/ Done("buttons")
  BY <1>2 DEF Goes
<1> QED
  BY <1>3, <1>4, <1>5 DEF ButtonsIn, ButtonsWork

LEMMA ButtonsPressed ==
  ASSUME ButtonsIn, NEW b \in Events, process_button_event(b)
  PROVE  ButtonsIn'
<1>1. ButtonsWait /\ OneIsUp /\ DefaultRight
  BY ThreadNames, WorkOps DEF process_button_event, ButtonsIn, ButtonsWork
<1>2. /\ UNCHANGED <<selected, in_app, screenVars, raced, default_app, latch>>
      /\ UNCHANGED <<enabled, visible, container>>
  BY DEF process_button_event, volatile, screenVars
<1>3. todo'["main"] = todo["main"] /\ todo'["buttons"] = shadow_list(b) /\ DOMAIN todo' = Threads
  BY DEF process_button_event, ButtonsIn, MenuTypes, Threads
<1>4. ButtonsWait'
  BY <1>2, <1>3, ShadowList DEF ButtonsWait
<1>5. OneIsUp'
  BY <1>1, <1>2 DEF OneIsUp, MenuUp, InApp, UpOf, AppUp, ChargingUp, ChargingFirst
<1>6. DefaultRight'
  BY <1>1, <1>2 DEF DefaultRight
<1>7. MenuTypes' /\ ListsRight'
  BY <1>2, <1>3, ListsStay DEF ButtonsIn, MenuTypes
<1> QED
  BY <1>2, <1>3, <1>4, <1>5, <1>6, <1>7 DEF ButtonsIn, ButtonsWork

LEMMA ButtonsCalled ==
  ASSUME ButtonsIn, dispatch_event
  PROVE  ButtonsIn'
<1>1. ButtonsWait /\ OneIsUp /\ DefaultRight
  BY ThreadNames, WorkOps DEF dispatch_event, ButtonsIn, ButtonsWork
<1>2. /\ todo'["main"] = todo["main"] /\ UNCHANGED default_app
      /\ raced' = IF UNCHANGED <<selected, in_app, screenVars>> THEN raced ELSE raced \cup OpsOf(todo["main"])
  BY <1>1, Dispatches DEF ButtonsIn
<1>3. /\ MenuTypes' /\ ListsRight'
      /\ \/ Untouched
         \/ (DefaultRight \/ "on_app_entry" \in raced') =>
              (ButtonsWait' /\ OneIsUp' /\ DefaultRight') \/ AtWork("buttons")'
  BY <1>1, OneIsUpCalled DEF ButtonsIn
<1>4. ASSUME Untouched PROVE ButtonsWait' /\ OneIsUp' /\ DefaultRight'
  <2>1. /\ UNCHANGED <<selected, in_app, enabled, visible, container>> /\ raced' = raced
        /\ ButtonsWait' /\ (latch' => latch)
    BY <1>2, <1>4 DEF Untouched, screenVars
  <2> QED
    BY <1>1, <1>2, <2>1
       DEF OneIsUp, MenuUp, InApp, UpOf, AppUp, ChargingUp, ChargingFirst, DefaultRight
<1>5. raced \subseteq raced' /\ "show_list" \notin raced'
  <2>1. OpsOf(todo["main"]) \subseteq {"on_app_entry"}
    BY OpsOfParts DEF ButtonsIn, ButtonsWork
  <2> QED
    BY <1>2, <2>1 DEF ButtonsIn
<1>6. (ButtonsWait' /\ OneIsUp' /\ DefaultRight') \/ AtWork("buttons")'
  BY <1>1, <1>3, <1>4
<1> QED
  BY <1>2, <1>3, <1>5, <1>6 DEF ButtonsIn, ButtonsWork

\* Main shows the list late.
WildIn == MenuTypes /\ Wild /\ "show_list" \in raced
Allowed == {h \in Handlers : h = "charging" => container["charging"] # NoEntry}

LEMMA ListOnly ==
  ASSUME WildIn, Busy("main")
  PROVE  Now("main").op = "show_list" /\ Tail(todo["main"]) = <<>>
<1>1. PICK a \in Apps : todo["main"] = ToList(a)
  BY DEF WildIn, Wild, Busy
<1> QED
  BY <1>1, AtParts DEF AtWith, At, Now

LEMMA WildMain ==
  ASSUME WildIn, Thread("main")
  PROVE  WildIn'
<1>2. Now("main").op = "show_list" /\ Tail(todo["main"]) = <<>>
  BY ThreadNames, ThreadBusy, ListOnly
<1>3. show_list("main")
  BY <1>2 DEF Thread, menu_show, app_exit_cb, on_app_entry, on_app_exit, run
<1>4. todo'["main"] = <<>> /\ todo'["buttons"] = todo["buttons"] /\ DOMAIN todo' = Threads
  BY <1>2, <1>3, ThreadNames, ReturnsTo, Returning DEF show_list, WildIn, MenuTypes
<1>5. UNCHANGED <<in_app, container, default_app, raced>> /\ enabled' = enabled \cup {"menu"}
  BY <1>3 DEF show_list, ShowList
<1>6. MenuTypes'
  BY <1>4, <1>5, Names DEF WildIn, MenuTypes
<1>7. Wild'
  BY <1>4, <1>5 DEF WildIn, Wild
<1> QED
  BY <1>5, <1>6, <1>7 DEF WildIn

LEMMA WildButtons ==
  ASSUME WildIn, Thread("buttons")
  PROVE  WildIn'
<1> DEFINE s == todo["buttons"]
<1>1. s # <<>> /\ Head(s).op # "dispatch" /\ raced' = raced
  BY ThreadNames, ThreadBusy DEF Busy, Now
<1>2. s \notin CallsOf(Allowed)
  BY <1>1, CallsAre
<1> HIDE DEF s
<1>3. ASSUME NEW op, NEW a, NEW rest, AtWith(s, op, a, rest)
      PROVE  Now("buttons").op = op /\ Now("buttons").entry = a /\ Tail(todo["buttons"]) = rest
  BY <1>3 DEF AtWith, At, Now, s
<1>4. ASSUME NEW steps, Calls("buttons", steps)
      PROVE  todo'["buttons"] = steps \o Tail(todo["buttons"]) /\ todo'["main"] = todo["main"] /\ DOMAIN todo' = Threads
  BY <1>4, ThreadNames, CallsTo DEF WildIn, MenuTypes, Threads
<1>5. DOMAIN container = Handlers /\ enabled \subseteq Handlers /\ default_app \in (Apps \ Unnamed) \cup {NoEntry}
      /\ ("charging" \in enabled => container["charging"] # NoEntry)
  BY DEF WildIn, MenuTypes, Wild
<1>6. CASE \E a \in Apps : s \in {ToRun(a), ToRunToggle(a)}
  <2>1. PICK a \in Apps : s \in {ToRun(a), ToRunToggle(a)}
    BY <1>6
  <2>2. /\ Now("buttons").op = "run" /\ Now("buttons").entry = a
        /\ Tail(todo["buttons"]) \in {ToNote(a), ToNoteToggle(a)}
    <3>1. AtWith(s, "run", a, ToNote(a)) \/ AtWith(s, "run", a, ToNoteToggle(a))
      BY <2>1, AtParts
    <3> QED
      BY <3>1, <1>3
  <2>3. run("buttons")
    BY <2>2 DEF Thread, menu_show, show_list, app_exit_cb, on_app_entry, on_app_exit
  <2>4. /\ todo'["buttons"] \in {ToNote(a), ToNoteToggle(a)} /\ todo'["main"] = todo["main"]
        /\ DOMAIN todo' = Threads
    BY <1>4, <2>2, <2>3, Returning DEF run, Returns
  <2>5. /\ DOMAIN container' = Handlers /\ enabled' \subseteq Handlers
        /\ ("charging" \in enabled' => container'["charging"] # NoEntry)
    <3>1. CASE a \in Toggles /\ UNCHANGED <<enabled, visible, container, latch>>
      BY <1>5, <3>1
    <3>2. CASE a = PowerOff /\ power_off_run
      <4>1. PowerOff # NoEntry /\ "charging" \in Handlers
        BY Names DEF Items
      <4> QED
        BY <1>5, <3>2, <4>1 DEF power_off_run, charging_screen_show
    <3>3. CASE a \notin Toggles \cup {PowerOff} /\ ShowApp(a)
      <4>1. HandlerOf[a] \in Handlers /\ HandlerOf[a] # "charging"
        BY <3>3, <2>1, Names
      <4> QED
        BY <1>5, <3>3, <4>1 DEF ShowApp
    <3> QED
      BY <2>2, <2>3, <3>1, <3>2, <3>3 DEF run
  <2>6. UNCHANGED <<in_app, default_app>>
    BY <2>3 DEF run
  <2> QED
    BY <1>1, <1>5, <2>4, <2>5, <2>6 DEF WildIn, MenuTypes, Wild
<1>7. CASE \E a \in Apps : s \in {ToNote(a), ToNoteToggle(a)}
  <2>1. PICK a \in Apps : s \in {ToNote(a), ToNoteToggle(a)}
    BY <1>7
  <2>2. /\ Now("buttons").op = "on_app_entry" /\ Now("buttons").entry = a
        /\ Tail(todo["buttons"]) \in {<<>>, ToExit}
    <3>1. AtWith(s, "on_app_entry", a, <<>>) \/ AtWith(s, "on_app_entry", a, ToExit)
      BY <2>1, AtParts
    <3> QED
      BY <3>1, <1>3
  <2>3. on_app_entry("buttons")
    BY <2>2 DEF Thread, menu_show, show_list, app_exit_cb, run, on_app_exit
  <2>4. todo'["buttons"] \in {<<>>, ToExit} /\ todo'["main"] = todo["main"] /\ DOMAIN todo' = Threads
    BY <1>4, <2>2, <2>3, Returning DEF on_app_entry, Returns
  <2>5. UNCHANGED <<in_app, enabled, container>> /\ default_app' \in (Apps \ Unnamed) \cup {NoEntry}
    BY <2>2, <2>3 DEF on_app_entry, volatile, screenVars
  <2> QED
    BY <1>1, <1>5, <2>4, <2>5, NoCalls DEF WildIn, MenuTypes, Wild
<1>8. CASE s = ToExit
  <2>1. Now("buttons").op = "app_exit_cb" /\ Tail(todo["buttons"]) = <<>>
    BY <1>8, AtParts DEF At, Now, s
  <2>2. app_exit_cb("buttons")
    BY <2>1 DEF Thread, menu_show, show_list, on_app_entry, run, on_app_exit
  <2>3. todo'["buttons"] \in {<<>>, ToLeave} /\ todo'["main"] = todo["main"] /\ DOMAIN todo' = Threads
    BY <1>4, <2>1, <2>2, ExitSteps, Returning DEF app_exit_cb
  <2>4. UNCHANGED <<enabled, container, default_app>> /\ ~in_app'
    BY <2>2 DEF app_exit_cb, screenVars
  <2> QED
    BY <1>1, <1>5, <2>3, <2>4, NoCalls DEF WildIn, MenuTypes, Wild
<1>9. CASE s = ToLeave /\ ~in_app
  <2>1. Now("buttons").op = "on_app_exit" /\ Tail(todo["buttons"]) = ToShow
    BY <1>9, AtParts DEF At, Now, s
  <2>2. on_app_exit("buttons")
    BY <2>1 DEF Thread, menu_show, show_list, on_app_entry, run, app_exit_cb
  <2>3. todo'["buttons"] = ToShow /\ todo'["main"] = todo["main"] /\ DOMAIN todo' = Threads
    BY <1>4, <2>1, <2>2, Returning DEF on_app_exit, Returns
  <2>4. UNCHANGED <<enabled, container, in_app>> /\ default_app' = NoEntry
    BY <2>2 DEF on_app_exit, volatile, screenVars
  <2> QED
    BY <1>1, <1>5, <1>9, <2>3, <2>4 DEF WildIn, MenuTypes, Wild
<1>10. CASE s = ToShow /\ ~in_app
  <2>1. Now("buttons").op = "menu_show" /\ Tail(todo["buttons"]) = <<>>
    BY <1>10, AtParts DEF At, Now, s
  <2>2. menu_show("buttons")
    BY <2>1 DEF Thread, on_app_exit, show_list, on_app_entry, run, app_exit_cb
  <2>3. Returns("buttons") /\ \E e : ShowList(e)
    BY <1>10, <2>2 DEF menu_show
  <2>4. todo'["buttons"] = <<>> /\ todo'["main"] = todo["main"] /\ DOMAIN todo' = Threads
    BY <1>4, <2>1, <2>3, Returning DEF Returns
  <2>5. UNCHANGED <<container, default_app>> /\ enabled' = enabled \cup {"menu"}
    BY <2>2, <2>3 DEF menu_show, ShowList
  <2> QED
    BY <1>1, <1>5, <2>4, <2>5, NoCalls, Names DEF WildIn, MenuTypes, Wild
<1> QED
  BY <1>2, <1>6, <1>7, <1>8, <1>9, <1>10 DEF WildIn, Wild, Allowed, s

LEMMA WildPressed ==
  ASSUME WildIn, NEW b \in Events, process_button_event(b)
  PROVE  WildIn'
<1>1. UNCHANGED <<in_app, enabled, container, raced, default_app>>
  BY DEF process_button_event, volatile, screenVars
<1>2. todo'["main"] = todo["main"] /\ todo'["buttons"] = shadow_list(b) /\ DOMAIN todo' = Threads
  BY DEF process_button_event, WildIn, MenuTypes, Threads
<1>3. enabled \subseteq Allowed
  BY DEF WildIn, MenuTypes, Wild, Allowed
<1>4. todo'["buttons"] \in CallsOf(Allowed)
  BY <1>2, <1>3, ShadowList, CallsOfMore
<1>5. Allowed' = Allowed
  BY <1>1 DEF Allowed
<1>6. Wild'
  BY <1>1, <1>2, <1>4 DEF Wild, WildIn, Allowed
<1> QED
  BY <1>1, <1>2, <1>6 DEF WildIn, MenuTypes

LEMMA WildCalled ==
  ASSUME WildIn, dispatch_event
  PROVE  WildIn'
<1> DEFINE b == Now("buttons").entry
<1> DEFINE h == Now("buttons").handler
<1>1. h \in Allowed /\ <<>> \o Tail(todo["buttons"]) \in CallsOf(Allowed)
  <2>1. todo["buttons"] \in CallsOf(Allowed)
    <3>1. /\ Now("buttons").op = "dispatch" /\ Busy("buttons")
      BY DEF dispatch_event
    <3>2. ASSUME NEW op, NEW rest, At(todo["buttons"], op, rest) PROVE op = "dispatch"
      BY <3>1, <3>2 DEF At, Now
    <3>3. ASSUME NEW a
          PROVE  /\ todo["buttons"] # ToRun(a) /\ todo["buttons"] # ToNote(a)
                 /\ todo["buttons"] # ToRunToggle(a) /\ todo["buttons"] # ToNoteToggle(a)
      BY <3>2, AtParts DEF AtWith
    <3>4. todo["buttons"] # ToExit /\ todo["buttons"] # ToLeave /\ todo["buttons"] # ToShow
      BY <3>2, AtParts
    <3> QED
      BY <3>3, <3>4 DEF WildIn, Wild, Allowed
  <2>2. todo["buttons"] # <<>>
    BY DEF dispatch_event, Busy
  <2> QED
    BY <2>1, <2>2, CallsAre DEF Now
<1>2. /\ \/ h = "shutdown" /\ ShutdownHandler(b)
         \/ h = "charging" /\ ChargingHandler(b)
         \/ MenuHandler(b)
         \/ AppHandler(h, b)
      /\ UNCHANGED default_app /\ raced \subseteq raced'
  BY DEF dispatch_event
<1> HIDE DEF b, h
<1>3. ASSUME Passed
      PROVE  todo'["buttons"] \in CallsOf(Allowed) /\ todo'["main"] = todo["main"] /\ DOMAIN todo' = Threads
  BY <1>1, <1>3, ThreadNames, ReturnsTo DEF Passed, WildIn, MenuTypes, Threads
<1>4. ASSUME NEW steps, Handled(steps)
      PROVE  todo'["buttons"] = steps /\ todo'["main"] = todo["main"] /\ DOMAIN todo' = Threads
  BY <1>4, ThreadNames DEF Handled, WildIn, MenuTypes, Threads
<1>5. ASSUME container' = container, enabled' \subseteq enabled, todo'["main"] = todo["main"], DOMAIN todo' = Threads,
             \/ todo'["buttons"] \in CallsOf(Allowed)
             \/ \E a \in Apps : todo'["buttons"] \in {ToRun(a), ToRunToggle(a)}
             \/ todo'["buttons"] = ToExit
      PROVE  WildIn'
  <2>1. Allowed' = Allowed
    BY <1>5 DEF Allowed
  <2>2. /\ \/ todo'["buttons"] \in CallsOf(Allowed')
           \/ \E a \in Apps : todo'["buttons"] \in {ToRun(a), ToNote(a), ToRunToggle(a), ToNoteToggle(a)}
           \/ todo'["buttons"] = ToExit
    BY <1>5, <2>1
  <2>3. Wild'
    BY <1>5, <2>2 DEF Wild, WildIn, Allowed
  <2> QED
    BY <1>2, <1>5, <2>3 DEF WildIn, MenuTypes
<1>6. CASE ShutdownHandler(b)
  <2>1. UNCHANGED <<enabled, container>> /\ (Passed \/ Handled(<<>>))
    BY <1>6 DEF ShutdownHandler, screenVars
  <2> QED
    BY <1>3, <1>4, <1>5, <2>1, NoCalls
<1>7. CASE h = "charging" /\ ChargingHandler(b)
  <2>1. container["charging"] # NoEntry
    BY <1>1, <1>7 DEF Allowed
  <2>2. /\ container' = container /\ enabled' \subseteq enabled
        /\ Passed \/ Handled(ToExit)
    BY <1>7, <2>1 DEF ChargingHandler, Leave, volatile, screenVars, ToExit
  <2> QED
    BY <1>3, <1>4, <1>5, <2>2
<1>8. CASE MenuHandler(b)
  <2>1. /\ container' = container /\ enabled' \subseteq enabled
        /\ Passed \/ Handled(<<>>) \/ (selected \in Apps /\ Handled(EnterSteps(selected)))
    BY <1>8 DEF MenuHandler, enter_app, volatile, screenVars
  <2>2. ASSUME selected \in Apps
        PROVE  EnterSteps(selected) \in {ToRun(selected), ToRunToggle(selected)}
    BY Entering
  <2> QED
    BY <1>3, <1>4, <1>5, <2>1, <2>2, NoCalls
<1>9. CASE AppHandler(h, b)
  <2>1. /\ container' = container /\ enabled' \subseteq enabled
        /\ Passed \/ Handled(<<>>) \/ Handled(ToExit)
    BY <1>9 DEF AppHandler, Leave, volatile, screenVars, ToExit
  <2> QED
    BY <1>3, <1>4, <1>5, <2>1, NoCalls
<1> QED
  BY <1>2, <1>6, <1>7, <1>8, <1>9

LEMMA ResetIn ==
  ASSUME AfterReset.selected = selected', AfterReset.in_app = in_app', AfterReset.enabled = enabled',
         AfterReset.visible = visible', AfterReset.lists = lists', AfterReset.highlighted = highlighted',
         AfterReset.container = container', AfterReset.todo = todo', raced' = {},
         default_app' \in (Apps \ Unnamed) \cup {NoEntry}
  PROVE  MenuInv'
<1>1. /\ selected' = NoEntry /\ in_app' = FALSE /\ enabled' = {"shutdown"} /\ visible' = {} /\ lists' = {}
      /\ highlighted' = [s \in Submenus |-> NoEntry] /\ container' = [h \in Handlers |-> NoEntry]
      /\ todo' = [t \in Threads |-> IF t = "main" THEN <<Do("menutree_init")>> ELSE <<>>]
  BY DEF AfterReset
<1>2. todo'["main"] = ToInit /\ todo'["buttons"] = <<>> /\ DOMAIN todo' = Threads
  BY <1>1 DEF Threads, ToInit
<1>3. Dark' /\ ~MenuUp' /\ DOMAIN container' = Handlers /\ container'["charging"] = NoEntry
      /\ "shutdown" \in Handlers
  BY <1>1, Names DEF Dark, MenuUp
<1>4. ListsRight'
  BY <1>1, <1>3 DEF ListsRight
<1>5. MenuTypes'
  BY <1>1, <1>2, <1>3 DEF MenuTypes
<1>6. MainWorks'
  BY <1>1, <1>2, <1>3, NoCalls DEF MainWorks, ButtonsWait
<1> QED
  BY <1>4, <1>5, <1>6 DEF MenuInv

LEMMA MenuStart == MenuInit => MenuInv
<1> SUFFICES ASSUME MenuInit PROVE MenuInv
  OBVIOUS
<1>1. /\ selected = NoEntry /\ in_app = FALSE /\ enabled = {"shutdown"} /\ visible = {} /\ lists = {}
      /\ highlighted = [s \in Submenus |-> NoEntry] /\ container = [h \in Handlers |-> NoEntry]
      /\ todo = [t \in Threads |-> IF t = "main" THEN <<Do("menutree_init")>> ELSE <<>>]
      /\ default_app = NoEntry /\ raced = {}
  BY DEF MenuInit, AfterReset
<1>2. todo["main"] = ToInit /\ todo["buttons"] = <<>> /\ DOMAIN todo = Threads
  BY <1>1 DEF Threads, ToInit
<1>3. Dark /\ ~MenuUp /\ DOMAIN container = Handlers /\ container["charging"] = NoEntry
      /\ "shutdown" \in Handlers
  BY <1>1, Names DEF Dark, MenuUp
<1>4. ListsRight
  BY <1>1, <1>3 DEF ListsRight
<1>5. MenuTypes
  BY <1>1, <1>2, <1>3 DEF MenuTypes
<1>6. MainWorks
  BY <1>1, <1>2, <1>3, NoCalls DEF MainWorks, ButtonsWait
<1> QED
  BY <1>1, <1>4, <1>5, <1>6 DEF MenuInv

LEMMA MenuStep == MenuInv /\ [MenuNext]_menuVars => MenuInv'
<1> SUFFICES ASSUME MenuInv, [MenuNext]_menuVars PROVE MenuInv'
  OBVIOUS
<1>1. MainIn \/ ButtonsIn \/ WildIn
  BY DEF MenuInv, MainIn, ButtonsIn, WildIn
<1>2. MainIn' \/ ButtonsIn' \/ WildIn' => MenuInv'
  BY DEF MenuInv, MainIn, ButtonsIn, WildIn
<1>3. ASSUME NEW t \in Threads, Thread(t) PROVE MenuInv'
  <2>1. t = "main" \/ t = "buttons"
    BY DEF Threads
  <2> QED
    BY <1>1, <1>2, <1>3, <2>1, MainMain, MainButtons, ButtonsMain, ButtonsButtons, WildMain, WildButtons
<1>4. ASSUME NEW b \in Events, process_button_event(b) PROVE MenuInv'
  BY <1>1, <1>2, <1>4, MainPressed, ButtonsPressed, WildPressed
<1>5. CASE dispatch_event
  BY <1>1, <1>2, <1>5, MainCalled, ButtonsCalled, WildCalled
<1>6. CASE menutree_init
  <2>1. Busy("main") /\ Now("main").op = "menutree_init"
    BY <1>6 DEF menutree_init
  <2>2. ~ButtonsIn /\ ~WildIn
    BY <2>1, LateOps, ListOnly
  <2> QED
    BY <1>1, <1>2, <1>6, <2>2, MainInits
<1>7. CASE app_main
  <2>1. Busy("main") /\ Now("main").op = "app_main"
    BY <1>7 DEF app_main
  <2>2. ~ButtonsIn /\ ~WildIn
    BY <2>1, LateOps, ListOnly
  <2> QED
    BY <1>1, <1>2, <1>7, <2>2, MainStarts
<1>8. CASE Reset
  <2>1. default_app' \in (Apps \ Unnamed) \cup {NoEntry}
    BY <1>8 DEF Reset, MenuInv, MenuTypes
  <2> QED
    BY <1>8, <2>1, ResetIn DEF Reset
<1>9. CASE UNCHANGED menuVars
  BY <1>9 DEF menuVars, volatile, screenVars, MenuInv, MenuTypes, Wild, ListsRight, MenuUp, MainWorks,
     ButtonsWork, ButtonsWait, Dark, DefaultRight, AtWork, OneIsUp, ChargingFirst, ChargingUp, UpOf, AppUp, InApp, Dim
<1> QED
  BY <1>3, <1>4, <1>5, <1>6, <1>7, <1>8, <1>9 DEF MenuNext

LEMMA MenuAlways == MenuSpec => []MenuInv
<1> QED
  BY MenuStart, MenuStep, PTL DEF MenuSpec

-------------------------------------------------------------------------------
(* Menu: what follows.                                                      *)

\* Where nothing is under way and main did not show the list late, one screen
\* is shown and both threads have returned.
LEMMA WhenIdle ==
  ASSUME MenuInv, Idle, "show_list" \notin raced
  PROVE  MenuTypes /\ ListsRight /\ OneIsUp /\ DefaultRight
<1>1. todo["main"] = <<>> /\ todo["buttons"] = <<>>
  BY ThreadNames DEF Idle, Busy
<1>2. ~MainWorks
  <2>1. todo["main"] # ToInit /\ todo["main"] # ToStart
    BY <1>1, AtParts DEF At
  <2>2. ~AtWork("main")
    BY <1>1, ThreadNames, WorkOps DEF Busy
  <2> QED
    BY <2>1, <2>2 DEF MainWorks
<1>3. ~AtWork("buttons")
  BY <1>1, ThreadNames, WorkOps DEF Busy
<1> QED
  BY <1>2, <1>3 DEF MenuInv, ButtonsWork

\* When nothing is under way exactly one screen is shown, and its handler is the
\* one that is enabled beside that of the power button (menu.c, menutree.c,
\* buttons.c:320), but after a start that overlapped with a press while main had
\* still to show the list.
THEOREM OneScreenIsShown == MenuSpec => []OneScreen
<1>1. MenuInv => OneScreen
  <2> SUFFICES ASSUME MenuInv, Idle, "show_list" \notin raced
               PROVE  \E s \in (Apps \ Toggles) \cup {"menu", "charging"} :
                        /\ visible = {s}
                        /\ enabled = {"shutdown", IF s \in Apps THEN HandlerOf[s] ELSE s}
                        /\ s = "menu" => ~in_app
                        /\ s \in Apps => in_app /\ selected = s
                        /\ s = "charging" => ~latch
    BY DEF OneScreen
  <2>1. OneIsUp
    BY WhenIdle
  <2>2. "menu" \notin Apps /\ "charging" \notin Apps
    BY Names DEF Items
  <2>3. CASE MenuUp /\ ~in_app
    BY <2>2, <2>3 DEF MenuUp
  <2>4. CASE \E a \in Apps \ Toggles : InApp(a) /\ UpOf(a)
    <3>1. PICK a \in Apps \ Toggles : InApp(a) /\ UpOf(a)
      BY <2>4
    <3>2. CASE a = PowerOff
      BY <2>2, <3>1, <3>2 DEF UpOf, ChargingUp
    <3>3. CASE a # PowerOff
      BY <2>2, <3>1, <3>3 DEF UpOf, AppUp, InApp
    <3> QED
      BY <3>2, <3>3
  <2>5. CASE ChargingFirst
    BY <2>2, <2>5 DEF ChargingFirst, ChargingUp
  <2> QED
    BY <2>1, <2>3, <2>4, <2>5 DEF OneIsUp
<1> QED
  BY <1>1, MenuAlways, PTL

\* When the menu is shown, the list that is not hidden is the one with the
\* selected entry, which is highlighted (menu.c).
THEOREM MenuIsRight == MenuSpec => []MenuShowsSelected
<1>1. MenuInv => MenuShowsSelected
  <2> SUFFICES ASSUME MenuInv, Idle, visible = {"menu"}, "show_list" \notin raced
               PROVE  lists = {ParentOf(selected)} /\ highlighted[ParentOf(selected)] = selected
    BY DEF MenuShowsSelected
  <2>1. OneIsUp /\ ListsRight
    BY WhenIdle
  <2>2. MenuUp
    BY <2>1, Names DEF OneIsUp, UpOf, AppUp, ChargingFirst, ChargingUp, Items
  <2> QED
    BY <2>1, <2>2 DEF ListsRight
<1> QED
  BY <1>1, MenuAlways, PTL

\* The app in flash is the active one (menutree.c, settings.c), but after a start in
\* which a press came before main had called on_app_entry (menu.c:68-70), or before
\* it had shown the list: EXIT can then leave in flash an app that is not active.
THEOREM StartsAsItWas == MenuSpec => []DefaultAppIsActive
<1>1. MenuInv => DefaultAppIsActive
  BY WhenIdle DEF DefaultAppIsActive, DefaultRight
<1> QED
  BY <1>1, MenuAlways, PTL
================================================================================
