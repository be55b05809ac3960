-------------------------------- MODULE Painting --------------------------------
(* How gui.c and fonts.c draw the tree of elements into the frame: each element  *)
(* is given the part of itself to draw and where; containers, lists and marquees *)
(* clip, lists scroll to their selected entry, marquees go on scrolling.         *)
(* A pixel is the element it is of and the place in it, and whether it is        *)
(* inverted; what is drawn beside the frame would be kept, too.                  *)
EXTENDS Integers, Sequences, FiniteSets, SequencesExt, FiniteSetsExt

CONSTANTS
  Layouts,      \* trees of elements: for each element its kind, its children, its
                \* area (x, y, w, h) and what it shows
  Size,         \* x and y of the frame
  GlyphHeight,
  Changes(_),   \* bound: the trees that one tree is changed to
  Hideable      \* bound: the elements that are hidden and shown again

VARIABLES
  layout,
  hidden,
  selected_entry,      \* of each list
  scroll               \* last_y_scroll_pos of each list, x_scroll_pos of each marquee

vars == <<layout, hidden, selected_entry, scroll>>

gui == "gui"
None == "none"
Kind(e) == layout[e].kind
Area(e) == layout[e]
Children(e) == layout[e].children


BLACK == [of |-> None, x |-> 0, y |-> 0, inverted |-> FALSE]
Points == (-1..(Size.x + 1)) \X (-1..(Size.y + 1))
Frame == (0..(Size.x - 1)) \X (0..(Size.y - 1))

--------------------------------------------------------------------------------
(* Clipping, of one axis: an element at "position" with "size" in what is drawn  *)
(* from "source" on, over "room" pixels.                                         *)

Outside(position, size, source, room) == source >= position + size \/ position >= source + room

Clip(position, size, source) == [position |-> position, size |-> size, source |-> source]

\* Mutant: what is left out is still drawn, further down or to the right.
MovedWhole(c, source) ==
  IF c.position < source THEN Clip(0, c.size, source - c.position)
  ELSE Clip(c.position - source, c.size, 0)

\* From the position in the parent to that in the frame.
Moved(c, source) ==
  IF c.position < source THEN Clip(0, c.size - (source - c.position), source - c.position)
  ELSE Clip(c.position - source, c.size, 0)

ContainerClip(position, size, source, room) ==
  LET limited == IF position + size - source > room THEN room - position + source ELSE size
  IN Moved(Clip(position, limited, 0), source)

ListClip(position, size, source, room) ==
  LET c == Moved(Clip(position, size, 0), source)
  IN IF c.position + c.size - c.source > room THEN [c EXCEPT !.size = room - c.position + c.source] ELSE c

--------------------------------------------------------------------------------
(* Drawing: s has the frame, the scroll positions and what has been returned so  *)
(* far. "at" is where in the frame, "source" from where on, "room" how much.     *)

Pixel(e, x, y) == [of |-> e, x |-> x, y |-> y, inverted |-> FALSE]

\* The pixels ink of element e, at their place in it.
Draw(s, e, at, source, ink) ==
  [s EXCEPT !.fb = [p \in Points |->
     LET here == <<p[1] - at.x, p[2] - at.y>>
     IN IF here \in ink THEN Pixel(e, here[1] + source.x, here[2] + source.y) ELSE @[p]]]

gui_fb_invert_area(s, at, size) ==
  [s EXCEPT !.fb = [p \in Points |->
     IF p[1] - at.x \in 0..(size.x - 1) /\ p[2] - at.y \in 0..(size.y - 1)
     THEN [@[p] EXCEPT !.inverted = ~@] ELSE @[p]]]

Lesser(m, n) == IF m < n THEN m ELSE n
Greater(m, n) == IF m > n THEN m ELSE n

\* The soonest of two frames to come; -1 is none.
Sooner(m, n) == IF m = -1 THEN n ELSE IF n = -1 THEN m ELSE Lesser(m, n)

Width(e, source, room) == Lesser(Area(e).w - source.x, room.x)
Height(e, source, room) == Lesser(Area(e).h - source.y, room.y)

gui_image_render(s, e, at, source, room) ==
  Draw(s, e, at, source, (0..(Width(e, source, room) - 1)) \X (0..(Height(e, source, room) - 1)))

gui_rectangle_render(s, e, at, source, room) ==
  LET width == Width(e, source, room)
      height == Height(e, source, room)
      max_x == Area(e).w - source.x
      max_y == Area(e).h - source.y
      top == IF source.y = 0 THEN (0..(width - 1)) \X {0} ELSE {}
      bottom == IF room.y >= max_y THEN (0..(width - 1)) \X {max_y - 1} ELSE {}
      left == IF source.x = 0 THEN {0} \X (0..(height - 1)) ELSE {}
      right == IF room.x >= max_x THEN {max_x - 1} \X (0..(height - 1)) ELSE {}
  IN Draw(s, e, at, source, IF Area(e).filled THEN (0..(width - 1)) \X (0..(height - 1))
                            ELSE top \cup bottom \cup left \cup right)

\* The text of a label: the widths of its glyphs, one behind the other.
TextWidth(e) == FoldLeft(LAMBDA n, g : n + g, 0, Area(e).text)
GlyphAt(e, k) == FoldLeft(LAMBDA n, g : n + g, 0, SubSeq(Area(e).text, 1, k - 1))

\* fonts_render_string, into size pixels; each glyph is cut on both sides. The
\* part of a glyph that is wider than the room and cut on the left is what is
\* computed; a negative length would be a very large one.
fonts_render_string(s, e, at, source, size) ==
  LET Glyph(k) ==
        LET g == Area(e).text[k]
            dst_x == Greater(GlyphAt(e, k) - source.x, 0)
            offset_x == Greater(source.x - GlyphAt(e, k), 0)
            draw_width == Lesser(g, size.x - dst_x)
            draw_height == Lesser(GlyphHeight, size.y + source.y)
            drawn == dst_x < size.x /\ -source.y < size.y /\ offset_x < g
        IN IF ~drawn THEN {}
           ELSE (dst_x..(dst_x + draw_width - offset_x - 1)) \X (0..(draw_height - source.y - 1))
  IN Draw(s, e, at, source, UNION {Glyph(k) : k \in 1..Len(Area(e).text)})

\* Where a text begins in what is drawn from position "from" on, if it is at o.
Skips(o, from) == IF from > o THEN [place |-> 0, source |-> from - o] ELSE [place |-> o - from, source |-> 0]

\* The text, to be drawn into width by height.
RenderText(s, e, at, x, y, width, height) ==
  fonts_render_string(s, e, [x |-> at.x + x.place, y |-> at.y + y.place], [x |-> x.source, y |-> y.source],
                      [x |-> width - x.place, y |-> height - y.place])

\* The text is aligned in the width that is drawn.
Aligned(e, width) ==
  LET spare == Greater(width - TextWidth(e), 0)
  IN CASE Area(e).align = "START" -> 0 [] Area(e).align = "END" -> spare [] OTHER -> spare \div 2

gui_label_render(s, e, at, source, room) ==
  LET width == Width(e, source, room)
  IN RenderText(s, e, at, Skips(Area(e).text_offset.x + Aligned(e, width), source.x),
                Skips(Area(e).text_offset.y, source.y), width, Height(e, source, room))

--------------------------------------------------------------------------------
(* Elements with children.                                                        *)

\* Mutant: the row of the entry is taken for that below it.
ScrolledToTop(e, last, room) ==
  LET entry == Area(selected_entry[e])
  IN CASE selected_entry[e] = None -> last
       [] selected_entry[e] # None /\ last > entry.y -> entry.y - 1
       [] selected_entry[e] # None /\ last <= entry.y /\ entry.y + entry.h - last + 1 >= room.y ->
            entry.y - room.y + 1
       [] OTHER -> last

\* The selected entry of a list has a row more than its own on both sides.
ScrolledTo(e, last, room) ==
  LET entry == Area(selected_entry[e])
  IN CASE selected_entry[e] = None -> last
       [] selected_entry[e] # None /\ last > entry.y -> entry.y - 1
       [] selected_entry[e] # None /\ last <= entry.y /\ entry.y + entry.h - last + 1 >= room.y ->
            entry.y + entry.h - room.y + 1
       [] OTHER -> last

\* A marquee goes one pixel on, and begins again.
ScrolledOn(e, last) ==
  LET delta == FoldSet(LAMBDA c, n : Greater(Area(c).w, n), 0, ToSet(Children(e))) - Area(e).w
  IN IF delta > 0 THEN (last + 1) % delta ELSE 0

RECURSIVE gui_element_render(_, _, _, _, _)

Highlighted(s, place, size, inverted) == IF inverted THEN gui_fb_invert_area(s, place, size) ELSE s
WithReturned(ret, s) == [s EXCEPT !.ret = Sooner(ret, @)]

\* Child c, clipped to x and y, without what is "ahead" of it.
RenderClipped(s, c, at, x, y, ahead, inverted) ==
  LET place == [x |-> at.x + x.position, y |-> at.y + y.position]
      size == [x |-> x.size, y |-> y.size]
      source == [x |-> x.source + ahead, y |-> y.source]
  IN Highlighted(WithReturned(s.ret, gui_element_render([s EXCEPT !.ret = -1], c, place, source, size)),
                 place, size, inverted)

\* Child c of a parent that clips it with Cut.
RenderChild(s, c, at, source, room, Cut(_, _, _, _), ahead, inverted) ==
  LET a == Area(c)
  IN IF Outside(a.x, a.w, source.x, room.x) \/ Outside(a.y, a.h, source.y, room.y) THEN s
     ELSE RenderClipped(s, c, at, Cut(a.x, a.w, source.x, room.x), Cut(a.y, a.h, source.y, room.y), ahead, inverted)

gui_container_render(s, e, at, source, room) ==
  FoldLeft(LAMBDA t, c : RenderChild(t, c, at, source, room, ContainerClip, 0, FALSE), s, Children(e))

ListScrolled(s, e, at, source, room) ==
  LET from == [source EXCEPT !.y = @ + s.scroll[e]]
  IN FoldLeft(LAMBDA t, c : RenderChild(t, c, at, from, room, ListClip, 0, c = selected_entry[e]), s, Children(e))

gui_list_render(s, e, at, source, room) ==
  ListScrolled([s EXCEPT !.scroll[e] = ScrolledTo(e, @, room)], e, at, source, room)

MarqueeScrolled(s, e, at, source, room) ==
  FoldLeft(LAMBDA t, c : RenderChild(t, c, at, source, room, ListClip, s.scroll[e], FALSE), s, Children(e))

gui_marquee_render(s, e, at, source, room) ==
  MarqueeScrolled([s EXCEPT !.scroll[e] = ScrolledOn(e, @), !.ret = 10], e, at, source, room)

\* An animation: the picture of the player, and when the next one is due.
gui_gifplayer_render(s, e, at, source, room) ==
  [gui_image_render(s, e, at, source, room) EXCEPT !.ret = Area(e).duration]

gui_element_render(s, e, at, source, room) ==
  CASE e \in hidden -> s
    [] e \notin hidden /\ Kind(e) = "container" -> gui_container_render(s, e, at, source, room)
    [] e \notin hidden /\ Kind(e) = "list" -> gui_list_render(s, e, at, source, room)
    [] e \notin hidden /\ Kind(e) = "marquee" -> gui_marquee_render(s, e, at, source, room)
    [] e \notin hidden /\ Kind(e) = "image" -> gui_image_render(s, e, at, source, room)
    [] e \notin hidden /\ Kind(e) = "animation" -> gui_gifplayer_render(s, e, at, source, room)
    [] e \notin hidden /\ Kind(e) = "rectangle" -> gui_rectangle_render(s, e, at, source, room)
    [] OTHER -> gui_label_render(s, e, at, source, room)

\* The frame that is drawn next, from black on; beside it nothing is drawn before.
Rendered ==
  LET origin == [x |-> 0, y |-> 0]
  IN gui_container_render([fb |-> [p \in Points |-> BLACK], scroll |-> scroll, ret |-> -1],
                          gui, origin, origin, Size)

--------------------------------------------------------------------------------
(* The elements change, and frames are drawn.                                     *)

gui_render ==
  /\ scroll' = Rendered.scroll
  /\ UNCHANGED <<layout, hidden, selected_entry>>

\* gui_element_set_position, gui_element_set_size and what a label shows.
ChangeLayout ==
  /\ layout' \in Changes(layout)
  /\ UNCHANGED <<hidden, selected_entry, scroll>>

gui_element_set_hidden(e) ==
  /\ hidden' = IF e \in hidden THEN hidden \ {e} ELSE hidden \cup {e}
  /\ UNCHANGED <<layout, selected_entry, scroll>>

gui_list_set_selected_entry(l, e) ==
  /\ selected_entry' = [selected_entry EXCEPT ![l] = e]
  /\ UNCHANGED <<layout, hidden, scroll>>

Lists == {e \in DOMAIN layout : Kind(e) = "list"}
Marquees == {e \in DOMAIN layout : Kind(e) = "marquee"}

Init ==
  /\ layout \in Layouts /\ hidden = {}
  /\ selected_entry = [l \in Lists |-> None]
  /\ scroll = [e \in Lists \cup Marquees |-> 0]

Hide == \E e \in Hideable \cap DOMAIN layout : gui_element_set_hidden(e)
Select == \E l \in Lists : \E e \in ToSet(Children(l)) : gui_list_set_selected_entry(l, e)

Next == gui_render \/ ChangeLayout \/ Hide \/ Select

Spec == Init /\ [][Next]_vars

--------------------------------------------------------------------------------
(* What the frame is to show, from the places of the elements alone.              *)

\* What element e shows at a place in it.
Look(e, x, y) ==
  LET a == Area(e)
      spare == Greater(a.w - TextWidth(e), 0)
      tx == x - a.text_offset.x - (CASE a.align = "START" -> 0 [] a.align = "END" -> spare
                                     [] OTHER -> spare \div 2)
      ty == y - a.text_offset.y
      border == x \in {0, a.w - 1} \/ y \in {0, a.h - 1}
  IN CASE Kind(e) \in {"image", "animation"} -> {Pixel(e, x, y)}
       [] Kind(e) = "rectangle" -> IF a.filled \/ border THEN {Pixel(e, x, y)} ELSE {}
       [] Kind(e) = "label" -> IF tx \in 0..(TextWidth(e) - 1) /\ ty \in 0..(GlyphHeight - 1)
                               THEN {Pixel(e, tx, ty)} ELSE {}
       [] OTHER -> {}

Within(a, x, y) == x \in 0..(a.w - 1) /\ y \in 0..(a.h - 1)

\* What element e and those in it make of a pixel and of the frames that are due,
\* which have been q so far; x and y are the place of the pixel in e.
RECURSIVE Shown(_, _, _, _, _)
Shown(e, x, y, q, scrolled) ==
  LET look == Look(e, x, y)
      due == CASE Kind(e) = "marquee" -> {10} [] Kind(e) = "animation" -> {Area(e).duration} [] OTHER -> {}
      own == [pixel |-> IF look = {} THEN q.pixel ELSE CHOOSE r \in look : TRUE, due |-> q.due \cup due]
      sx == IF Kind(e) = "marquee" THEN scrolled[e] ELSE 0
      sy == IF Kind(e) = "list" THEN scrolled[e] ELSE 0
      Below(r, c) ==
        LET cx == x - Area(c).x
            cy == y + sy - Area(c).y
            shown == Shown(c, cx + sx, cy, r, scrolled)
        IN IF c \in hidden \/ ~Within(Area(c), cx, cy) THEN r
           ELSE IF Kind(e) = "list" /\ c = selected_entry[e]
             THEN [shown EXCEPT !.pixel.inverted = ~@] ELSE shown
  IN FoldLeft(Below, own, Children(e))

--------------------------------------------------------------------------------
\* That the frame r, of elements that scrolled to r.scroll, is as it is placed.
AsPlaced(r, placed) ==
  LET due == UNION {placed[p].due : p \in Frame}
  IN /\ \A p \in Points : r.fb[p] = IF p \in Frame THEN placed[p].pixel ELSE BLACK
     /\ r.ret = IF due = {} THEN -1 ELSE Min(due)

\* In a frame each pixel shows what has its place there, nothing is drawn beside
\* the frame, and the next one is due when the first of the elements that move
\* asks for it, however they are nested, cut and scrolled (gui.c:92).
FrameAsPlaced ==
  \A r \in {Rendered} :
    AsPlaced(r, [p \in Frame |-> Shown(gui, p[1], p[2], [pixel |-> BLACK, due |-> {}], r.scroll)])

\* In a frame the whole selected entry of a list is in view, if it is less high
\* than the list, whatever was selected when frames were drawn before (gui.c:203).
SelectedInView ==
  \A to \in {Rendered.scroll} : \A l \in Lists \ hidden :
    LET entry == Area(selected_entry[l])
    IN selected_entry[l] # None /\ entry.h < Area(l).h
         => entry.y >= to[l] /\ entry.y + entry.h <= to[l] + Area(l).h

================================================================================
