------------------------------ MODULE FitSuggest ------------------------------
(* The loop that fits the text of a shape: deck_fit.py flags how far it      *)
(* overflows, suggest() of src/_plans/s12-manifest/tools/gen_fit.py turns    *)
(* the flags into an entry of the fit plan, deck_edit.py applies the entry.  *)
(* Lengths are in points, font sizes in half points, spacings in tenths.     *)
EXTENDS Integers, FiniteSetsExt

CONSTANTS
  Width, Height,    \* of the slide
  Frames, Others,   \* frames of the shape, of other shapes
  Shapes,           \* texts: kind, size, spacing, lines, columns
  Overflows,        \* how far a text can overflow a side
  MaxOthers         \* bound on the other shapes

VARIABLES
  frame, text, others,
  flags,     \* overflow at the top, the bottom and the right
  entry,     \* the suggested entry, or None
  outcome    \* of applying it: "none", "applied", "failed"

vars == <<frame, text, others, flags, entry, outcome>>

Box(x0, y0, x1, y1) == [x0 |-> x0, y0 |-> y0, x1 |-> x1, y1 |-> y1]
Overlap(a, b) ==
  Max({a.x0, b.x0}) < Min({a.x1, b.x1}) /\ Max({a.y0, b.y0}) < Min({a.y1, b.y1})
None == [do |-> "nothing"]
Manual == [do |-> "manual"]
MinSize == 18       \* MIN_CODE_PT
MinTextSize == 24   \* MIN_TEXT_PT
Insets == 6      \* left and right
TopInset == 3
Margin == 3
Gap == 1

(* box_capacity() of deck_edit.py, and fits().                               *)
Capacity(size, spacing, n, columns) ==
  LET h == frame.y1 - frame.y0 - TopInset
      w == frame.x1 - frame.x0 - Insets
  IN  /\ n <= (100 * (100 * h - 66 * size) + 612 * size * spacing) \div (600 * size * spacing)
      /\ columns <= (10 * w) \div (3 * size)
Fits_InsideInsets(size, spacing) ==
  /\ text.lines <= (100 * (frame.y1 - frame.y0)) \div (6 * size * spacing)
  /\ text.columns <= (10 * (frame.x1 - frame.x0)) \div (3 * size)
Fits(size, spacing) == Capacity(size, spacing, text.lines, text.columns)

-----------------------------------------------------------------------------
(* suggest(): code takes the largest size at which it fits, at its spacing   *)
(* and then at single spacing.                                               *)
SuggestSize ==
  LET smaller == {s \in MinSize..text.size - 1 : Fits(s, text.spacing)}
      single == {s \in MinSize..Max({text.size, MinSize}) : text.spacing > 10 /\ Fits(s, 10)}
  IN  CASE smaller # {} -> [do |-> "size", size |-> Max(smaller), spacing |-> text.spacing]
        [] smaller = {} /\ single # {} -> [do |-> "size", size |-> Max(single), spacing |-> 10]
        [] OTHER -> Manual

(* A chip gets one line wide enough, its right edge kept.                    *)
WidenChip ==
  LET need == (3 * text.columns * text.size) \div 10 + 4 + Insets
  IN  IF need > frame.x1 - frame.x0 THEN [do |-> "resize", frame |-> [frame EXCEPT !.x0 = frame.x1 - need]] ELSE Manual

(* Text grows into the space between the shapes of its column, containers    *)
(* and full-slide shapes aside.                                              *)
More(side) == IF flags[side] > 0 THEN flags[side] + Margin ELSE 0
Column_OwnWidth(b) == b.x0 < frame.x1 /\ frame.x0 < b.x1
Column(b) == b.x0 < frame.x1 + More("right") /\ frame.x0 < b.x1

Contains(b) == b.x0 <= frame.x0 /\ b.y0 <= frame.y0 /\ b.x1 >= frame.x1 /\ b.y1 >= frame.y1
FullSlide(b) == 100 * (b.x1 - b.x0) >= 95 * Width /\ 100 * (b.y1 - b.y0) >= 95 * Height
Obstacles == {b \in others : ~Contains(b) /\ ~FullSlide(b) /\ Column(b)}
Middle == frame.y0 + (frame.y1 - frame.y0) \div 2
Below(b) == b.y0 >= Middle
Above(b) == ~Below(b) /\ b.y1 <= Middle

Grown ==
  LET lower == Min({Height} \cup {b.y0 - Gap : b \in {o \in Obstacles : Below(o)}})
      need == frame.y1 - frame.y0 + More("top") + More("bottom")
      y1 == Min({frame.y0 - More("top") + need, lower})
  IN  Box(frame.x0, y1 - need, frame.x1 + More("right"), y1)
FreeSpace(f) ==
  LET upper == Max({0} \cup {b.y1 + Gap : b \in {o \in Obstacles : Above(o)}})
  IN  f.y0 >= upper /\ f.y1 <= Height /\ f.x1 <= Width

(* Or else it shrinks, as if its height went with the square of its size.    *)
Shrunk ==
  LET h == frame.y1 - frame.y0
      over == flags["top"] + flags["bottom"]
  IN  Max({s \in 0..text.size : s * s * (h + over) <= text.size * text.size * h /\ (over = 0 => s < text.size)})
SuggestText ==
  CASE \A side \in DOMAIN flags : flags[side] = 0 -> Manual
    [] (\E side \in DOMAIN flags : flags[side] > 0) /\ FreeSpace(Grown) -> [do |-> "resize", frame |-> Grown]
    [] OTHER -> [do |-> "size", size |-> Shrunk, spacing |-> text.spacing]

Suggest ==
  /\ entry = None
  /\ entry' = CASE text.kind = "chip" -> WidenChip [] text.kind = "code" -> SuggestSize [] OTHER -> SuggestText
  /\ UNCHANGED <<frame, text, others, flags, outcome>>

(* deck_edit.py: op_fit_font checks the capacity of a code box and the floor *)
(* of a text, op_resize_shape that the frame stays on the slide.             *)
ApplySize ==
  LET ok == \/ text.kind = "text" /\ entry.size >= MinTextSize
            \/ text.kind = "code" /\ Capacity(entry.size, entry.spacing, text.lines, text.columns)
  IN  /\ entry.do = "size" /\ outcome = "none"
      /\ outcome' = IF ok THEN "applied" ELSE "failed"
      /\ text' = IF ok THEN [text EXCEPT !.size = entry.size, !.spacing = entry.spacing] ELSE text
      /\ UNCHANGED <<frame, others, flags, entry>>
ApplyResize ==
  LET ok == entry.frame.x0 >= 0 /\ entry.frame.y0 >= 0 /\ entry.frame.x1 <= Width /\ entry.frame.y1 <= Height
  IN  /\ entry.do = "resize" /\ outcome = "none"
      /\ outcome' = IF ok THEN "applied" ELSE "failed"
      /\ frame' = IF ok THEN entry.frame ELSE frame
      /\ UNCHANGED <<text, others, flags, entry>>

(* The slide is rendered and measured again: what it lacks now is flagged.   *)
Measure(side, by) ==
  /\ outcome = "applied"
  /\ flags' = [s \in DOMAIN flags |-> IF s = side THEN by ELSE 0]
  /\ entry' = None /\ outcome' = "none"
  /\ UNCHANGED <<frame, text, others>>

Sides == {"top", "bottom", "right"}
Init ==
  /\ frame \in Frames /\ text \in Shapes
  /\ others \in {o \in SUBSET Others : Cardinality(o) <= MaxOthers}
  /\ flags \in [Sides -> Overflows]
  /\ entry = None /\ outcome = "none"

Next ==
  \/ Suggest \/ ApplySize \/ ApplyResize
  \/ \E side \in Sides, by \in Overflows \ {0} : Measure(side, by)

Spec == Init /\ [][Next]_vars

-----------------------------------------------------------------------------
TypeOK ==
  /\ frame.x0 < frame.x1 /\ frame.y0 < frame.y1
  /\ text.size \in 1..100 /\ text.spacing \in 10..30
  /\ entry.do \in {"nothing", "manual", "size", "resize"}
  /\ outcome \in {"none", "applied", "failed"}

(* What suggest() makes of a text box or a code box, deck_edit.py accepts:   *)
(* only a chip without room to its left and a text that would have to shrink *)
(* under the floor are refused.                                              *)
SuggestionsApply ==
  outcome = "failed" => \/ text.kind = "chip" /\ entry.frame.x0 < 0
                        \/ text.kind = "text" /\ entry.do = "size" /\ entry.size < MinTextSize

(* A text that grew covers no shape that it was clear of before, unless the  *)
(* shape lies across the middle of its old frame.                            *)
GrowsIntoFreeSpace ==
  [][frame' # frame /\ text.kind = "text" =>
       \A b \in others :
         Overlap(frame', b) => Overlap(frame, b) \/ FullSlide(b) \/ ~(Below(b) \/ Above(b))]_vars
=============================================================================
