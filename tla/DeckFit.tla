------------------------------- MODULE DeckFit --------------------------------
(* src/scripts/deck_fit.py: text that does not fit its shape, found from the *)
(* words of a PDF of the deck. Lengths are points; every word is a square of *)
(* WORD points, and a line of the PDF may hold words of several shapes.      *)
EXTENDS Integers, SequencesExt, FiniteSetsExt

CONSTANTS
  Deck0,     \* the deck at first: sequence of slides [show, shapes]
  Texts,     \* texts that a shape may be given: sequences of lines of words
  Width, Height, WORD,
  TOL,       \* --tol
  MaxChanges \* bound on the changes of the deck

VARIABLES
  deck,      \* the deck: a shape has a sid, a kind, a frame, groups and a text
  pdf,       \* the render of an earlier run that was kept, or NoPdf
  flags,     \* flags of the last run: [slide, sid, kind, by]
  exit,      \* its exit code, or "none" since the deck has changed
  changes    \* for MaxChanges

vars == <<deck, pdf, flags, exit, changes>>

NoPdf == <<>>
BULLET == "*"

Words(s) == SelectSeq(FlattenSeq(s.text), LAMBDA w : w # BULLET)
Overlap(a0, a1, b0, b1) == Min({a1, b1}) - Max({a0, b0})
Intersects(a, b, pad_x, pad_y) ==
  Overlap(a.x0, a.x1, b.x0, b.x1) > pad_x /\ Overlap(a.y0, a.y1, b.y0, b.y1) > pad_y
MinBy(S, key) == CHOOSE s \in S : \A t \in S : key[s] < key[t] \/ (key[s] = key[t] /\ s.sid <= t.sid)

-----------------------------------------------------------------------------
(* collect(): a frame is given in the coordinates of the innermost group, a  *)
(* group maps x to scale * x + by. The maps are composed on the way down.    *)
Compose_AddOnly(tf, g) == [scale |-> tf.scale * g.scale, by |-> tf.by + g.by]
Compose(tf, g) == [scale |-> tf.scale * g.scale, by |-> tf.scale * g.by + tf.by]

Framed(s) ==
  LET tf == FoldLeft(Compose, [scale |-> 1, by |-> 0], s.groups)
  IN  [sid |-> s.sid, kind |-> s.kind, words |-> Words(s),
       x0 |-> tf.scale * s.x + tf.by, x1 |-> tf.scale * (s.x + s.w) + tf.by, y0 |-> s.y, y1 |-> s.y + s.h]
Collect(shapes, kinds) == {Framed(s) : s \in {t \in Range(shapes) : t.kind \in kinds}}
WithText == {"text", "grows", "number"}

(* owner(): by text, then by geometry.                                       *)
Closest_First(cands, b) == MinBy(cands, [s \in cands |-> s.sid])
Closest(cands, b) ==
  LET cx == (b.x0 + b.x1) \div 2
      cy == (b.y0 + b.y1) \div 2
      inside == {s \in cands : s.x0 <= cx /\ cx <= s.x1 /\ s.y0 <= cy /\ cy <= s.y1}
      column == {s \in cands : Overlap(s.x0, s.x1, b.x0, b.x1) > 0}
      above == {s \in column : s.y0 <= b.y0}
      below == {s \in column : s.y1 >= b.y1}
  IN  IF inside # {} THEN MinBy(inside, [s \in inside |-> (s.x1 - s.x0) * (s.y1 - s.y0)])
      ELSE IF above # {} THEN MinBy(above, [s \in above |-> b.y0 - s.y1])
      ELSE IF below # {} THEN MinBy(below, [s \in below |-> s.y0 - b.y1])
      ELSE MinBy(cands, [s \in cands |-> Max({cx - s.x0, s.x0 - cx}) + Max({cy - s.y0, s.y0 - cy})])

Nobody == [sid |-> 0]
Occurs(ws, s) == \E i \in 0..(Len(s.words) - Len(ws)) : SubSeq(s.words, i + 1, i + Len(ws)) = ws
Owner(ws, b, shapes) ==
  LET cands == {s \in shapes : Occurs(ws, s)}
  IN  IF cands = {} THEN Nobody ELSE IF Cardinality(cands) = 1 THEN CHOOSE s \in cands : TRUE ELSE Closest(cands, b)

(* segments(): a line whole, without its bullet, or else word by word.       *)
Hull(line) ==
  [x0 |-> Min({line[i].x0 : i \in DOMAIN line}), x1 |-> Max({line[i].x1 : i \in DOMAIN line}),
   y0 |-> Min({line[i].y0 : i \in DOMAIN line}), y1 |-> Max({line[i].y1 : i \in DOMAIN line})]
Box(w) == [x0 |-> w.x0, x1 |-> w.x1, y0 |-> w.y0, y1 |-> w.y1]
Segment(part, shapes) == [of |-> Owner([i \in DOMAIN part |-> part[i].word], Hull(part), shapes), box |-> Hull(part)]
ByWord(line, shapes) == [i \in DOMAIN line |-> [of |-> Owner(<<line[i].word>>, Box(line[i]), shapes), box |-> Box(line[i])]]
Segments(line, shapes) ==
  LET owned == {from \in {1, 2} \cap DOMAIN line : Segment(SubSeq(line, from, Len(line)), shapes).of # Nobody}
  IN  IF owned = {} THEN ByWord(line, shapes) ELSE <<Segment(SubSeq(line, Min(owned), Len(line)), shapes)>>

(* check_slide(): one flag per shape and kind, with the worst amount.        *)
Collisions(segs) ==
  {[sid |-> Max({segs[q[1]].of.sid, segs[q[2]].of.sid}), kind |-> "collision",
    by |-> Overlap(segs[q[1]].box.y0, segs[q[1]].box.y1, segs[q[2]].box.y0, segs[q[2]].box.y1)] :
     q \in {p \in (DOMAIN segs) \X (DOMAIN segs) :
        /\ p[1] < p[2] /\ segs[p[1]].of # Nobody /\ segs[p[2]].of \notin {Nobody, segs[p[1]].of}
        /\ Intersects(segs[p[1]].box, segs[p[2]].box, 1, Max({2, WORD \div 4}))}}
OffSlide(g) ==
  LET by == Max({-g.box.x0, -g.box.y0, g.box.x1 - Width, g.box.y1 - Height})
  IN  IF by > TOL THEN {[sid |-> g.of.sid, kind |-> "off-slide", by |-> by]} ELSE {}
Overflows(g) ==
  LET s == g.of
      t_v == Max({TOL, (12 * WORD) \div 100})
      beyond == {<<"overflow-right", g.box.x1 - s.x1, TOL>>, <<"overflow-left", s.x0 - g.box.x0, TOL>>}
                  \cup (IF s.kind = "grows" THEN {}
                        ELSE {<<"overflow-bottom", g.box.y1 - s.y1, t_v>>, <<"overflow-top", s.y0 - g.box.y0, t_v>>})
  IN  IF s = Nobody THEN {} ELSE {[sid |-> s.sid, kind |-> o[1], by |-> o[2]] : o \in {p \in beyond : p[2] > p[3]}}
OnFurniture(g, furniture) ==
  IF g.of = Nobody \/ g.of.kind = "number" THEN {}
  ELSE {[sid |-> g.of.sid, kind |-> "furniture", by |-> Overlap(g.box.y0, g.box.y1, b.y0, b.y1)] :
          b \in {c \in furniture : Intersects(g.box, c, 0, 0)}}

Worst_Least(adds, f) == Min({g.by : g \in {h \in adds : h.sid = f.sid /\ h.kind = f.kind}})
Worst(adds, f) == Max({g.by : g \in {h \in adds : h.sid = f.sid /\ h.kind = f.kind}})

CheckSlide(page, shapes, pics) ==
  LET segs == FlattenSeq([i \in DOMAIN page |-> Segments(page[i], shapes)])
      furniture == {s \in shapes : s.kind = "number"}
                     \cup {p \in pics : 100 * p.y0 >= 85 * Height /\ 4 * (p.x1 - p.x0) < Width}
      adds == Collisions(segs) \cup
              UNION {OffSlide(segs[i]) \cup Overflows(segs[i]) \cup OnFurniture(segs[i], furniture) : i \in DOMAIN segs}
  IN  {[f EXCEPT !.by = Worst(adds, f)] : f \in adds}

-----------------------------------------------------------------------------
(* LibreOffice and pdftotext: the words of each shape, line under line from  *)
(* the top of its frame; words side by side make one line. Hidden slides are *)
(* not exported.                                                             *)
Placed(s) == FoldRight(LAMBDA g, x : g.scale * x + g.by, s.groups, s.x)
Drawn(s) ==
  UNION {{[word |-> s.text[k][i], x0 |-> Placed(s) + WORD * (i - 1), x1 |-> Placed(s) + WORD * i,
           y0 |-> s.y + WORD * (k - 1), y1 |-> s.y + WORD * k, sid |-> s.sid] : i \in DOMAIN s.text[k]} : k \in DOMAIN s.text}
PageOf(slide) ==
  LET words == UNION {Drawn(s) : s \in {t \in Range(slide.shapes) : t.kind \in WithText}}
      At(y, x) == SetToSortSeq({w \in words : w.y0 = y /\ w.x0 = x}, LAMBDA v, w : v.sid < w.sid)
      xs == SelectSeq([k \in 1..(2 * Width) |-> k - 1], LAMBDA x : \E w \in words : w.x0 = x)
      ys == SelectSeq([k \in 1..(2 * Height) |-> k - 1], LAMBDA y : \E w \in words : w.y0 = y)
  IN  [i \in DOMAIN ys |-> FlattenSeq([k \in DOMAIN xs |-> At(ys[i], xs[k])])]

Visible(d) == SelectSeq([i \in DOMAIN d |-> i], LAMBDA i : d[i].show)

Render(d) == LET shown == SelectSeq([i \in DOMAIN d |-> i], LAMBDA i : d[i].show)
             IN  [k \in DOMAIN shown |-> PageOf(d[shown[k]])]

(* main(): pages are paired with the visible slides, in order.               *)
Results(d, pages) ==
  LET nums == Visible(d)
      On(k) == {[slide |-> nums[k]] @@ f : f \in CheckSlide(pages[k], Collect(d[nums[k]].shapes, WithText), Collect(d[nums[k]].shapes, {"picture"}))}
  IN  UNION {On(k) : k \in DOMAIN nums \cap DOMAIN pages}

-----------------------------------------------------------------------------
TypeOK ==
  /\ Len(deck) = Len(Deck0)
  /\ exit \in {"none", "0", "1", "2"}
  /\ changes \in 0..MaxChanges
  /\ \A f \in flags : f.slide \in DOMAIN deck /\ f.by > 0

Init == deck = Deck0 /\ pdf = NoPdf /\ flags = {} /\ exit = "none" /\ changes = 0

Change(d) ==
  /\ changes < MaxChanges /\ changes' = changes + 1
  /\ deck' = d /\ exit' = "none" /\ flags' = {} /\ UNCHANGED pdf
SetText(n, i, text) == deck[n].shapes[i].kind \in WithText /\ Change([deck EXCEPT ![n].shapes[i].text = text])
ToggleHidden(n) == Change([deck EXCEPT ![n].show = ~@])

Fit(pages) ==
  /\ LET mismatch == Len(Visible(deck)) # Len(pages)
     IN  /\ flags' = IF mismatch THEN {} ELSE Results(deck, pages)
         /\ exit' = IF mismatch THEN "2" ELSE IF flags' = {} THEN "0" ELSE "1"
  /\ UNCHANGED <<deck, changes>>
(* A render of its own, kept or not, or that of an earlier run (--pdf).      *)
FitRender(keep) == Fit(Render(deck)) /\ pdf' = IF keep THEN Render(deck) ELSE pdf
FitPdf == pdf # NoPdf /\ Fit(pdf) /\ UNCHANGED pdf
RenderFails == exit' = "2" /\ flags' = {} /\ UNCHANGED <<deck, pdf, changes>>

Next ==
  \/ \E n \in DOMAIN deck : ToggleHidden(n) \/ \E i \in DOMAIN deck[n].shapes, text \in Texts : SetText(n, i, text)
  \/ \E keep \in BOOLEAN : FitRender(keep)
  \/ FitPdf \/ RenderFails

Spec == Init /\ [][Next]_vars

-----------------------------------------------------------------------------
WordsOf(s) == {w \in Range(FlattenSeq(s.text)) : w # BULLET}
Alone(n, s) == \A t \in Range(deck[n].shapes) : t.sid # s.sid => WordsOf(t) \cap WordsOf(s) = {}
TrueRight(s) == FoldRight(LAMBDA g, x : g.scale * x + g.by, s.groups, s.x + s.w)
TextShapes(n) == {s \in Range(deck[n].shapes) : s.kind \in WithText /\ s.text # <<>>}

(* segments() drops the first word of a line that is not of one shape, even  *)
(* when it is no bullet: a lone word beside the text of another shape.       *)
Dropped(n, s) ==
  LET page == PageOf(deck[n])
  IN  \E i \in DOMAIN page : Len(page[i]) > 1 /\ page[i][1].sid = s.sid /\ page[i][2].sid # s.sid

(* A run over its own render flags every shape whose text ends below or to   *)
(* the right of its frame, with the full amount and under the number of its  *)
(* own slide, and flags no shape that is not so - given that no other shape  *)
(* of the slide has the same words, and no word of it is dropped.            *)
OverflowsFlagged ==
  [][exit' # "none" /\ (\E keep \in BOOLEAN : FitRender(keep)) =>
       \A n \in DOMAIN deck : \A s \in {t \in TextShapes(n) : Alone(n, t) /\ ~Dropped(n, t)} :
         LET Far(end) == Max({IF end = "overflow-right" THEN w.x1 - TrueRight(s) ELSE w.y1 - (s.y + s.h) : w \in Drawn(s)})
         IN  \A end \in {"overflow-right", "overflow-bottom"} :
               {f.by : f \in {g \in flags' : g.slide = n /\ g.sid = s.sid /\ g.kind = end}} =
                 IF deck[n].show /\ Far(end) > TOL /\ (end = "overflow-right" \/ s.kind # "grows") THEN {Far(end)} ELSE {}]_vars

(* A slide on which every word stands within the frame of its shape, and no  *)
(* two frames touch, has no flag, also when its shapes say the same.         *)
Fits(n) ==
  \A s \in TextShapes(n) :
    /\ \A w \in Drawn(s) : w.x0 >= 0 /\ w.x1 <= TrueRight(s) /\ w.y1 <= s.y + s.h /\ w.x1 <= Width /\ w.y1 <= Height
    /\ \A t \in Range(deck[n].shapes) : t.sid # s.sid =>
         Overlap(Placed(s), TrueRight(s), Placed(t), TrueRight(t)) <= 0 \/ Overlap(s.y, s.y + s.h, t.y, t.y + t.h) <= 0
FittingSlidesPass ==
  [][exit' # "none" /\ (\E keep \in BOOLEAN : FitRender(keep)) =>
       \A n \in DOMAIN deck : Fits(n) => \A f \in flags' : f.slide # n]_vars
=============================================================================
