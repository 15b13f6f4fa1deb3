------------------------------ MODULE DeckAudit -------------------------------
(* src/_plans/s12-manifest/tools/fixA_verify.py: the gates a deck has to pass *)
(* on the text copy that deck_text.py makes of it, with the scan of           *)
(* caps_audit.py for words in capitals. Words are CAPS (emphasis), "above" (a *)
(* positional term), "stale" (on the denylist) and "archived" (its exemption).*)
EXTENDS Naturals, SequencesExt, FiniteSetsExt

CONSTANTS
  Items,    \* titles, texts, notes and code boxes a deck is made of
  Size,     \* items of the deck
  MaxEdits  \* bound on the edits

VARIABLES
  deck,     \* sequence of items
  hits,     \* what the last check found: records of gate, item and word
  checked,  \* the deck is as it was at the last check
  edits     \* for MaxEdits

vars == <<deck, hits, checked, edits>>

-----------------------------------------------------------------------------
(* The copy: a title is a heading, a text or a note a line, a box a fence     *)
(* around its lines. A line of a box can itself be ticks.                     *)
Ticks(i) == [kind |-> "ticks", at |-> i, words |-> {}, inline |-> {}, comment |-> {}, marker |-> "none", dot |-> FALSE]
Rendered(item, i) ==
  IF item.kind # "code"
    THEN <<[kind |-> item.kind, at |-> i, words |-> item.words, inline |-> item.inline, comment |-> {},
            marker |-> "none", dot |-> FALSE]>>
    ELSE <<Ticks(i)>>
         \o [k \in DOMAIN item.lines |->
               IF item.lines[k].ticks THEN Ticks(i)
               ELSE [kind |-> "code", at |-> i, words |-> item.lines[k].words, inline |-> {},
                     comment |-> item.lines[k].comment, marker |-> item.lines[k].marker, dot |-> item.lines[k].dot]]
         \o <<Ticks(i)>>
Copy == FlattenSeq([i \in DOMAIN deck |-> Rendered(deck[i], i)])

(* Every line that starts with ticks opens or closes a fence for the scans.   *)
Fenced(copy, k) == Cardinality({j \in 1..k : copy[j].kind = "ticks"}) % 2 = 1

(* comment_part(): what follows a marker, unless it is the // of a URL, the   *)
(* only one looked at; a block comment has none.                              *)
CommentPart(line) == IF line.marker = "line" THEN line.comment ELSE {}

(* scan(): titles, a box of one line that reads as a chip, and prose, without *)
(* their inline code; the comments of code. Prose that deck_text wraps for     *)
(* Liquid, or that looks like a heading, is passed over ("raw").               *)
IsChip(copy, k) == copy[k].dot /\ copy[k - 1].kind = "ticks" /\ copy[k + 1].kind = "ticks"
AsCode(copy, k) == Fenced(copy, k) /\ copy[k].kind # "title" /\ ~IsChip(copy, k)
Scanned_NoNotes(copy, k) ==
  IF copy[k].kind \in {"ticks", "notes"} THEN {}
  ELSE IF AsCode(copy, k) THEN CommentPart(copy[k])
  ELSE IF copy[k].kind = "raw" THEN {} ELSE copy[k].words \cup copy[k].comment
Scanned_CodeToo(copy, k) == IF copy[k].kind \in {"ticks", "raw"} THEN {} ELSE copy[k].words \cup copy[k].comment
Scanned(copy, k) ==
  IF copy[k].kind = "ticks" THEN {}
  ELSE IF AsCode(copy, k) THEN CommentPart(copy[k])
  ELSE IF copy[k].kind = "raw" THEN {} ELSE copy[k].words \cup copy[k].comment

(* check(): positional terms in what is not fenced, the denylist and the old  *)
(* engine on every line, the colours of the boxes on the deck itself.         *)
AllWords(line) == line.words \cup line.inline \cup line.comment
Positional(copy, k) == IF Fenced(copy, k) THEN {} ELSE copy[k].words \cup copy[k].comment
Denied(line) == "stale" \in AllWords(line) /\ "archived" \notin AllWords(line)

Hits ==
  LET copy == Copy
  IN  {[gate |-> "caps", at |-> copy[k].at, word |-> "CAPS"] : k \in {j \in DOMAIN copy : "CAPS" \in Scanned(copy, j)}}
        \cup {[gate |-> "positional", at |-> copy[k].at, word |-> "above"] : k \in {j \in DOMAIN copy : "above" \in Positional(copy, j)}}
        \cup {[gate |-> "denylist", at |-> copy[k].at, word |-> "stale"] : k \in {j \in DOMAIN copy : Denied(copy[j])}}
        \cup {[gate |-> "colour", at |-> i, word |-> "colour"] :
                i \in {j \in DOMAIN deck : deck[j].kind = "code" /\ \E l \in Range(deck[j].lines) : l.miscoloured}}

-----------------------------------------------------------------------------
TypeOK ==
  /\ deck \in [1..Size -> Items]
  /\ hits \subseteq [gate : {"caps", "positional", "denylist", "colour"}, at : 1..Size, word : {"CAPS", "above", "stale", "colour"}]
  /\ checked \in BOOLEAN /\ edits \in 0..MaxEdits

Init == deck \in [1..Size -> Items] /\ hits = {} /\ checked = FALSE /\ edits = 0

Edit(i, item) ==
  /\ edits < MaxEdits /\ edits' = edits + 1
  /\ item # deck[i] /\ deck' = [deck EXCEPT ![i] = item]
  /\ checked' = FALSE /\ UNCHANGED hits
Check ==
  /\ hits' = Hits /\ checked' = TRUE
  /\ UNCHANGED <<deck, edits>>

Next == Check \/ \E i \in 1..Size, item \in Items : Edit(i, item)

Spec == Init /\ [][Next]_vars

-----------------------------------------------------------------------------
(* The ticks inside the boxes up to item i are even in number.                *)
Inner(item) == IF item.kind # "code" THEN {} ELSE {k \in DOMAIN item.lines : item.lines[k].ticks}
Balanced(i) == \A j \in 1..i : Cardinality(Inner(deck[j])) % 2 = 0

Prose(item) == IF item.kind = "code" THEN {} ELSE item.words
Comments(item) ==
  IF item.kind # "code" THEN {} ELSE UNION {l.comment : l \in {m \in Range(item.lines) : m.marker = "line"}}

(* A deck that passes every gate has no emphasis in capitals in its titles,   *)
(* texts, notes and line comments, no positional term in its prose and no box *)
(* coloured wrongly: no kind of line falls between the gates, however the     *)
(* items follow each other, as long as the boxes hold their ticks in pairs.   *)
PassedDecksAreClean ==
  checked /\ hits = {} =>
    \A i \in DOMAIN deck :
      /\ Balanced(i) => /\ "CAPS" \notin Comments(deck[i])
                        /\ deck[i].kind # "raw" => "CAPS" \notin Prose(deck[i])
                        /\ "above" \notin Prose(deck[i])
      /\ deck[i].kind = "code" => ~\E l \in Range(deck[i].lines) : l.miscoloured

(* Code in capitals is no emphasis: what the scan reports of a box is in a    *)
(* comment, unless the box reads as a chip or the ticks of boxes have turned  *)
(* the fences round.                                                          *)
CodeIsNotReported ==
  \A h \in hits : checked /\ h.gate = "caps" /\ deck[h.at].kind = "code" =>
    \/ "CAPS" \in Comments(deck[h.at])
    \/ Inner(deck[h.at]) # {} \/ ~Balanced(h.at)
    \/ Len(deck[h.at].lines) = 1 /\ deck[h.at].lines[1].dot
=============================================================================
