----------------------------- MODULE EditManifest -----------------------------
(* src/_plans/s12-manifest/tools: the scripts that amend the manifest of a   *)
(* deck after it was built. amend_decisions.py and amend_vendor.py insert    *)
(* ops before the agenda (cat "new"), gen_fit.py amends set_code ops of the  *)
(* committed manifest and appends, fixA_build.py measures ops on the edited  *)
(* deck and appends them. A box holds lines; deck_edit.py applies the ops.   *)
EXTENDS Naturals, SequencesExt, FiniteSetsExt

CONSTANTS
  Deck0,          \* the deck: box -> lines
  Committed,      \* the manifest under version control: sequence of ops
  NotesBoxes,     \* boxes that are notes
  DecisionOps, DropFinds,     \* amend_decisions.py: its ops, finds it replaces
  VendorPairs, VendorSets,    \* amend_vendor.py: <<find, repl>>, its set ops
  BaseText,                   \* the deck of the manifest it was written for
  FixPairs,                   \* fixA_rules.py: <<find, repl>>
  FitPlan                     \* fit/<deck>.json: sequence of entries

VARIABLES
  manifest,   \* the manifest of the deck, in lgtm-presentation/edits
  order,      \* scripts that have run since it was last checked out
  failed      \* the last script stopped without writing

vars == <<manifest, order, failed>>

MaxRuns == 4      \* bound on the runs of the scripts

Count(text, find) == Cardinality({i \in DOMAIN text : text[i] = find})
Subst(text, find, repl) == [i \in DOMAIN text |-> IF text[i] = find THEN repl ELSE text[i]]
Replace(at, find, repl, n, by) ==
  [op |-> "replace", at |-> at, find |-> find, text |-> <<repl>>, n |-> n, cuts |-> {}, cat |-> "voice", by |-> by]

(* deck_edit's cut_code: a cut takes out its lines and puts an ellipsis for  *)
(* them; its first line must be the one it names.                            *)
CutFits(text, cuts) == \A c \in cuts : c.to <= Len(text) /\ text[c.from] = c.first
Cut(text, cuts) ==
  LET From(i) == \E c \in cuts : i = c.from
      left == SelectSeq([i \in DOMAIN text |-> i], LAMBDA i : From(i) \/ \A c \in cuts : i \notin c.from..c.to)
  IN  [k \in DOMAIN left |-> IF From(left[k]) THEN "..." ELSE text[left[k]]]

(* deck_edit.py: the ops in turn; one that fails stops it.                   *)
Step(s, op) ==
  LET text == s.deck[op.at]
  IN  CASE ~s.ok -> s
        [] s.ok /\ op.op = "clone" -> [s EXCEPT !.deck = [b \in DOMAIN @ \cup {op.at} |-> IF b = op.at THEN op.text ELSE @[b]]]
        [] s.ok /\ op.op # "clone" /\ op.at \notin DOMAIN s.deck -> [s EXCEPT !.ok = FALSE]
        [] s.ok /\ op.op = "set" -> [s EXCEPT !.deck[op.at] = op.text]
        [] s.ok /\ op.op = "cut" -> [s EXCEPT !.ok = CutFits(text, op.cuts), !.deck[op.at] = Cut(text, op.cuts)]
        [] OTHER -> [s EXCEPT !.ok = Count(text, op.find) = op.n, !.deck[op.at] = Subst(text, op.find, op.text[1])]
EditDeck(ops) == FoldLeft(Step, [ok |-> TRUE, deck |-> Deck0], ops)

-----------------------------------------------------------------------------
(* What a script makes of a manifest, or Stops.                              *)
Stops == <<"stops">>
Without(ops, by) == SelectSeq(ops, LAMBDA o : o.by # by)
BeforeNew(ops, new) ==
  LET at == Min({i \in DOMAIN ops : ops[i].cat = "new"})
  IN  SubSeq(ops, 1, at - 1) \o new \o SubSeq(ops, at, Len(ops))
HasNew(ops) == \E i \in DOMAIN ops : ops[i].cat = "new"

(* amend_decisions.py                                                        *)
Insert(ops) ==
  LET kept == SelectSeq(Without(ops, "decisions"), LAMBDA o : ~(o.op = "replace" /\ o.find \in DropFinds))
  IN  IF HasNew(kept) THEN BeforeNew(kept, DecisionOps) ELSE Stops

(* amend_vendor.py: Appendix S goes, ops that its own supersede go; its      *)
(* replaces are counted in the text it was written for.                      *)
AppendixS_ClonesOnly(o) == o.at = "$s" /\ o.op = "clone"
AppendixS(o) == o.at = "$s"

VendorReplaces ==
  LET boxes == DOMAIN BaseText \ {o.at : o \in {v \in Range(VendorSets) : v.at \in NotesBoxes}}
      hits(p) == {b \in boxes : Count(BaseText[b], p[1]) > 0}
      Ops(p) == LET seq == SetToSeq(hits(p))
                IN  [i \in DOMAIN seq |-> Replace(seq[i], p[1], p[2], Count(BaseText[seq[i]], p[1]), "vendor")]
  IN  FlattenSeq([i \in DOMAIN VendorPairs |-> Ops(VendorPairs[i])])
Vendor(ops) ==
  LET Superseded(o) == o.op = "set" /\ \E v \in Range(VendorSets) : v.at = o.at
      kept == SelectSeq(Without(ops, "vendor"), LAMBDA o : ~AppendixS(o) /\ ~Superseded(o))
  IN  IF HasNew(kept) THEN BeforeNew(kept, VendorReplaces \o VendorSets) ELSE Stops

(* fixA_build.py --write: what the rules match in the deck that the manifest *)
(* makes without the ops of an earlier run.                                  *)
BaseDeck_OwnOps(ops) == ops
BaseDeck(ops) == Without(ops, "fixA")

FixA(ops) ==
  LET base == EditDeck(BaseDeck(ops))
      Locate(s, p) ==
        LET hits == SetToSeq({b \in DOMAIN s.deck : Count(s.deck[b], p[1]) > 0})
        IN  [deck |-> [b \in DOMAIN s.deck |-> Subst(s.deck[b], p[1], p[2])],
             ops |-> s.ops \o [i \in DOMAIN hits |-> Replace(hits[i], p[1], p[2], Count(s.deck[hits[i]], p[1]), "fixA")]]
      found == FoldLeft(Locate, [deck |-> base.deck, ops |-> <<>>], FixPairs)
  IN  IF base.ok THEN Without(ops, "fixA") \o found.ops ELSE Stops

(* gen_fit.py apply: the committed manifest; an entry amends the set op of   *)
(* its box if there is one, or becomes an op at the end.                     *)
Folded_OneByOne(text, cuts) ==
  FoldLeft(LAMBDA t, c : SubSeq(t, 1, c.from - 1) \o <<"...">> \o SubSeq(t, c.to + 1, Len(t)), text, SetToSortSeq(cuts, LAMBDA a, b : a.from < b.from))
Folded(text, cuts) ==
  LET Ins(i) == IF \E c \in cuts : i = c.from THEN <<"...">> ELSE <<>>
      Keep(i) == IF \E c \in cuts : i \in c.from..c.to THEN <<>> ELSE <<text[i]>>
  IN  FlattenSeq([i \in DOMAIN text |-> Ins(i) \o Keep(i)])

Amend(ops, e) ==
  LET sets == {i \in DOMAIN ops : ops[i].op = "set" /\ ops[i].at = e.at}
      i == Min(sets)
  IN  CASE ops = Stops \/ Cardinality(sets) > 1 -> Stops
        [] sets = {} -> Append(ops, e)
        [] e.op = "set" -> [ops EXCEPT ![i].text = e.text]
        [] e.op = "cut" -> IF CutFits(ops[i].text, e.cuts) THEN [ops EXCEPT ![i].text = Folded(@, e.cuts)] ELSE Stops
        [] OTHER -> Append(ops, e)
Fit == FoldLeft(Amend, Committed, FitPlan)

Scripts == {"decisions", "vendor", "fixA", "fit"}
Result(script, ops) ==
  CASE script = "decisions" -> Insert(ops) [] script = "vendor" -> Vendor(ops) [] script = "fixA" -> FixA(ops) [] OTHER -> Fit

-----------------------------------------------------------------------------
TypeOK ==
  /\ Range(order) \subseteq Scripts /\ Len(order) <= MaxRuns
  /\ failed \in BOOLEAN
  /\ manifest # Stops

Init == manifest = Committed /\ order = <<>> /\ failed = FALSE

Run(script) ==
  LET ops == Result(script, manifest)
  IN  /\ Len(order) < MaxRuns /\ order' = Append(order, script)
      /\ manifest' = IF ops = Stops THEN manifest ELSE ops
      /\ failed' = (ops = Stops)
Checkout == manifest' = Committed /\ order' = <<>> /\ failed' = FALSE

Next == Checkout \/ \E script \in Scripts : Run(script)

Spec == Init /\ [][Next]_vars

-----------------------------------------------------------------------------
(* Each script can be run again: it takes out what it put in before, finds   *)
(* the same again, and leaves the manifest as it was.                        *)
ScriptsAreIdempotent ==
  \A script \in Scripts :
    LET once == Result(script, manifest)
    IN  once # Stops => Result(script, once) = once

(* The documented order, decisions then vendor, each as often as one likes,  *)
(* then fixA: the manifest applies, no vendor is named in the deck it makes, *)
(* and Appendix S is not in it.                                              *)
InOrder ==
  /\ "fit" \notin Range(order) /\ Range(order) \cap {"decisions", "vendor"} = {"decisions", "vendor"}
  /\ \A i, j \in DOMAIN order : i < j =>
       ~(order[i] = "vendor" /\ order[j] = "decisions") /\ ~(order[i] = "fixA")
VendorNeutral ==
  InOrder =>
    LET edited == EditDeck(manifest)
    IN  /\ edited.ok /\ "$s" \notin DOMAIN edited.deck
        /\ \A b \in DOMAIN edited.deck, i \in DOMAIN VendorPairs : Count(edited.deck[b], VendorPairs[i][1]) = 0

(* Folding the fit plan into the set ops of the manifest makes the deck that *)
(* the same edits make when they are applied to the finished deck.           *)
FitFoldsAsApplied ==
  order # <<>> /\ Last(order) = "fit" /\ ~failed => EditDeck(manifest).deck = EditDeck(Committed \o FitPlan).deck
=============================================================================
