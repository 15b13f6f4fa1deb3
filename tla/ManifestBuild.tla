---------------------------- MODULE ManifestBuild -----------------------------
(* src/_plans/s12-manifest/tools: build.py makes one manifest of edits per   *)
(* deck, and a shared one, out of rewrites for all the language decks and of *)
(* edits written for one; check_rewrites.py checks the texts beforehand and  *)
(* verify_all.py tries the manifests on copies. Text is counted in words.    *)
EXTENDS Naturals, SequencesExt, FiniteSetsExt, Functions

CONSTANTS
  LANG, POLICY,    \* the decks
  Decks0,          \* what they may hold: deck -> slide -> part -> word -> count
  Vocabulary, Banned,   \* words, and those of the ban tier
  Rewrites, HandWritten,   \* rewrites and edits that may be written
  MaxWritten       \* bound on the rewrites and edits together

(* Slides have positive numbers; a rewrite is offered to whole decks.        *)
ASSUME ManifestAssumption ==
  /\ IsFiniteSet(LANG) /\ IsFiniteSet(POLICY) /\ IsFiniteSet(Banned) /\ Banned \subseteq Vocabulary
  /\ \A ds \in Decks0 : DOMAIN ds = LANG \cup POLICY /\ \A d \in DOMAIN ds :
       /\ DOMAIN ds[d] \subseteq Nat \ {0} /\ IsFiniteSet(DOMAIN ds[d])
       /\ ds[d] \in [DOMAIN ds[d] -> [{"slide", "code", "notes"} -> [Vocabulary -> Nat]]]
  /\ Rewrites \subseteq [find : Vocabulary, repl : Vocabulary, scope : {"slide", "notes", "both"}, decks : SUBSET (LANG \cup POLICY),
                          allow_code : BOOLEAN, ids : {{}}]
  /\ HandWritten \subseteq [op : {"clone"}, of : Nat]
       \cup [op : {"replace"}, find : Vocabulary, repl : Vocabulary, scope : {"slide", "notes", "both"}, ids : SUBSET Nat, expect : Nat]

VARIABLES
  decks,      \* the decks as they are
  rewrites,   \* rewrites/*.json, in order
  handOps,    \* ops-*/<deck>.json
  built,      \* result of build.py, or NotBuilt
  verified    \* rows of verify_all.py: deck -> [ok, ban], or NotBuilt

manifestVars == <<decks, rewrites, handOps, built, verified>>

NotBuilt == <<>>
Everywhere == {}       \* no "decks", no "sldIds" given
MADE == 0              \* the slide that a clone makes, as "$new"
Parts == {"slide", "code", "notes"}
AllDecks == LANG \cup POLICY

InOrder(seq, Step(_, _), start) ==
  LET after[n \in 0..Len(seq)] == IF n = 0 THEN start ELSE Step(after[n - 1], seq[n])
  IN  after[Len(seq)]

-----------------------------------------------------------------------------
(* roots_for(), apply_replace(): ids that are no slide match nothing.        *)
Scope(op) == CASE op.scope = "slide" -> {"slide", "code"} [] op.scope = "notes" -> {"notes"} [] OTHER -> Parts
OnSlide(deck, op, s) == SumFunction([p \in Scope(op) |-> deck[s][p][op.find]])
SlidesOf(deck, op) == IF op.ids = Everywhere THEN DOMAIN deck ELSE DOMAIN deck \cap op.ids
Hit(deck, op) == {s \in SlidesOf(deck, op) : OnSlide(deck, op, s) > 0}
Count(deck, op) == SumFunction([s \in SlidesOf(deck, op) |-> OnSlide(deck, op, s)])
InCode(deck, op) == "code" \in Scope(op) /\ \E s \in SlidesOf(deck, op) : deck[s]["code"][op.find] > 0
Replaced(deck, op) ==
  [s \in DOMAIN deck |-> [p \in Parts |->
     IF s \in SlidesOf(deck, op) /\ p \in Scope(op)
     THEN [[deck[s][p] EXCEPT ![op.find] = 0] EXCEPT ![op.repl] = @ + deck[s][p][op.find]] ELSE deck[s][p]]]

(* deck_edit's clone_slide, of a slide there is; the clone has the next number. *)
CloneId(deck) == Max(DOMAIN deck) + 1
Cloned(deck, op) == [s \in DOMAIN deck \cup {CloneId(deck)} |-> deck[IF s \in DOMAIN deck THEN s ELSE op.of]]

-----------------------------------------------------------------------------
(* main(), pass 1: how often each rewrite matches in each language deck.     *)
Offered(r, d) == IF r.decks = Everywhere THEN d \in LANG ELSE d \in r.decks
Counts(d) ==
  LET Step(s, r) == IF ~Offered(r, d) THEN [s EXCEPT !.counts = Append(@, 0)]
                    ELSE [deck |-> Replaced(s.deck, r), counts |-> Append(s.counts, Count(s.deck, r)),
                          code |-> s.code \/ (InCode(s.deck, r) /\ ~r.allow_code)]
  IN  InOrder(rewrites, Step, [deck |-> decks[d], counts |-> <<>>, code |-> FALSE])
Pass1 == [d \in LANG |-> Counts(d)]

Equal(pass1, i) == \A d, e \in LANG : pass1[d].counts[i] = pass1[e].counts[i]

Matched(pass1, i) == \E d \in LANG : pass1[d].counts[i] > 0
SharedIndexes(pass1) ==
  {i \in DOMAIN rewrites : Matched(pass1, i) /\ rewrites[i].decks = Everywhere /\ Equal(pass1, i)}
Op(r, ids, n) == [op |-> "replace", find |-> r.find, repl |-> r.repl, scope |-> r.scope, ids |-> ids, expect |-> n]
Indexes == [i \in DOMAIN rewrites |-> i]

(* main(), pass 2, of one deck: the shared edits, the other rewrites, the    *)
(* edits of the deck. What goes wrong is a problem; the edit stays.          *)
Miscounted_Unchecked(s, op) == FALSE
Miscounted(s, op) == Count(s.deck, op) # op.expect

ApplyShared(s, op) ==
  [s EXCEPT !.deck = Replaced(s.deck, op), !.problems = @ \cup (IF Miscounted(s, op) THEN {"shared"} ELSE {})]
ApplyRewrite(s, r) ==
  IF Count(s.deck, r) = 0 THEN s
  ELSE [s EXCEPT !.deck = Replaced(s.deck, r), !.ops = Append(@, Op(r, Hit(s.deck, r), Count(s.deck, r)))]
ApplyHand(s, op) ==
  IF op.op = "clone"
  THEN [s EXCEPT !.deck = IF op.of \in DOMAIN @ THEN Cloned(@, op) ELSE @, !.ops = Append(@, op),
                 !.problems = @ \cup (IF op.of \in DOMAIN s.deck THEN {} ELSE {"fails"})]
  ELSE [s EXCEPT !.deck = Replaced(s.deck, op),
                 !.ops = Append(@, Op(op, IF op.ids = Everywhere /\ Hit(s.deck, op) # {} THEN Hit(s.deck, op) ELSE op.ids,
                                      Count(s.deck, op))),
                 !.problems = @ \cup (IF Count(s.deck, op) = 0 THEN {"matches nothing"} ELSE {})]

Pass2(d, shared, sharedAt) ==
  LET Rest(s, i) == IF i \in sharedAt \/ ~Offered(rewrites[i], d) THEN s ELSE ApplyRewrite(s, rewrites[i])
      s0 == [deck |-> decks[d], ops |-> <<>>, problems |-> {}]
      s1 == IF d \in LANG THEN InOrder(shared, ApplyShared, s0) ELSE s0
      s2 == InOrder(Indexes, Rest, s1)
  IN  InOrder(handOps[d], ApplyHand, s2)

(* check_rewrites.py: no banned word in a text, code excepted.               *)
CheckedTexts_RewritesOnly == {r \in Range(rewrites) : ~r.allow_code}
CheckedTexts == {r \in Range(rewrites) : ~r.allow_code} \cup {op \in UNION {Range(handOps[d]) : d \in AllDecks} : op.op = "replace"}

TextsOk == \A r \in CheckedTexts : r.repl \notin Banned /\ r.repl # r.find

(* deck_edit.py, on one deck: every edit in turn, none if one fails.         *)
Ids(s, op) == IF op.ids = Everywhere THEN DOMAIN s.deck ELSE {IF i = MADE THEN s.new ELSE i : i \in op.ids}
Edit(s, op) ==
  LET at == Op(op, Ids(s, op), op.expect)
  IN  IF ~s.ok THEN s
      ELSE IF op.op = "clone"
      THEN IF op.of \in DOMAIN s.deck THEN [s EXCEPT !.deck = Cloned(@, op), !.new = CloneId(s.deck)]
           ELSE [s EXCEPT !.ok = FALSE]
      ELSE [s EXCEPT !.ok = at.ids \subseteq DOMAIN s.deck /\ Count(s.deck, at) = op.expect, !.deck = Replaced(@, at)]
EditDeck(deck, ops) == InOrder(ops, Edit, [ok |-> TRUE, deck |-> deck, new |-> MADE])

-----------------------------------------------------------------------------
ManifestTypeOK ==
  /\ DOMAIN decks = AllDecks
  /\ rewrites \in Seq(Rewrites)
  /\ built # NotBuilt => built.problems \subseteq {"code", "nowhere", "shared", "matches nothing", "fails"}
  /\ verified # NotBuilt => DOMAIN verified = AllDecks /\ \A d \in AllDecks : verified[d].ok \in BOOLEAN

ManifestInit ==
  /\ decks \in Decks0
  /\ rewrites = <<>> /\ handOps = [d \in AllDecks |-> <<>>]
  /\ built = NotBuilt /\ verified = NotBuilt

(* The author writes a rewrite or an edit.                                   *)
Write == built' = NotBuilt /\ verified' = NotBuilt /\ UNCHANGED decks
Written == Len(rewrites) + SumFunction([d \in AllDecks |-> Len(handOps[d])])
WriteRewrite(r) == Written < MaxWritten /\ rewrites' = Append(rewrites, r) /\ Write /\ UNCHANGED handOps
WriteOp(d, op) ==
  /\ Written < MaxWritten /\ handOps' = [handOps EXCEPT ![d] = Append(@, op)]
  /\ op.op = "clone" => \A i \in DOMAIN handOps[d] : handOps[d][i].op # "clone"
  /\ Write /\ UNCHANGED rewrites

BuildAll ==
  LET pass1 == Pass1
      sharedAt == SharedIndexes(pass1)
      Shared(i) == Op(rewrites[i], Everywhere, pass1[CHOOSE d \in LANG : TRUE].counts[i])
      shared == FlattenSeq([i \in DOMAIN rewrites |-> IF i \in sharedAt THEN <<Shared(i)>> ELSE <<>>])
      pass2 == [d \in AllDecks |-> Pass2(d, shared, sharedAt)]
  IN  [shared |-> shared, ops |-> [d \in AllDecks |-> pass2[d].ops], after |-> [d \in AllDecks |-> pass2[d].deck],
       problems |-> (UNION {pass2[d].problems : d \in AllDecks})
         \cup (IF \E d \in LANG : pass1[d].code THEN {"code"} ELSE {})
         \cup (IF \E i \in DOMAIN rewrites : ~Matched(pass1, i) THEN {"nowhere"} ELSE {})]
Build == built' = BuildAll /\ UNCHANGED <<decks, rewrites, handOps, verified>>

BannedOn(deck, s) == SumFunction([pw \in Parts \X Banned |-> deck[s][pw[1]][pw[2]]])
BannedIn(deck) == SumFunction([s \in DOMAIN deck |-> BannedOn(deck, s)])
Manifest(d) == (IF d \in LANG THEN built.shared ELSE <<>>) \o built.ops[d]
Verdict(d) ==
  LET edited == EditDeck(decks[d], Manifest(d)) IN [ok |-> edited.ok, ban |-> IF edited.ok THEN BannedIn(edited.deck) ELSE 0]
VerifyAll_EditionsOnly ==
  built # NotBuilt /\ verified' = [d \in LANG |-> Verdict(d)] /\ UNCHANGED <<decks, rewrites, handOps, built>>
VerifyAll ==
  built # NotBuilt /\ verified' = [d \in AllDecks |-> Verdict(d)] /\ UNCHANGED <<decks, rewrites, handOps, built>>

ManifestNext ==
  \/ \E r \in Rewrites : WriteRewrite(r)
  \/ \E d \in AllDecks, op \in HandWritten : WriteOp(d, op)
  \/ Build \/ VerifyAll

ManifestSpec == ManifestInit /\ [][ManifestNext]_manifestVars

-----------------------------------------------------------------------------
(* Edits that name slides of the deck, and none that is made on the way:     *)
(* build.py passes over other ids, deck_edit.py fails on them or finds them. *)
NamesSlides(d) ==
  \A i \in DOMAIN handOps[d] : handOps[d][i].op = "clone" \/ handOps[d][i].ids = Everywhere \/ handOps[d][i].ids \subseteq DOMAIN decks[d]

(* A manifest that was built without a problem applies to its deck, every    *)
(* count as expected, and makes of it the deck that build.py scanned.        *)
ManifestApplies ==
  built # NotBuilt /\ built.problems = {} =>
    \A d \in AllDecks : NamesSlides(d) =>
      LET edited == EditDeck(decks[d], Manifest(d)) IN edited.ok /\ edited.deck = built.after[d]

(* When the texts have passed check_rewrites and all manifests apply, no     *)
(* deck has gained a banned word, unless from a rewrite that may touch code  *)
(* or by the copy of a slide.                                                *)
NoBannedWordGained ==
  TextsOk /\ verified # NotBuilt =>
    \A d \in AllDecks :
      /\ verified[d].ok
      /\ \A i \in DOMAIN handOps[d] : handOps[d][i].op # "clone"
      /\ \A i \in DOMAIN rewrites : ~rewrites[i].allow_code
      => verified[d].ban <= BannedIn(decks[d])

(* build.py, deck_edit.py, verify_all.py: what was built applies, and gains  *)
(* no word that is banned.                                                   *)
ManifestsApply == ManifestApplies /\ NoBannedWordGained
=============================================================================
