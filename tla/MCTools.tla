------------------------------- MODULE MCTools --------------------------------
(* Small instances of the tools that keep the decks, the site and the        *)
(* repository. They share files only, so that a behaviour is one of exactly  *)
(* one of them, chosen at the start; the others rest in an initial state.    *)
EXTENDS Integers, Sequences, FiniteSets, TLC, ManifestBuild

CONSTANTS
  TextSlides, TextDocuments, MaxTextChanges,              \* deck_text.py
  Broken, FirstDeck, DeckOps, MaxOps, MaxDeckRuns,        \* deck_edit.py
  CodeHeights, CodeSizes, MaxCodeLines, MaxCodeEdits,     \* its code boxes
  SlideWidth, SlideHeight, TextFrames, OtherFrames,       \* gen_fit.py
  FitTexts, FitOverflows, MaxOthers,
  AuditItems, AuditSize, MaxAuditEdits,                   \* fixA_verify.py
  CiPaths, CiMissing, MaxCiChanges,                       \* ci_changed_projects.py
  Typefaces, DeckParts, MaxElements, MaxFontEdits         \* deck_font.py

(* deck_font.py retargets to a family that it would itself leave alone.      *)
ASSUME DeckFontAssumption ==
  /\ \E t \in Typefaces : ~t.overpass /\ ~t.mono
  /\ DeckParts # {} /\ DeckParts \subseteq {"slide", "notes", "layout"}
  /\ MaxElements \in Nat \ {0} /\ MaxFontEdits \in Nat

VARIABLE tool    \* the one that runs

-------------------------------------------------------------------------------
(* deck_text.py: a pptx and a docx deck, all slides of up to two shapes.     *)
TextShape(mono, size) ==
  [mono |-> mono, size |-> size, paras |-> 1, breaks |-> FALSE, short |-> TRUE, digits |-> FALSE,
   title |-> FALSE, bullet |-> FALSE, code |-> <<"x">>]
SlideShapes ==
  {TextShape(FALSE, 12), [TextShape(FALSE, 30) EXCEPT !.title = TRUE], [TextShape(FALSE, 24) EXCEPT !.bullet = TRUE],
   [TextShape(FALSE, 9) EXCEPT !.digits = TRUE], TextShape(TRUE, 11), [TextShape(TRUE, 11) EXCEPT !.short = FALSE],
   [TextShape(TRUE, 9) EXCEPT !.paras = 2, !.code = <<"- ", "", "x">>]}
BrokenChip == [TextShape(TRUE, 11) EXCEPT !.breaks = TRUE]
SomeSlides == [1..2 -> SlideShapes] \cup {<<TextShape(TRUE, 11), TextShape(TRUE, 11), BrokenChip>>}
SomeDocuments ==
  {[i \in DOMAIN k |-> [kind |-> k[i]]] :
     k \in {"mono", "number"} \X {"paragraph", "mono", "bullet"} \X {"bullet", "number"}}

VARIABLES textDecks, copies, textTodo, textVerdict, textChanges

decktext == <<textDecks, copies, textTodo, textVerdict, textChanges>>
DT == INSTANCE DeckText WITH
  Slides <- TextSlides, Documents <- TextDocuments, Stems <- {"deck"}, MaxChanges <- MaxTextChanges,
  decks <- textDecks, todo <- textTodo, verdict <- textVerdict,
  changes <- textChanges

-------------------------------------------------------------------------------
(* deck_edit.py: two slides that share a picture file, two runs of edits.    *)
TwoSlides ==
  [slides |-> <<[id |-> 1, text |-> <<"a", "b">>, notes |-> 1, pics |-> <<1, 1>>, rels |-> <<"i">>],
                [id |-> 2, text |-> <<"a">>, notes |-> 0, pics |-> <<1, 2>>, rels |-> <<"i", "j">>]>>,
   notes |-> <<<<"a">>>>]
Created == 100
SomeEdits ==
  [op : {"replace"}, find : {"a"}, repl : {"b"}, scope : {"both"}, ids : {{}}, expect : {1, 3}]
    \cup [op : {"set_text"}, ref : {Created}, text : {<<"c">>}]
    \cup [op : {"set_notes"}, ref : {2, Created}, text : {<<"c">>}]
    \cup [op : {"replace_picture"}, ref : {1, 2}, pic : {1}, png : {"j", "k"}]
    \cup [op : {"clone_slide"}, ref : {1, 2}, after : {0}]

VARIABLES editDeck, editBackup, ops, editWork, created, editTodo, editStep,
          applied, stored, before, runs

deckedit == <<editDeck, editBackup, ops, editWork, created, editTodo, editStep,
              applied, stored, before, runs>>
DE == INSTANCE DeckEdit WITH
  Ops <- DeckOps, MaxRuns <- MaxDeckRuns,
  deck <- editDeck, backup <- editBackup, work <- editWork, todo <- editTodo,
  step <- editStep

ASSUME DeckEditAssumption ==
  /\ MaxOps \in Nat /\ DE!SoundDeck(FirstDeck)
  /\ \A op \in DeckOps : op.op \in {"replace", "set_text", "set_notes", "replace_picture", "clone_slide"}

-------------------------------------------------------------------------------
(* deck_edit.py and colour_audit.py: a code box of up to three lines.        *)
VARIABLES box, boxSize, height, boxChecked, coloured, cut, boxEdits

codebox == <<box, boxSize, height, boxChecked, coloured, cut, boxEdits>>
CB == INSTANCE CodeBox WITH
  Heights <- CodeHeights, Sizes <- CodeSizes, MaxLines <- MaxCodeLines, MaxEdits <- MaxCodeEdits,
  size <- boxSize, checked <- boxChecked, edits <- boxEdits
codeboxRests ==
  /\ box = <<<<<<[kind |-> "code", rgb |-> "E6E6E6"]>>>>, <<<<[kind |-> "code", rgb |-> "E6E6E6"]>>>>>>
  /\ boxSize = CHOOSE n \in CodeSizes : TRUE
  /\ height = CHOOSE n \in CodeHeights : TRUE

ASSUME CodeBoxAssumption == CodeHeights \subseteq Nat /\ CodeSizes \subseteq Nat \ {0} /\ MaxCodeLines \in Nat

-------------------------------------------------------------------------------
(* fixA_verify.py and caps_audit.py: a deck of three items.                  *)
Prose(kind, words, inline) == [kind |-> kind, words |-> words, inline |-> inline]
CodeLine(words, marker, comment, dot) ==
  [ticks |-> FALSE, words |-> words, marker |-> marker, comment |-> comment, dot |-> dot, miscoloured |-> FALSE]
TicksLine == [CodeLine({}, "none", {}, FALSE) EXCEPT !.ticks = TRUE]
CodeOf(lines) == [kind |-> "code", lines |-> lines]
SomeItems ==
  {Prose("title", {"CAPS"}, {}), Prose("text", {}, {"CAPS", "stale"}), Prose("text", {"above", "stale", "archived"}, {}),
   Prose("notes", {"CAPS"}, {}), Prose("raw", {"CAPS"}, {}), Prose("text", {}, {}),
   CodeOf(<<CodeLine({"CAPS"}, "line", {"above"}, FALSE)>>), CodeOf(<<CodeLine({"CAPS"}, "none", {}, TRUE)>>),
   CodeOf(<<CodeLine({"CAPS"}, "line", {"CAPS"}, FALSE), TicksLine, CodeLine({"CAPS"}, "none", {}, TRUE), TicksLine>>),
   CodeOf(<<TicksLine, CodeLine({}, "url", {"CAPS"}, FALSE)>>),
   CodeOf(<<[CodeLine({}, "none", {}, FALSE) EXCEPT !.miscoloured = TRUE]>>)}

VARIABLES auditDeck, hits, auditChecked, auditEdits

deckaudit == <<auditDeck, hits, auditChecked, auditEdits>>
DA == INSTANCE DeckAudit WITH
  Items <- AuditItems, Size <- AuditSize, MaxEdits <- MaxAuditEdits, deck <- auditDeck,
  checked <- auditChecked, edits <- auditEdits
deckauditRests == auditDeck = [i \in 1..AuditSize |-> CHOOSE item \in AuditItems : TRUE]

(* No line of a box is both ticks and a comment.                             *)
AuditWords == {"CAPS", "above", "stale", "archived"}
ASSUME DeckAuditAssumption ==
  /\ AuditSize \in Nat
  /\ \A item \in AuditItems :
       \/ item \in [kind : {"title", "text", "notes", "raw"}, words : SUBSET AuditWords, inline : SUBSET AuditWords]
       \/ /\ item = CodeOf(item.lines)
          /\ item.lines \in Seq([ticks : BOOLEAN, words : SUBSET AuditWords, marker : {"line", "url", "none"},
                                 comment : SUBSET AuditWords, dot : BOOLEAN, miscoloured : BOOLEAN])
          /\ \A k \in DOMAIN item.lines : item.lines[k].ticks => item.lines[k].marker # "line"

-------------------------------------------------------------------------------
(* deck_fit.py: two slides, one with a shape in two nested groups.           *)
Placed(sid, kind, x, y, w, h, words) ==
  [sid |-> sid, kind |-> kind, x |-> x, y |-> y, w |-> w, h |-> h, groups |-> <<>>, text |-> words]
Grouped ==
  [Placed(4, "text", 1, 0, 10, 20, <<<<"a">>>>) EXCEPT
     !.groups = <<[scale |-> 2, by |-> 0], [scale |-> 1, by |-> 14]>>]
DrawnDeck ==
  <<[show |-> TRUE,
     shapes |-> <<Placed(1, "text", 0, 0, 20, 20, <<<<"a">>>>), Placed(2, "grows", 20, 0, 20, 10, <<<<"c">>>>),
                  Placed(3, "number", 30, 30, 10, 10, <<<<"7">>>>)>>],
    [show |-> TRUE,
     shapes |-> <<Grouped, Placed(5, "text", 0, 20, 20, 20, <<<<"d">>>>), Placed(6, "picture", 36, 36, 4, 4, <<>>)>>]>>
DrawnTexts ==
  {<<<<"a">>>>, <<<<"*", "a", "b">>>>, <<<<"a">>, <<"b">>, <<"c">>>>, <<<<"a">>, <<"b">>, <<"a">>, <<"b">>>>}

VARIABLES fitDeck, pdf, fitFlags, fitExit, fitChanges

deckfit == <<fitDeck, pdf, fitFlags, fitExit, fitChanges>>
DF == INSTANCE DeckFit WITH
  Deck0 <- DrawnDeck, Texts <- DrawnTexts, Width <- 50, Height <- 40,
  WORD <- 10, TOL <- 1, MaxChanges <- 2, deck <- fitDeck, flags <- fitFlags,
  exit <- fitExit, changes <- fitChanges

-------------------------------------------------------------------------------
(* gen_fit.py: a text, chip or code box with at most one neighbour.          *)
Rect(x0, y0, x1, y1) == [x0 |-> x0, y0 |-> y0, x1 |-> x1, y1 |-> y1]
SomeFrames == {Rect(10, 12, 22, 20), Rect(2, 12, 40, 38)}
SomeNeighbours ==
  {Rect(10, 22, 20, 26), Rect(24, 4, 30, 10), Rect(4, 2, 16, 9), Rect(23, 10, 30, 22), Rect(0, 0, 40, 30), Rect(12, 18, 20, 24)}
BoxShape(kind, size, spacing, lines, columns) ==
  [kind |-> kind, size |-> size, spacing |-> spacing, lines |-> lines, columns |-> columns]
SomeBoxes ==
  {BoxShape("text", 28, 10, 1, 1)} \cup {BoxShape("chip", 20, 10, 1, c) : c \in {2, 4, 8}}
    \cup {BoxShape("code", s, sp, n, c) : s \in {18, 26}, sp \in {10, 12}, n \in 1..3, c \in {2, 5, 6}}

VARIABLES frame, suggestText, others, suggestFlags, entry, outcome

fitsuggest == <<frame, suggestText, others, suggestFlags, entry, outcome>>
FS == INSTANCE FitSuggest WITH
  Width <- SlideWidth, Height <- SlideHeight, Frames <- TextFrames, Others <- OtherFrames,
  Shapes <- FitTexts, Overflows <- FitOverflows,
  text <- suggestText, flags <- suggestFlags
fitsuggestRests ==
  /\ frame = CHOOSE f \in TextFrames : TRUE
  /\ suggestText = CHOOSE t \in FitTexts : TRUE
  /\ others = {}
  /\ suggestFlags = [s \in {"bottom", "right", "top"} |-> 0]

(* Frames have an extent; those of text shapes lie on the slide.             *)
ASSUME FitSuggestAssumption ==
  /\ SlideWidth \in Nat /\ SlideHeight \in Nat /\ 0 \in FitOverflows /\ FitOverflows \subseteq Nat /\ MaxOthers \in Nat
  /\ IsFiniteSet(OtherFrames)
  /\ \A f \in TextFrames \cup OtherFrames :
       f = Rect(f.x0, f.y0, f.x1, f.y1) /\ {f.x0, f.y0, f.x1, f.y1} \subseteq Int /\ f.x0 < f.x1 /\ f.y0 < f.y1
  /\ \A f \in TextFrames : f.x0 >= 0 /\ f.y0 >= 0 /\ f.x1 <= SlideWidth /\ f.y1 <= SlideHeight
  /\ FitTexts \subseteq [kind : {"text", "chip", "code"}, size : 1..100, spacing : 10..30, lines : Nat, columns : Nat]

-------------------------------------------------------------------------------
(* deck_font.py: two text runs, an author and one run of the tool.           *)
Family(name, overpass, mono) == [name |-> name, overpass |-> overpass, mono |-> mono]
Families == {Family("Overpass", TRUE, FALSE), Family("Overpass Mono", TRUE, TRUE), Family("Red Hat Display", FALSE, FALSE)}

VARIABLES fontDeck, fontBackup, fontWork, out, toOut, fontStep, total, changed,
          fontEdits

deckfont == <<fontDeck, fontBackup, fontWork, out, toOut, fontStep, total,
              changed, fontEdits>>
FO == INSTANCE DeckFont WITH
  Parts <- DeckParts, MaxEdits <- MaxFontEdits, deck <- fontDeck, backup <- fontBackup,
  work <- fontWork, step <- fontStep, edits <- fontEdits
deckfontRests ==
  /\ fontDeck = <<CHOOSE e \in FO!Elements : TRUE>>

-------------------------------------------------------------------------------
(* build.py, check_rewrites.py, verify_all.py: three decks of one or two     *)
(* slides, rewrites that feed each other's words, edits that clone, miss or  *)
(* name slides. ManifestBuild has the variables.                             *)
SomeWords == {"x", "y", "z", "bad"}
Amounts(x, y) == [w \in SomeWords |-> CASE w = "x" -> x [] w = "y" -> y [] OTHER -> 0]
OneSlide(text, code, notes) ==
  (1 :> [p \in {"slide", "code", "notes"} |-> CASE p = "slide" -> text [] p = "code" -> code [] OTHER -> notes])
NetDeck == OneSlide(Amounts(1, 0), Amounts(0, 0), Amounts(0, 0))
Edition1 ==
  ("py" :> OneSlide(Amounts(1, 1), Amounts(0, 0), Amounts(0, 1))) @@ ("net" :> NetDeck)
    @@ ("go" :> (OneSlide(Amounts(0, 2), Amounts(0, 0), Amounts(0, 0)) @@ (2 :> NetDeck[1])))
Edition2 ==
  ("py" :> OneSlide(Amounts(1, 1), Amounts(0, 0), Amounts(0, 0))) @@ ("net" :> NetDeck)
    @@ ("go" :> OneSlide(Amounts(1, 1), Amounts(0, 1), Amounts(0, 0)))
RewriteOf(find, repl, scope, on, code) ==
  [find |-> find, repl |-> repl, scope |-> scope, decks |-> on, allow_code |-> code, ids |-> {}]
SomeDecks == {Edition1, Edition2}
SomeRewrites ==
  {RewriteOf("x", "y", "both", {"py"}, FALSE), RewriteOf("y", "z", "both", {}, FALSE), RewriteOf("x", "z", "slide", {}, TRUE),
   RewriteOf("y", "x", "notes", {"py", "net"}, FALSE), RewriteOf("y", "bad", "both", {}, TRUE)}
EditOf(find, repl, ids) == [op |-> "replace", find |-> find, repl |-> repl, scope |-> "both", ids |-> ids, expect |-> 0]
HandEdits == {[op |-> "clone", of |-> 1], [op |-> "clone", of |-> 2], EditOf("z", "x", {}), EditOf("y", "bad", {1}), EditOf("x", "y", {1, 0})}

manifestbuildRests == decks = CHOOSE first \in Decks0 : TRUE

-------------------------------------------------------------------------------
(* The amending scripts of the manifests, in any order.                      *)
SetOp(at, to, by, cat) == [op |-> "set", at |-> at, find |-> "", text |-> to, n |-> 0, cuts |-> {}, cat |-> cat, by |-> by]
ReplaceOp(at, find, repl, by) ==
  [op |-> "replace", at |-> at, find |-> find, text |-> <<repl>>, n |-> 1, cuts |-> {}, cat |-> "voice", by |-> by]
CutOp(at, cuts) == [SetOp(at, <<>>, "fit", "fit") EXCEPT !.op = "cut", !.cuts = cuts]
GitDeck ==
  [b1 |-> <<"S3", "CAPS">>, b2 |-> <<"a", "b", "c", "d">>, b3 |-> <<"old">>, b4 |-> <<"p", "q", "r">>, n1 |-> <<"S3">>,
   agenda |-> <<"R and S">>]
GitManifest ==
  <<ReplaceOp("b3", "old", "dropped", "build"), SetOp("b2", <<"S3", "y", "z", "x">>, "build", "code"),
    SetOp("n1", <<"S3", "see S3">>, "build", "notes"), [SetOp("$s", <<"OpenShift">>, "build", "new") EXCEPT !.op = "clone"],
    SetOp("$s", <<"CAPS">>, "build", "new"), SetOp("agenda", <<"R">>, "build", "new")>>
Decided == <<ReplaceOp("b3", "old", "Azure", "decisions"), SetOp("b4", <<"p", "q", "Azure">>, "decisions", "stack")>>
Neutral == <<SetOp("n1", <<"neutral">>, "vendor", "stack"), SetOp("b2", <<"x", "y">>, "vendor", "code")>>
GitText == [b1 |-> <<"S3", "CAPS">>, b3 |-> <<"Azure">>, b4 |-> <<"p", "q", "Azure">>, n1 |-> <<"S3", "see S3">>]
Fitted ==
  <<CutOp("b2", {[from |-> 1, to |-> 2, first |-> "S3"], [from |-> 4, to |-> 4, first |-> "x"]}),
    CutOp("b4", {[from |-> 1, to |-> 2, first |-> "p"]}), SetOp("n1", <<"short">>, "fit", "fit"), SetOp("b1", <<"S3">>, "fit", "fit")>>

VARIABLES manifest, order, failed

editmanifest == <<manifest, order, failed>>
EM == INSTANCE EditManifest WITH
  Deck0 <- GitDeck, Committed <- GitManifest, NotesBoxes <- {"n1"},
  DecisionOps <- Decided, DropFinds <- {"old"},
  VendorPairs <- <<<<"S3", "store">>, <<"Azure", "store">>>>,
  VendorSets <- Neutral, BaseText <- GitText,
  FixPairs <- <<<<"CAPS", "caps">>, <<"store", "shop">>>>, FitPlan <- Fitted

-------------------------------------------------------------------------------
(* companion_docx.py: three revisions of an advisory.                        *)
Para(style, words, kind) ==
  [style |-> style, text |-> <<words>>, kinds |-> <<kind>>, fence |-> FALSE, pic |-> FALSE]
FenceOf(words) == [Para("Normal", words, "plain") EXCEPT !.fence = TRUE]
TableOf(cells) == [Para("TABLE", "", "plain") EXCEPT !.text = cells, !.kinds = <<>>]
Figure == [Para("Normal", "", "plain") EXCEPT !.text = <<>>, !.kinds = <<>>, !.pic = TRUE]
Head1 == Para("Heading 1", "h", "plain")
TextA == Para("Normal", "a", "plain")
TextB == Para("Normal", "b", "bold")
ItemL == Para("List Bullet", "l", "plain")
ItemM == Para("List Bullet", "m", "bold")
SomeRevisions ==
  {<<Head1, TextA>>, <<Head1, TextB, TextA>>, <<Head1, TextA, ItemL>>, <<Head1, ItemL, ItemM, TextA>>,
   <<Head1, FenceOf("x"), TextA>>, <<Head1, FenceOf("y"), TextB>>, <<TextA, Head1, ItemL>>,
   <<Head1, Figure, TextA, ItemL>>, <<Head1, TextA, ItemL, Figure, TextB>>, <<Head1, TextA, Figure>>,
   <<Head1, TableOf(<<"1", "2">>), TextB>>, <<Head1, TableOf(<<"1", "3">>), Para("Normal", "i", "italic"), TextB>>,
   <<Head1, TableOf(<<"1", "3", "4">>)>>}

VARIABLES md, plan, docx, docxVerdict, written

companiondocx == <<md, plan, docx, docxVerdict, written>>
CD == INSTANCE CompanionDocx WITH
  Revisions <- SomeRevisions, MaxRevisions <- 3, verdict <- docxVerdict
companiondocxRests ==
  /\ md = <<Head1, TextA>>

-------------------------------------------------------------------------------
(* validate_site.py: two pages, a deck copy, a script and a plan.            *)
GitTree ==
  [page |-> <<"---", "title:", "---", "raw", "codetabs py", "endraw", "codetabs py", "raw", "~~~py", "{{", "~~~", "endraw", "see">>,
   page2 |-> <<"---", "title:", "---", "codetabs py", "~~~~", "see below", "~~~", "~~~~", "see">>,
   deck |-> <<"~~~", "see below", "~~~">>, script |-> <<"dnf remove +", "podman", "podman">>, plan |-> <<"podman">>]
SiteLines ==
  {"", "see", "see below", "raw", "endraw", "{{", "~~~", "~~~~", "~~~py", "codetabs py|go", "---", "title:", "codetabs py",
   "figure lost", "figure mute", "podman", "podman +", "dnf remove +", "stale"}

VARIABLES siteTree, report, siteExit, siteEdits

validatesite == <<siteTree, report, siteExit, siteEdits>>
VS == INSTANCE ValidateSite WITH
  Site <- {"page", "page2"}, Decks <- {"deck"}, History <- {"plan"},
  Tree0 <- GitTree, Lines <- SiteLines, MaxEdits <- 1, tree <- siteTree,
  exit <- siteExit, edits <- siteEdits

-------------------------------------------------------------------------------
(* ci_changed_projects.py: an example with three projects, and what is shared. *)
GitFiles ==
  {<<"examples", "05", "python", "svc", "main.py">>, <<"examples", "05", "python", "svc", "pyproject.toml">>,
   <<"examples", "05", "python", "uv.lock">>, <<"examples", "05", "cpp", "svc", "conanfile.py">>,
   <<"examples", "05", "cpp", "svc", "conan-recipes", "lib", "conanfile.py">>, <<"examples", "05", "proto", "x.proto">>,
   <<"examples", "05", "python", "compose.yaml">>, <<"examples", "05", "k8s", "base.yaml">>,
   <<"examples", "05", "openshift", "route.yaml">>, <<"examples", "05", "db", "schema.sql">>,
   <<"examples", "_infra", "kafka.yaml">>, <<"examples", "05", "python", "pyproject.toml">>,
   <<"examples", "05", "python", "svc", "README.md">>}

VARIABLES pushed, ciTree, selected, ciChanges

ciselect == <<pushed, ciTree, selected, ciChanges>>
CI == INSTANCE CiSelect WITH
  Paths <- CiPaths, NumMissing <- CiMissing, MaxChanges <- MaxCiChanges, tree <- ciTree,
  changes <- ciChanges
CiFirst == CHOOSE S \in CI!kSubset(CiMissing, CiPaths) : TRUE
ciselectRests == pushed = [f \in CiPaths |-> IF f \in CiFirst THEN CI!Absent ELSE [of |-> f, new |-> FALSE]]

(* A project lies below its example, a compose file next to no manifests.    *)
ASSUME CiSelectAssumption ==
  /\ \A f \in CiPaths : f \in Seq(STRING) /\ f # <<>>
  /\ \A f \in CiPaths : f[1] = "examples" /\ CI!Last(f) \in {"conanfile.py", "pyproject.toml"} => Len(f) >= 3
  /\ \A f \in CiPaths : CI!Last(f) = "compose.yaml" /\ Len(f) >= 4 => f[3] \notin {"k8s", "openshift", "db"}

-------------------------------------------------------------------------------
(* host_ids.py: three files, a history of two blobs.                         *)
HostTexts ==
  {<<"/home", "guest", "acct">>, <<"kernel", "nl", "own", "arch">>,
   <<"kernel", "nl", "pin">>, <<"/home", "acct", "/home", "acct", "/repo">>, <<"acct", "/home", "acct", "nl", "acct">>}

VARIABLES hostWork, blobs, emitted, current, clean

hostids == <<hostWork, blobs, emitted, current, clean>>
HI == INSTANCE HostIds WITH
  Files <- {"doc", "pins", "tool"}, Texts <- HostTexts, MaxBlobs <- 2,
  work <- hostWork
hostidsRests ==
  /\ hostWork = [path |-> "doc", text |-> <<"kernel", "nl", "pin">>]

-------------------------------------------------------------------------------
vars == <<tool, decktext, deckedit, codebox, deckaudit, deckfit, fitsuggest, deckfont,
         manifestVars, editmanifest, companiondocx, validatesite, ciselect,
         hostids>>

Init ==
  /\ tool \in {"decktext", "deckedit", "codebox", "deckaudit", "deckfit",
            "fitsuggest", "deckfont", "manifestbuild", "editmanifest",
            "companiondocx", "validatesite", "ciselect", "hostids"}
  /\ tool = "codebox" \/ codeboxRests
  /\ tool = "deckaudit" \/ deckauditRests
  /\ tool = "fitsuggest" \/ fitsuggestRests
  /\ tool = "deckfont" \/ deckfontRests
  /\ tool = "manifestbuild" \/ manifestbuildRests
  /\ tool = "companiondocx" \/ companiondocxRests
  /\ tool = "ciselect" \/ ciselectRests
  /\ tool = "hostids" \/ hostidsRests
  /\ DT!Init /\ DE!Init /\ CB!Init /\ DA!Init /\ DF!Init /\ FS!Init /\ FO!Init
  /\ ManifestInit /\ EM!Init /\ CD!Init /\ VS!Init /\ CI!Init /\ HI!Init

Next ==
  \/ /\ tool = "decktext" /\ DT!Next
     /\ UNCHANGED <<tool, deckedit, codebox, deckaudit, deckfit, fitsuggest,
                   deckfont, manifestVars, editmanifest, companiondocx,
                   validatesite, ciselect, hostids>>
  \/ /\ tool = "deckedit" /\ DE!Next
     /\ UNCHANGED <<tool, decktext, codebox, deckaudit, deckfit, fitsuggest,
                   deckfont, manifestVars, editmanifest, companiondocx,
                   validatesite, ciselect, hostids>>
  \/ /\ tool = "codebox" /\ CB!Next
     /\ UNCHANGED <<tool, decktext, deckedit, deckaudit, deckfit, fitsuggest,
                   deckfont, manifestVars, editmanifest, companiondocx,
                   validatesite, ciselect, hostids>>
  \/ /\ tool = "deckaudit" /\ DA!Next
     /\ UNCHANGED <<tool, decktext, deckedit, codebox, deckfit, fitsuggest,
                   deckfont, manifestVars, editmanifest, companiondocx,
                   validatesite, ciselect, hostids>>
  \/ /\ tool = "deckfit" /\ DF!Next
     /\ UNCHANGED <<tool, decktext, deckedit, codebox, deckaudit, fitsuggest,
                   deckfont, manifestVars, editmanifest, companiondocx,
                   validatesite, ciselect, hostids>>
  \/ /\ tool = "fitsuggest" /\ FS!Next
     /\ UNCHANGED <<tool, decktext, deckedit, codebox, deckaudit, deckfit,
                   deckfont, manifestVars, editmanifest, companiondocx,
                   validatesite, ciselect, hostids>>
  \/ /\ tool = "deckfont" /\ FO!Next
     /\ UNCHANGED <<tool, decktext, deckedit, codebox, deckaudit, deckfit,
                   fitsuggest, manifestVars, editmanifest, companiondocx,
                   validatesite, ciselect, hostids>>
  \/ /\ tool = "manifestbuild" /\ ManifestNext
     /\ UNCHANGED <<tool, decktext, deckedit, codebox, deckaudit, deckfit,
                   fitsuggest, deckfont, editmanifest, companiondocx,
                   validatesite, ciselect, hostids>>
  \/ /\ tool = "editmanifest" /\ EM!Next
     /\ UNCHANGED <<tool, decktext, deckedit, codebox, deckaudit, deckfit,
                   fitsuggest, deckfont, manifestVars, companiondocx,
                   validatesite, ciselect, hostids>>
  \/ /\ tool = "companiondocx" /\ CD!Next
     /\ UNCHANGED <<tool, decktext, deckedit, codebox, deckaudit, deckfit,
                   fitsuggest, deckfont, manifestVars, editmanifest, validatesite,
                   ciselect, hostids>>
  \/ /\ tool = "validatesite" /\ VS!Next
     /\ UNCHANGED <<tool, decktext, deckedit, codebox, deckaudit, deckfit,
                   fitsuggest, deckfont, manifestVars, editmanifest,
                   companiondocx, ciselect, hostids>>
  \/ /\ tool = "ciselect" /\ CI!Next
     /\ UNCHANGED <<tool, decktext, deckedit, codebox, deckaudit, deckfit,
                   fitsuggest, deckfont, manifestVars, editmanifest,
                   companiondocx, validatesite, hostids>>
  \/ /\ tool = "hostids" /\ HI!Next
     /\ UNCHANGED <<tool, decktext, deckedit, codebox, deckaudit, deckfit,
                   fitsuggest, deckfont, manifestVars, editmanifest,
                   companiondocx, validatesite, ciselect>>

Spec == Init /\ [][Next]_vars

-------------------------------------------------------------------------------
(* The variables of every tool keep their shape.                             *)
TypeOK ==
  /\ tool = "decktext" => DT!TypeOK
  /\ tool = "deckedit" => DE!TypeOK
  /\ tool = "codebox" => CB!TypeOK
  /\ tool = "deckaudit" => DA!TypeOK
  /\ tool = "deckfit" => DF!TypeOK
  /\ tool = "fitsuggest" => FS!TypeOK
  /\ tool = "deckfont" => FO!TypeOK
  /\ tool = "manifestbuild" => ManifestTypeOK
  /\ tool = "editmanifest" => EM!TypeOK
  /\ tool = "companiondocx" => CD!TypeOK
  /\ tool = "validatesite" => VS!TypeOK
  /\ tool = "ciselect" => CI!TypeOK
  /\ tool = "hostids" => HI!TypeOK

(* A deck survives every run: it is replaced by a version with all edits     *)
(* applied or not at all, an interrupted run leaves it as deck file or as    *)
(* backup, the backup is of the version that was replaced, and the result is *)
(* the one that was reported (deck_edit.py, deck_font.py).                   *)
DecksAreSafe ==
  /\ [](tool = "deckedit" => DE!DeckIsOnDisk)
  /\ DE!AllOrNothing
  /\ FO!ReplacedDeckIsKept
  /\ FO!ResultAsReported

(* An edit does what it says and no more: pictures resolve, other slides and *)
(* the notes of clones stay, and a code box whose text or size was changed   *)
(* holds its lines (deck_edit.py); what is suggested for a text or a code    *)
(* box is accepted, and grows over no shape the text was clear of, but one   *)
(* across its middle (gen_fit.py).                                           *)
EditsAreExact ==
  /\ [](tool = "deckedit" => DE!PicturesResolve)
  /\ [](tool = "codebox" => CB!CodeFits)
  /\ [](tool = "fitsuggest" => FS!SuggestionsApply)
  /\ DE!OtherSlidesKept
  /\ FS!GrowsIntoFreeSpace

(* The gates miss nothing they are for: what a copy shows as code is code to *)
(* the tools that recolour and audit it, a deck that passes has no emphasis  *)
(* in capitals and no positional term left, comments keep a colour of their  *)
(* own and no edit spoils a box that passed, and CI builds every project     *)
(* that a push concerns.                                                     *)
GatesHold ==
  /\ [](tool = "decktext" => DT!CodeIsCodeToAll)
  /\ [](tool = "deckaudit" => DA!PassedDecksAreClean /\ DA!CodeIsNotReported)
  /\ [](tool = "codebox" => CB!CommentsStandOut)
  /\ CB!AuditStaysClean
  /\ [](tool = "ciselect" => CI!EveryChangeIsBuilt)

(* The repository's own checks miss nothing they are for: tab groups are     *)
(* judged as they render, a page that passes has no expression Liquid would  *)
(* evaluate and no positional term, the old engine is reported, no host      *)
(* identifier survives a scrub or a rewrite of the history.                  *)
RepositoryChecksHold ==
  /\ [](tool = "validatesite" => VS!TabGroupsJudgedAsRendered /\ VS!PassedPagesAreSafe)
  /\ [](tool = "hostids" => HI!HistoryClean)
  /\ VS!PodmanReported
  /\ HI!OnePassCleans

(* What the other tools make of a text is what was meant: each script that   *)
(* amends a manifest can be run again, no vendor is named in what they make  *)
(* of the deck, and folding the fit plan makes the deck that the same edits  *)
(* would make (amend_*.py, gen_fit.py); a copy that passed shows every shape *)
(* and paragraph in the order of its deck (deck_text.py); the fit check      *)
(* flags every shape whose text ends outside its frame and no slide whose    *)
(* texts fit (deck_fit.py); a cut takes out its lines and no other; a        *)
(* rebuilt paragraph shows the spans of its revision, and only tables that   *)
(* change their shape end with "result differs" (companion_docx.py).         *)
TextsFit ==
  /\ [](tool = "editmanifest" => EM!ScriptsAreIdempotent /\ EM!VendorNeutral /\ EM!FitFoldsAsApplied)
  /\ [](tool = "decktext" => DT!CheckedCopiesComplete /\ DT!CopyReadsAsSource)
  /\ [](tool = "companiondocx" => CD!OnlyTablesDiffer)
  /\ DF!OverflowsFlagged
  /\ DF!FittingSlidesPass
  /\ CB!CutExact
  /\ CD!NewTextShowsItsSpans
===============================================================================
