------------------------------ MODULE CiSelect -------------------------------
(* src/scripts/ci_changed_projects.py, as the `changes` job runs it for a    *)
(* push to main: which projects CI builds for a change of the tree. A path   *)
(* is a sequence of names, the tree a function from paths to contents.       *)
EXTENDS Naturals, SequencesExt, FiniteSetsExt

CONSTANTS
  Paths,        \* paths that a tree may hold
  NumMissing,   \* how many of them the tree of main does not hold
  MaxChanges    \* bound on the changes of one push

VARIABLES
  pushed,     \* the tree of main before the push
  tree,       \* the tree that is pushed: path -> content
  selected,   \* what CI builds, once the run of the push has ended
  changes     \* changes so far, for MaxChanges

vars == <<pushed, tree, selected, changes>>

(* A content is the path it was written for and whether it was changed.      *)
Absent == [of |-> <<>>, new |-> FALSE]
NotYet == {"not yet"}

Files(t) == {f \in Paths : t[f] # Absent}
Tracked(t) == {f \in Files(t) : f[1] = "examples"}
Dir(f) == SubSeq(f, 1, Len(f) - 1)

MARKERS == [cpp |-> "conanfile.py", python |-> "pyproject.toml"]
Kinds == DOMAIN MARKERS
KindsOfLang(lang) == IF lang \in Kinds THEN {lang} ELSE {}
K8S_KIND_DIRS == {"k8s", "openshift"}
Inert(f) == Last(f) = "README.md" \/ \E i \in 3..(Len(f) - 1) : f[i] = "db"

(* is_project(), all_projects(), k8s_dirs()                                  *)
IsProject(t, d, kind) ==
  "conan-recipes" \notin Range(d) /\ \E f \in Files(t) : Dir(f) = d /\ Last(f) = MARKERS[kind]
AllProjects(t, kind, under) ==
  {d \in {Dir(f) : f \in Tracked(t)} : IsPrefix(under, d) /\ IsProject(t, d, kind)}
K8sDirs(t) ==
  {SubSeq(f, 1, 3) : f \in {g \in Tracked(t) : Len(g) >= 4 /\ g[3] \in K8S_KIND_DIRS}}

Items(kind, dirs) == {<<kind, d>> : d \in dirs}

(* select_everything()                                                       *)
SelectEverything(t) ==
  (UNION {Items(kind, AllProjects(t, kind, <<"examples">>)) : kind \in Kinds})
    \cup Items("k8s", K8sDirs(t))
    \cup Items("file", {f \in Tracked(t) : Last(f) = "compose.yaml" /\ f[2] # "_infra"})

(* nearest_project(): the deepest directory above the file that is one.      *)
NearestProject(t, f, kind) ==
  LET dirs == {d \in {SubSeq(f, 1, n) : n \in 2..(Len(f) - 1)} : IsProject(t, d, kind)}
  IN  {d \in dirs : \A e \in dirs : Len(e) <= Len(d)}

(* select_for_changes(), for one file that changed; openshift renders the    *)
(* k8s manifests, and both render the schema.                                *)
Manifests(t, f) ==
  LET dirs == IF f[3] = "openshift" THEN {"openshift"} ELSE K8S_KIND_DIRS
  IN  Items("k8s", {SubSeq(f, 1, 2) \o <<d>> : d \in dirs} \cap K8sDirs(t))
BelowNoProject_LangOnly(t, f) ==
  UNION {Items(kind, AllProjects(t, kind, SubSeq(f, 1, 3))) : kind \in KindsOfLang(f[3])}
BelowNoProject(t, f) ==
  IF Len(f) > 3 /\ KindsOfLang(f[3]) # {}
  THEN UNION {Items(kind, AllProjects(t, kind, SubSeq(f, 1, 3))) : kind \in KindsOfLang(f[3])}
  ELSE UNION {Items(kind, AllProjects(t, kind, SubSeq(f, 1, 2))) : kind \in Kinds}

SelectForChange(t, f) ==
  LET nearest == UNION {Items(kind, NearestProject(t, f, kind)) : kind \in Kinds}
  IN  IF f[1] # "examples" THEN {}
      ELSE IF Last(f) = "compose.yaml" THEN Items("file", {f} \cap Files(t))
      ELSE IF Len(f) >= 4 /\ f[3] = "db" THEN Manifests(t, f)
      ELSE IF Len(f) >= 4 /\ f[3] \in K8S_KIND_DIRS THEN IF Last(f) = "README.md" THEN {} ELSE Manifests(t, f)
      ELSE IF Inert(f) THEN {}
      ELSE IF nearest # {} \/ Len(f) < 3 THEN nearest ELSE BelowNoProject(t, f)

Triggers(f) == f[1] = "examples" /\ f[2] = "_infra"

(* git diff --name-only: a file that was moved shows as its new path only.   *)
Changed(before, after) == {f \in Paths : before[f] # after[f]}
MovedAway(before, after) ==
  {f \in Files(before) \ Files(after) : \E g \in Files(after) \ Files(before) : after[g] = before[f]}
ChangedFiles(before, after) == Changed(before, after) \ MovedAway(before, after)

Select(before, after) ==
  LET changed == ChangedFiles(before, after)
  IN  IF \E f \in changed : Triggers(f) THEN SelectEverything(after)
      ELSE UNION {SelectForChange(after, f) : f \in changed}

-----------------------------------------------------------------------------
TypeOK ==
  /\ DOMAIN tree = Paths /\ DOMAIN pushed = Paths
  /\ changes \in 0..MaxChanges
  /\ selected = NotYet \/ selected \subseteq SelectEverything(tree)

Init ==
  /\ \E missing \in kSubset(NumMissing, Paths) :
       pushed = [f \in Paths |-> IF f \in missing THEN Absent ELSE [of |-> f, new |-> FALSE]]
  /\ tree = pushed
  /\ selected = NotYet /\ changes = 0

(* The author edits the tree.                                                *)
Change(t) ==
  /\ selected = NotYet
  /\ changes < MaxChanges /\ changes' = changes + 1
  /\ tree' = t
  /\ UNCHANGED <<pushed, selected>>
Write(f) == Change([tree EXCEPT ![f] = [of |-> f, new |-> TRUE]])
Delete(f) == f \in Files(tree) /\ Change([tree EXCEPT ![f] = Absent])
Move(f, g) ==
  f \in Files(tree) /\ g \notin Files(tree) /\ Change([tree EXCEPT ![g] = tree[f], ![f] = Absent])

(* The push, and main() in its run.                                          *)
RunSelect ==
  /\ selected = NotYet /\ tree # pushed
  /\ selected' = Select(pushed, tree)
  /\ UNCHANGED <<pushed, tree, changes>>

Next ==
  \/ \E f \in Paths : Write(f) \/ Delete(f)
  \/ \E f, g \in Paths : Move(f, g)
  \/ RunSelect

Spec == Init /\ [][Next]_vars

-----------------------------------------------------------------------------
(* What the build of an item reads: a project its directory, and whatever    *)
(* its language or its example holds outside every project; manifests what   *)
(* their directory holds and the schema of the example, and those of         *)
(* openshift the ones of k8s too.                                            *)
InNoProject(t, f) == \A kind \in Kinds : NearestProject(t, f, kind) = {}
Source(f) == ~Inert(f) /\ Last(f) # "compose.yaml" /\ f[3] \notin K8S_KIND_DIRS
Shared(t, kind, d, f) ==
  /\ IsPrefix(SubSeq(d, 1, 2), f) /\ InNoProject(t, f)
  /\ Len(f) > 3 /\ f[3] \in Kinds => f[3] = kind /\ IsPrefix(SubSeq(f, 1, 3), d)
Reads(t, item) ==
  LET d == item[2]
      Manifest(dir) == {f \in Paths : IsStrictPrefix(dir, f) /\ Last(f) # "README.md"}
      example == SubSeq(d, 1, 2)
  IN  CASE item[1] = "file" -> {d}
        [] item[1] = "k8s" ->
             Manifest(d) \cup Manifest(example \o <<"db">>)
               \cup (IF d[3] = "openshift" THEN Manifest(example \o <<"k8s">>) ELSE {})
        [] OTHER -> {f \in Paths : Len(f) >= 3 /\ Source(f)
                                  /\ (NearestProject(t, f, item[1]) = {d} \/ Shared(t, item[1], d, f))}

(* Nothing that a push changes is left unbuilt: every project and manifest   *)
(* that reads a file the push wrote or deleted is selected, unless all that  *)
(* it lost was moved out of it (git names a moved file by its new path).     *)
EveryChangeIsBuilt ==
  selected # NotYet =>
    \A item \in SelectEverything(tree) \ selected :
      Reads(tree, item) \cap Changed(pushed, tree) \subseteq MovedAway(pushed, tree)
=============================================================================
