------------------------------ MODULE Analyzer ------------------------------
(***************************************************************************)
(* analyze_repo: RepoAnalyzer walks the directories of a clone and reports *)
(* a service for each that it knows how to build.  The walk is recursive;  *)
(* here its calls are a stack, the innermost first.  A shipzen.yaml that   *)
(* is not valid raises, and the except clause around the caller's loop     *)
(* over its subdirectories swallows what the call raised, and with it the  *)
(* rest of that loop.  The order of iterdir() is the file system's.        *)
(***************************************************************************)
EXTENDS Naturals, Sequences, FiniteSets

CONSTANTS Dirs, Root,
          Repositories   \* what a clone may be: a set of records of
                         \*   up       the parent of each directory
                         \*   files    the marker files it holds
                         \*   config   its shipzen.yaml
                         \*   skipped  directories whose name is hidden or
                         \*            in EXCLUDED_DIRS

Markers == {"Dockerfile", "package.json", "python", "go.mod", "pom.xml", "index.html",
            "railpack"}

Builders == {"dockerfile", "buildpacks", "go", "maven", "static", "railpack"}

(* none stands for a valid file without builder, too.  *)
Configs == Builders \cup {"none", "auto", "invalid"}

(* The directories of a clone are a tree: who goes up comes to the root,   *)
(* which stands for its own parent.  (Symbolic links are left out.)        *)
ASSUME RepositoryAssumption ==
    /\ Root \in Dirs
    /\ Repositories \subseteq [up : [Dirs -> Dirs], files : [Dirs -> SUBSET Markers],
                               config : [Dirs -> Configs], skipped : SUBSET Dirs]
    /\ \A r \in Repositories :
           /\ r.up[Root] = Root
           /\ \A S \in (SUBSET Dirs) \ {{}} : (\A d \in S : r.up[d] \in S) => Root \in S

VARIABLES repo,
          outcome,       \* of the request: cloning, walking, listed or refused
          stack,         \* calls of walk_path: the directory, and its
                         \* subdirectories the loop has still to come to
          services       \* directory and type of what was found

vars == <<repo, outcome, stack, services>>

TypeOK == /\ repo \in Repositories
          /\ outcome \in {"cloning", "walking", "listed", "refused"}
          /\ stack \in Seq([dir : Dirs, left : SUBSET Dirs])
          /\ services \subseteq [dir : Dirs, type : Builders]

Init == repo \in Repositories /\ outcome = "cloning" /\ stack = <<>> /\ services = {}

-----------------------------------------------------------------------------
Candidate(type, confidence) == [type |-> type, confidence |-> confidence]

(* The candidates for a directory with these files, in the order in which  *)
(* they are appended, with their confidence in percent; "python" is any of *)
(* requirements.txt, pyproject.toml and manage.py, "railpack" any of       *)
(* composer.json, index.php and Gemfile.  Name and framework are left out. *)
Candidates(files) ==
    LET when(condition, candidate) == IF condition THEN <<candidate>> ELSE <<>>
    IN  when("Dockerfile" \in files, Candidate("dockerfile", 100))
        \o when("package.json" \in files \/ "python" \in files, Candidate("buildpacks", 85))
        \o when("go.mod" \in files /\ "Dockerfile" \notin files, Candidate("go", 90))
        \o when("pom.xml" \in files /\ "Dockerfile" \notin files /\ "go.mod" \notin files,
                Candidate("maven", 88))
        \o when("index.html" \in files
                /\ files \cap {"package.json", "python", "go.mod", "pom.xml"} = {},
                Candidate("static", 70))
        \o when("railpack" \in files, Candidate("railpack", 85))

(* Mutant: the last of the candidates that are equally likely.             *)
LastBest(candidates) ==
    LET i == CHOOSE i \in 1..Len(candidates) :
                 \A j \in 1..Len(candidates) :
                     \/ candidates[i].confidence > candidates[j].confidence
                     \/ candidates[i].confidence = candidates[j].confidence /\ i >= j
    IN  candidates[i].type

(* The first after a stable sort by descending confidence.  *)
Best(candidates) ==
    LET i == CHOOSE i \in 1..Len(candidates) :
                 \A j \in 1..Len(candidates) :
                     \/ candidates[i].confidence > candidates[j].confidence
                     \/ candidates[i].confidence = candidates[j].confidence /\ i <= j
    IN  candidates[i].type

Buildable(d) == Candidates(repo.files[d]) # <<>>

(* Mutant: builder: auto is taken for the name of a builder.  *)
TypeOrAuto(d) == IF repo.config[d] # "none" THEN repo.config[d]
                                            ELSE Best(Candidates(repo.files[d]))

Type(d) == IF repo.config[d] \in Builders THEN repo.config[d]
                                          ELSE Best(Candidates(repo.files[d]))

Found(d) == IF Buildable(d) THEN {[dir |-> d, type |-> Type(d)]} ELSE {}

Children(d) == {c \in Dirs \ {Root} : repo.up[c] = d}

Frame(d) == [dir |-> d, left |-> Children(d)]

-----------------------------------------------------------------------------
(* git clone, and the call for the root, whose exception nobody swallows.  *)
WalkRoot ==
    /\ outcome = "cloning"
    /\ \/ /\ outcome' = "refused"
          /\ UNCHANGED <<stack, services>>
       \/ /\ repo.config[Root] # "invalid"
          /\ outcome' = "walking"
          /\ stack' = <<Frame(Root)>> /\ services' = Found(Root)
    /\ UNCHANGED repo

(* The loop of the innermost call comes to subdirectory d.  *)
ComesTo(d) == outcome = "walking" /\ stack # <<>> /\ d \in Head(stack).left

Rest(d) == <<[Head(stack) EXCEPT !.left = @ \ {d}]>> \o Tail(stack)

SkipDir(d) == /\ ComesTo(d) /\ d \in repo.skipped
              /\ stack' = Rest(d)
              /\ UNCHANGED <<repo, outcome, services>>

WalkDir(d) == /\ ComesTo(d) /\ d \notin repo.skipped /\ repo.config[d] # "invalid"
              /\ stack' = <<Frame(d)>> \o Rest(d)
              /\ services' = services \cup Found(d)
              /\ UNCHANGED <<repo, outcome>>

(* Mutant: no except clause but the one of the outermost call.             *)
RaiseToRoot(d) == /\ ComesTo(d) /\ d \notin repo.skipped /\ repo.config[d] = "invalid"
                  /\ stack' = <<>>
                  /\ UNCHANGED <<repo, outcome, services>>

(* The call for d raises, and ends the loop it was made from.  *)
RaiseInvalid(d) == /\ ComesTo(d) /\ d \notin repo.skipped /\ repo.config[d] = "invalid"
                   /\ stack' = Tail(stack)
                   /\ UNCHANGED <<repo, outcome, services>>

Return == /\ outcome = "walking" /\ stack # <<>> /\ Head(stack).left = {}
          /\ stack' = Tail(stack)
          /\ UNCHANGED <<repo, outcome, services>>

Answer == /\ outcome = "walking" /\ stack = <<>>
          /\ outcome' = "listed"
          /\ UNCHANGED <<repo, stack, services>>

Next == \/ WalkRoot \/ Return \/ Answer
        \/ \E d \in Dirs : SkipDir(d) \/ WalkDir(d) \/ RaiseInvalid(d)

Spec == Init /\ [][Next]_vars

-----------------------------------------------------------------------------
(* The reference: which directories are part of the repository, and what   *)
(* the choice among the candidates amounts to.                             *)

(* d and the directories above it.  *)
Path(d) == {a \in Dirs : \A S \in SUBSET Dirs :
                            d \in S /\ (\A x \in S : repo.up[x] \in S) => a \in S}

Visible(d) == Path(d) \cap repo.skipped \subseteq {Root}

Preference == <<<<"dockerfile", {"Dockerfile"}>>, <<"go", {"go.mod"}>>, <<"maven", {"pom.xml"}>>,
                <<"buildpacks", {"package.json", "python"}>>, <<"railpack", {"railpack"}>>,
                <<"static", {"index.html"}>>>>

Preferred(files) ==
    LET i == CHOOSE i \in 1..Len(Preference) :
                 /\ Preference[i][2] \cap files # {}
                 /\ \A j \in 1..(i - 1) : Preference[j][2] \cap files = {}
    IN  Preference[i][1]

(* What is reported is a visible directory with a marker file, with the    *)
(* builder its shipzen.yaml names or else the first of dockerfile, go,     *)
(* maven, buildpacks, railpack and static that fits.                       *)
ReportedRight ==
    \A s \in services :
        /\ Visible(s.dir) /\ repo.files[s.dir] # {} /\ repo.config[s.dir] # "invalid"
        /\ s.type = IF repo.config[s.dir] \in Builders THEN repo.config[s.dir]
                    ELSE Preferred(repo.files[s.dir])

(* A visible directory with a marker file is reported unless the           *)
(* shipzen.yaml of it, of one above it, or of one beside any of these, is  *)
(* not valid: an invalid file hides no more than its own directory's and   *)
(* its siblings' trees, and nothing at all when every file is valid.       *)
MissedBesideInvalid ==
    outcome = "listed" =>
        \A d \in Dirs : Visible(d) /\ repo.files[d] # {} =>
            \/ \E s \in services : s.dir = d
            \/ \E a \in Path(d) \ {Root}, b \in Dirs \ {Root} :
                   repo.up[b] = repo.up[a] /\ b \notin repo.skipped /\ repo.config[b] = "invalid"
=============================================================================
