--------------------------- MODULE AnalyzerProofs ---------------------------
(***************************************************************************)
(* The analyzer reports what it should, and misses nothing but beside an   *)
(* invalid shipzen.yaml, for every repository that is a tree and every     *)
(* order of the file system.  (The model has no limit on the recursion;    *)
(* Python has, and analyzer.py:180 swallows the error it raises.)          *)
(*                                                                         *)
(*   Candidates, Best    the stable sort by confidence amounts to a fixed  *)
(*                       order of preference                               *)
(*   Path                the directories above one, without recursion      *)
(*   WalkInv             the stack of calls: what is still to be visited   *)
(*                       is below what a loop has still to come to         *)
(***************************************************************************)
EXTENDS Analyzer, SequenceTheorems, TLAPS

Offers == [type : Builders, confidence : Nat]

Has(s, e) == \E i \in 1..Len(s) : s[i] = e

Distinct(s) == \A i, j \in 1..Len(s) : s[i] = s[j] => i = j

(***************************************************************************)
(* The choice among the candidates.                                        *)
(***************************************************************************)

(* candidates.append under a condition.                                    *)
LEMMA Appended ==
    ASSUME NEW s \in Seq(Offers), NEW e \in Offers, NEW condition \in BOOLEAN,
           Distinct(s), ~Has(s, e)
    PROVE  LET u == s \o (IF condition THEN <<e>> ELSE <<>>)
           IN  /\ u \in Seq(Offers) /\ Distinct(u)
               /\ \A x : Has(u, x) <=> Has(s, x) \/ (condition /\ x = e)
               /\ condition => u[Len(u)] = e
<1> DEFINE u == s \o (IF condition THEN <<e>> ELSE <<>>)
<1>1. CASE condition
  <2>1. u = s \o <<e>> /\ <<e>> \in Seq(Offers) /\ Len(<<e>>) = 1 /\ <<e>>[1] = e
    BY <1>1
  <2>2. /\ u \in Seq(Offers) /\ Len(u) = Len(s) + 1 /\ Len(s) \in Nat
        /\ \A i \in 1..Len(s) + 1 : u[i] = IF i <= Len(s) THEN s[i] ELSE <<e>>[i - Len(s)]
    BY <2>1, ConcatProperties, LenProperties
  <2> HIDE DEF u
  <2>3. u[Len(s) + 1] = e /\ \A i \in 1..Len(s) : u[i] = s[i]
    BY <2>1, <2>2
  <2>4. \A i \in 1..Len(u) : i \in 1..Len(s) \/ i = Len(s) + 1
    BY <2>2
  <2>5. \A x : Has(u, x) <=> Has(s, x) \/ x = e
    <3>1. ASSUME NEW x, NEW i \in 1..Len(u), u[i] = x PROVE Has(s, x) \/ x = e
      BY <2>3, <2>4, <3>1 DEF Has
    <3>2. ASSUME NEW i \in 1..Len(s) PROVE Has(u, s[i])
      BY <2>2, <2>3 DEF Has
    <3>3. Has(u, e)
      <4>1. Len(s) + 1 \in 1..Len(u)
        BY <2>2
      <4> QED BY <2>3, <4>1 DEF Has
    <3> QED BY <3>1, <3>2, <3>3 DEF Has
  <2>6. Distinct(u)
    BY <2>2, <2>3, <2>4 DEF Distinct, Has
  <2> QED BY <1>1, <2>2, <2>3, <2>5, <2>6 DEF u
<1>2. CASE ~condition
  <2>1. u = s
    BY <1>2, ConcatEmptySeq
  <2> QED BY <1>2, <2>1
<1> QED BY <1>1, <1>2

(* What stands before all others of its confidence, and above the rest, is *)
(* the best.                                                               *)
LEMMA BestIs ==
    ASSUME NEW c \in Seq(Offers), NEW i \in 1..Len(c),
           \A j \in 1..Len(c) : j # i => \/ c[i].confidence > c[j].confidence
                                         \/ c[i].confidence = c[j].confidence /\ i < j
    PROVE  Best(c) = c[i].type
<1> DEFINE IsBest(n) == \A j \in 1..Len(c) : \/ c[n].confidence > c[j].confidence
                                             \/ c[n].confidence = c[j].confidence /\ n <= j
<1>1. \A n \in 1..Len(c) : c[n].confidence \in Nat /\ n \in Nat
  <2>1. \A n \in 1..Len(c) : c[n] \in Offers
    BY ElementOfSeq
  <2> QED BY <2>1 DEF Offers
<1>2. IsBest(i)
  BY <1>1
<1>3. ASSUME NEW n \in 1..Len(c), IsBest(n) PROVE n = i
  BY <1>1, <1>3
<1> DEFINE k == CHOOSE n \in 1..Len(c) : IsBest(n)
<1>4. k = i
  <2>1. k \in 1..Len(c) /\ IsBest(k)
    BY <1>2
  <2> HIDE DEF k
  <2> QED BY <1>3, <2>1
<1> HIDE DEF IsBest
<1>5. Best(c) = c[k].type
  BY DEF Best, IsBest
<1> QED BY <1>4, <1>5

LEMMA PreferredIs ==
    ASSUME NEW files, NEW i \in 1..6, Preference[i][2] \cap files # {},
           \A j \in 1..(i - 1) : Preference[j][2] \cap files = {}
    PROVE  Preferred(files) = Preference[i][1]
<1> DEFINE First(n) == /\ Preference[n][2] \cap files # {}
                       /\ \A j \in 1..(n - 1) : Preference[j][2] \cap files = {}
           k == CHOOSE n \in 1..Len(Preference) : First(n)
<1>1. Len(Preference) = 6
  BY DEF Preference
<1>2. k \in 1..6 /\ First(k)
  BY <1>1
<1>3. k = i
  <2> HIDE DEF k
  <2>1. ~(k < i)
    <3>1. k < i => k \in 1..(i - 1)
      BY <1>2
    <3> QED BY <1>2, <3>1
  <2>2. ~(i < k)
    <3>1. i < k => i \in 1..(k - 1)
      BY <1>2
    <3> QED BY <1>2, <3>1
  <2> QED BY <1>2, <2>1, <2>2
<1>4. Preferred(files) = Preference[k][1]
  BY DEF Preferred
<1> QED BY <1>3, <1>4

Dockerfile == Candidate("dockerfile", 100)
Buildpacks == Candidate("buildpacks", 85)
Go == Candidate("go", 90)
Maven == Candidate("maven", 88)
Static == Candidate("static", 70)
Railpack == Candidate("railpack", 85)

(* Which candidates there are, and railpack after all others.              *)
LEMMA CandidatesAre ==
    ASSUME NEW files
    PROVE  LET c == Candidates(files)
           IN  /\ c \in Seq(Offers) /\ Distinct(c)
               /\ \A x : Has(c, x) <=>
                      \/ x = Dockerfile /\ "Dockerfile" \in files
                      \/ x = Buildpacks /\ ("package.json" \in files \/ "python" \in files)
                      \/ x = Go /\ "go.mod" \in files /\ "Dockerfile" \notin files
                      \/ /\ x = Maven /\ "pom.xml" \in files
                         /\ "Dockerfile" \notin files /\ "go.mod" \notin files
                      \/ /\ x = Static /\ "index.html" \in files
                         /\ files \cap {"package.json", "python", "go.mod", "pom.xml"} = {}
                      \/ x = Railpack /\ "railpack" \in files
               /\ "railpack" \in files => c[Len(c)] = Railpack
<1> DEFINE p1 == "Dockerfile" \in files
           p2 == "package.json" \in files \/ "python" \in files
           p3 == "go.mod" \in files /\ "Dockerfile" \notin files
           p4 == "pom.xml" \in files /\ "Dockerfile" \notin files /\ "go.mod" \notin files
           p5 == /\ "index.html" \in files
                 /\ files \cap {"package.json", "python", "go.mod", "pom.xml"} = {}
           p6 == "railpack" \in files
           s1 == <<>> \o (IF p1 THEN <<Dockerfile>> ELSE <<>>)
           s2 == s1 \o (IF p2 THEN <<Buildpacks>> ELSE <<>>)
           s3 == s2 \o (IF p3 THEN <<Go>> ELSE <<>>)
           s4 == s3 \o (IF p4 THEN <<Maven>> ELSE <<>>)
           s5 == s4 \o (IF p5 THEN <<Static>> ELSE <<>>)
           s6 == s5 \o (IF p6 THEN <<Railpack>> ELSE <<>>)
<1>1. /\ Dockerfile \in Offers /\ Buildpacks \in Offers /\ Go \in Offers
      /\ Maven \in Offers /\ Static \in Offers /\ Railpack \in Offers
  BY DEF Offers, Candidate, Builders, Dockerfile, Buildpacks, Go, Maven, Static, Railpack
<1>2. /\ Dockerfile \notin {Buildpacks, Go, Maven, Static, Railpack}
      /\ Buildpacks \notin {Go, Maven, Static, Railpack} /\ Go \notin {Maven, Static, Railpack}
      /\ Maven \notin {Static, Railpack} /\ Static # Railpack
  BY DEF Candidate, Dockerfile, Buildpacks, Go, Maven, Static, Railpack
<1>3. /\ p1 \in BOOLEAN /\ p2 \in BOOLEAN /\ p3 \in BOOLEAN /\ p4 \in BOOLEAN /\ p5 \in BOOLEAN
      /\ p6 \in BOOLEAN
  OBVIOUS
<1>4. Candidates(files) = s6
  <2>1. <<>> \o (IF p1 THEN <<Dockerfile>> ELSE <<>>) = IF p1 THEN <<Dockerfile>> ELSE <<>>
    <3>1. (IF p1 THEN <<Dockerfile>> ELSE <<>>) \in Seq(Offers)
      BY <1>1
    <3> QED BY <3>1, ConcatEmptySeq
  <2> QED BY <2>1 DEF Candidates, Dockerfile, Buildpacks, Go, Maven, Static, Railpack
<1>5. <<>> \in Seq(Offers) /\ Distinct(<<>>) /\ \A x : ~Has(<<>>, x)
  BY EmptySeq DEF Distinct, Has
<1> HIDE DEF p1, p2, p3, p4, p5, p6
<1>6. s1 \in Seq(Offers) /\ Distinct(s1) /\ \A x : Has(s1, x) <=> p1 /\ x = Dockerfile
  BY <1>1, <1>3, <1>5, Appended
<1> HIDE DEF s1
<1>7. /\ s2 \in Seq(Offers) /\ Distinct(s2)
      /\ \A x : Has(s2, x) <=> Has(s1, x) \/ (p2 /\ x = Buildpacks)
  BY <1>1, <1>2, <1>3, <1>6, Appended
<1> HIDE DEF s2
<1>8. /\ s3 \in Seq(Offers) /\ Distinct(s3)
      /\ \A x : Has(s3, x) <=> Has(s2, x) \/ (p3 /\ x = Go)
  BY <1>1, <1>2, <1>3, <1>6, <1>7, Appended
<1> HIDE DEF s3
<1>9. /\ s4 \in Seq(Offers) /\ Distinct(s4)
      /\ \A x : Has(s4, x) <=> Has(s3, x) \/ (p4 /\ x = Maven)
  BY <1>1, <1>2, <1>3, <1>6, <1>7, <1>8, Appended
<1> HIDE DEF s4
<1>10. /\ s5 \in Seq(Offers) /\ Distinct(s5)
       /\ \A x : Has(s5, x) <=> Has(s4, x) \/ (p5 /\ x = Static)
  BY <1>1, <1>2, <1>3, <1>6, <1>7, <1>8, <1>9, Appended
<1> HIDE DEF s5
<1>11. /\ s6 \in Seq(Offers) /\ Distinct(s6)
       /\ \A x : Has(s6, x) <=> Has(s5, x) \/ (p6 /\ x = Railpack)
       /\ p6 => s6[Len(s6)] = Railpack
  BY <1>1, <1>2, <1>3, <1>6, <1>7, <1>8, <1>9, <1>10, Appended
<1> HIDE DEF s6
<1>12. \A x : Has(s6, x) <=> \/ x = Dockerfile /\ p1
                             \/ x = Buildpacks /\ p2
                             \/ x = Go /\ p3
                             \/ x = Maven /\ p4
                             \/ x = Static /\ p5
                             \/ x = Railpack /\ p6
  BY <1>6, <1>7, <1>8, <1>9, <1>10, <1>11
<1>13. s6 \in Seq(Offers) /\ Distinct(s6) /\ (p6 => s6[Len(s6)] = Railpack)
  BY <1>11
<1> QED BY <1>4, <1>12, <1>13 DEF p1, p2, p3, p4, p5, p6

(* A candidate above all others wins wherever it stands.                   *)
LEMMA HighestWins ==
    ASSUME NEW c \in Seq(Offers), Distinct(c), NEW e \in Offers, Has(c, e),
           \A x \in Offers : Has(c, x) /\ x # e => e.confidence > x.confidence
    PROVE  Best(c) = e.type /\ c # <<>>
<1>1. PICK i \in 1..Len(c) : c[i] = e
  BY DEF Has
<1>2. ASSUME NEW j \in 1..Len(c), j # i PROVE c[i].confidence > c[j].confidence
  <2>1. c[j] # e /\ c[j] \in Offers /\ Has(c, c[j])
    BY <1>1, <1>2, ElementOfSeq DEF Distinct, Has
  <2> QED BY <1>1, <2>1
<1> QED BY <1>1, <1>2, BestIs, EmptySeq

(* Whichever marker files a directory holds, the stable sort picks by the  *)
(* fixed order of preference; without any there is nothing to pick.        *)
LEMMA BestIsPreferred ==
    ASSUME NEW files \in SUBSET Markers
    PROVE  /\ Candidates(files) # <<>> <=> files # {}
           /\ files # {} => /\ Best(Candidates(files)) = Preferred(files)
                            /\ Preferred(files) \in Builders
<1> DEFINE c == Candidates(files)
<1>1. /\ c \in Seq(Offers) /\ Distinct(c)
      /\ \A x : Has(c, x) <=>
             \/ x = Dockerfile /\ "Dockerfile" \in files
             \/ x = Buildpacks /\ ("package.json" \in files \/ "python" \in files)
             \/ x = Go /\ "go.mod" \in files /\ "Dockerfile" \notin files
             \/ /\ x = Maven /\ "pom.xml" \in files
                /\ "Dockerfile" \notin files /\ "go.mod" \notin files
             \/ /\ x = Static /\ "index.html" \in files
                /\ files \cap {"package.json", "python", "go.mod", "pom.xml"} = {}
             \/ x = Railpack /\ "railpack" \in files
      /\ "railpack" \in files => c[Len(c)] = Railpack
  BY CandidatesAre
<1> HIDE DEF c
<1>2. /\ Dockerfile.type = "dockerfile" /\ Dockerfile.confidence = 100
      /\ Buildpacks.type = "buildpacks" /\ Buildpacks.confidence = 85
      /\ Go.type = "go" /\ Go.confidence = 90
      /\ Maven.type = "maven" /\ Maven.confidence = 88
      /\ Static.type = "static" /\ Static.confidence = 70
      /\ Railpack.type = "railpack" /\ Railpack.confidence = 85
      /\ {Dockerfile, Buildpacks, Go, Maven, Static, Railpack} \subseteq Offers
  BY DEF Candidate, Dockerfile, Buildpacks, Go, Maven, Static, Railpack, Offers, Builders
<1>3. /\ Preference[1] = <<"dockerfile", {"Dockerfile"}>>
      /\ Preference[2] = <<"go", {"go.mod"}>>
      /\ Preference[3] = <<"maven", {"pom.xml"}>>
      /\ Preference[4] = <<"buildpacks", {"package.json", "python"}>>
      /\ Preference[5] = <<"railpack", {"railpack"}>>
      /\ Preference[6] = <<"static", {"index.html"}>>
  BY DEF Preference
<1>4. ASSUME NEW i \in 1..6, Preference[i][2] \cap files # {},
             \A j \in 1..(i - 1) : Preference[j][2] \cap files = {}
      PROVE  Preferred(files) = Preference[i][1]
  BY <1>4, PreferredIs
<1>5. CASE "Dockerfile" \in files
  <2>1. Preferred(files) = "dockerfile"
    BY <1>3, <1>4, <1>5
  <2>2. Best(c) = "dockerfile" /\ c # <<>>
    <3>1. Has(c, Dockerfile)
      BY <1>1, <1>5
    <3>2. ASSUME NEW x \in Offers, Has(c, x), x # Dockerfile PROVE 100 > x.confidence
      <4>1. x \in {Buildpacks, Go, Maven, Static, Railpack}
        BY <1>1, <3>2
      <4> QED BY <1>2, <4>1
    <3> QED BY <1>1, <1>2, <3>1, <3>2, HighestWins
  <2> QED BY <1>5, <2>1, <2>2 DEF Builders, c
<1>6. CASE "Dockerfile" \notin files /\ "go.mod" \in files
  <2>1. Preferred(files) = "go"
    <3>1. \A j \in 1..(2 - 1) : Preference[j][2] \cap files = {}
      BY <1>3, <1>6
    <3> QED BY <1>3, <1>4, <1>6, <3>1
  <2>2. Best(c) = "go" /\ c # <<>>
    <3>1. Has(c, Go)
      BY <1>1, <1>6
    <3>2. ASSUME NEW x \in Offers, Has(c, x), x # Go PROVE 90 > x.confidence
      <4>1. x \in {Buildpacks, Railpack}
        BY <1>1, <1>6, <3>2
      <4> QED BY <1>2, <4>1
    <3> QED BY <1>1, <1>2, <3>1, <3>2, HighestWins
  <2> QED BY <1>6, <2>1, <2>2 DEF Builders, c
<1>7. CASE "Dockerfile" \notin files /\ "go.mod" \notin files /\ "pom.xml" \in files
  <2>1. Preferred(files) = "maven"
    <3>1. \A j \in 1..(3 - 1) : j = 1 \/ j = 2
      OBVIOUS
    <3>2. \A j \in 1..(3 - 1) : Preference[j][2] \cap files = {}
      BY <1>3, <1>7, <3>1
    <3> QED BY <1>3, <1>4, <1>7, <3>2
  <2>2. Best(c) = "maven" /\ c # <<>>
    <3>1. Has(c, Maven)
      BY <1>1, <1>7
    <3>2. ASSUME NEW x \in Offers, Has(c, x), x # Maven PROVE 88 > x.confidence
      <4>1. x \in {Buildpacks, Railpack}
        BY <1>1, <1>7, <3>2
      <4> QED BY <1>2, <4>1
    <3> QED BY <1>1, <1>2, <3>1, <3>2, HighestWins
  <2> QED BY <1>7, <2>1, <2>2 DEF Builders, c
<1>8. CASE /\ files \cap {"Dockerfile", "go.mod", "pom.xml"} = {}
           /\ "package.json" \in files \/ "python" \in files
  <2>1. Preferred(files) = "buildpacks"
    <3>1. \A j \in 1..(4 - 1) : j = 1 \/ j = 2 \/ j = 3
      OBVIOUS
    <3>2. \A j \in 1..(4 - 1) : Preference[j][2] \cap files = {}
      BY <1>3, <1>8, <3>1
    <3> QED BY <1>3, <1>4, <1>8, <3>2
  <2>2. PICK i \in 1..Len(c) : c[i] = Buildpacks
    BY <1>1, <1>8 DEF Has
  <2>3. \A j \in 1..Len(c) : j # i => \/ c[i].confidence > c[j].confidence
                                      \/ c[i].confidence = c[j].confidence /\ i < j
    <3> SUFFICES ASSUME NEW j \in 1..Len(c), j # i
                 PROVE  85 > c[j].confidence \/ (85 = c[j].confidence /\ i < j)
      BY <1>2, <2>2
    <3>1. c[j] # Buildpacks /\ Has(c, c[j])
      BY <1>1, <2>2 DEF Distinct, Has
    <3>2. c[j] = Static \/ (c[j] = Railpack /\ "railpack" \in files)
      BY <1>1, <1>8, <3>1
    <3>3. CASE c[j] = Railpack /\ "railpack" \in files
      <4>1. Len(c) \in 1..Len(c) /\ c[Len(c)] = c[j]
        BY <1>1, <3>3
      <4>2. j = Len(c)
        BY <1>1, <4>1 DEF Distinct
      <4> QED BY <1>2, <3>3, <4>2
    <3> QED BY <1>2, <3>2, <3>3
  <2>4. Best(c) = "buildpacks" /\ c # <<>>
    BY <1>1, <1>2, <2>2, <2>3, BestIs, EmptySeq
  <2> QED BY <1>8, <2>1, <2>4 DEF Builders, c
<1>9. CASE /\ files \cap {"Dockerfile", "go.mod", "pom.xml", "package.json", "python"} = {}
           /\ "railpack" \in files
  <2>1. Preferred(files) = "railpack"
    <3>1. \A j \in 1..(5 - 1) : j = 1 \/ j = 2 \/ j = 3 \/ j = 4
      OBVIOUS
    <3>2. \A j \in 1..(5 - 1) : Preference[j][2] \cap files = {}
      BY <1>3, <1>9, <3>1
    <3> QED BY <1>3, <1>4, <1>9, <3>2
  <2>2. Best(c) = "railpack" /\ c # <<>>
    <3>1. Has(c, Railpack)
      BY <1>1, <1>9
    <3>2. ASSUME NEW x \in Offers, Has(c, x), x # Railpack PROVE 85 > x.confidence
      <4>1. x = Static
        BY <1>1, <1>9, <3>2
      <4> QED BY <1>2, <4>1
    <3> QED BY <1>1, <1>2, <3>1, <3>2, HighestWins
  <2> QED BY <1>9, <2>1, <2>2 DEF Builders, c
<1>10. CASE files = {"index.html"}
  <2>1. Preferred(files) = "static"
    <3>1. \A j \in 1..(6 - 1) : j = 1 \/ j = 2 \/ j = 3 \/ j = 4 \/ j = 5
      OBVIOUS
    <3>2. \A j \in 1..(6 - 1) : Preference[j][2] \cap files = {}
      BY <1>3, <1>10, <3>1
    <3> QED BY <1>3, <1>4, <1>10, <3>2
  <2>2. Best(c) = "static" /\ c # <<>>
    <3>1. \A x : Has(c, x) <=> x = Static
      BY <1>1, <1>10
    <3> QED BY <1>1, <1>2, <3>1, HighestWins
  <2> QED BY <1>10, <2>1, <2>2 DEF Builders, c
<1>11. CASE files = {}
  <2>1. \A i \in 1..Len(c) : Has(c, c[i])
    BY DEF Has
  <2>2. Len(c) = 0
    BY <1>1, <1>11, <2>1
  <2> QED BY <1>1, <1>11, <2>2, EmptySeq DEF c
<1> QED BY <1>5, <1>6, <1>7, <1>8, <1>9, <1>10, <1>11 DEF Markers

(***************************************************************************)
(* Paths.                                                                  *)
(***************************************************************************)
LEMMA RepoFacts ==
    ASSUME repo \in Repositories
    PROVE  /\ repo.up \in [Dirs -> Dirs] /\ repo.files \in [Dirs -> SUBSET Markers]
           /\ repo.config \in [Dirs -> Configs] /\ repo.skipped \subseteq Dirs
           /\ repo.up[Root] = Root /\ Root \in Dirs
           /\ \A S \in (SUBSET Dirs) \ {{}} : (\A x \in S : repo.up[x] \in S) => Root \in S
  BY RepositoryAssumption

(* A path is the least set that holds d and goes up.                       *)
LEMMA PathIsLeast ==
    ASSUME repo \in Repositories, NEW d \in Dirs
    PROVE  /\ Path(d) \subseteq Dirs /\ d \in Path(d)
           /\ \A x \in Path(d) : repo.up[x] \in Path(d)
           /\ \A S \in SUBSET Dirs :
                  d \in S /\ (\A x \in S : repo.up[x] \in S) => Path(d) \subseteq S
<1>1. ASSUME NEW x \in Path(d) PROVE repo.up[x] \in Path(d)
  BY RepoFacts DEF Path
<1> QED BY <1>1 DEF Path

LEMMA PathOfChild ==
    ASSUME repo \in Repositories, NEW d \in Dirs
    PROVE  Path(d) \subseteq {d} \cup Path(repo.up[d])
<1> DEFINE S == {d} \cup Path(repo.up[d])
<1>1. repo.up[d] \in Dirs
  BY RepoFacts
<1>2. S \in SUBSET Dirs /\ d \in S
  BY <1>1, PathIsLeast
<1>3. \A x \in S : repo.up[x] \in S
  BY <1>1, PathIsLeast
<1> HIDE DEF S
<1>4. Path(d) \subseteq S
  BY <1>2, <1>3, PathIsLeast
<1> QED BY <1>4 DEF S

LEMMA PathOfRoot == ASSUME repo \in Repositories PROVE Path(Root) = {Root}
<1>1. /\ {Root} \in SUBSET Dirs /\ Root \in {Root} /\ Root \in Dirs
      /\ \A x \in {Root} : repo.up[x] \in {Root}
  BY RepoFacts
<1>2. Path(Root) \subseteq {Root}
  BY <1>1, PathIsLeast
<1> QED BY <1>1, <1>2, PathIsLeast

LEMMA RootIsAbove == ASSUME repo \in Repositories, NEW d \in Dirs PROVE Root \in Path(d)
<1>1. /\ Path(d) \subseteq Dirs /\ d \in Path(d)
      /\ \A x \in Path(d) : repo.up[x] \in Path(d)
  BY PathIsLeast
<1>2. Path(d) # {}
  BY <1>1
<1>3. Path(d) \in (SUBSET Dirs) \ {{}}
  BY <1>1, <1>2
<1> QED BY <1>1, <1>3, RepoFacts

(* The path down from a to d goes through a child of a.                    *)
LEMMA PathThroughChild ==
    ASSUME repo \in Repositories, NEW d \in Dirs, NEW a \in Path(d), a # d
    PROVE  Path(d) \cap Children(a) # {}
<1> DEFINE S == Path(d) \ {a}
<1>1. S \in SUBSET Dirs /\ d \in S
  BY PathIsLeast
<1>2. ~(\A x \in S : repo.up[x] \in S)
  BY <1>1, PathIsLeast
<1>3. PICK x \in S : repo.up[x] \notin S
  BY <1>2
<1>4. x \in Path(d) /\ x # a /\ repo.up[x] = a
  BY <1>3, PathIsLeast
<1>5. x # Root /\ x \in Dirs
  BY <1>4, RepoFacts, PathIsLeast
<1> QED BY <1>4, <1>5 DEF Children

(***************************************************************************)
(* The walk.                                                               *)
(***************************************************************************)
Frames == [dir : Dirs, left : SUBSET Dirs]

(* d, one above it, or one beside any of these has an invalid shipzen.yaml *)
Blocked(d) ==
    \E a \in Path(d) \ {Root}, b \in Dirs \ {Root} :
        repo.up[b] = repo.up[a] /\ b \notin repo.skipped /\ repo.config[b] = "invalid"

(* A loop has still to come to d or to one above it.                       *)
Ahead(d) == \E i \in 1..Len(stack) : Path(d) \cap stack[i].left # {}

Reported(d) == \E s \in services : s.dir = d

ToReport(d) == Visible(d) /\ repo.files[d] # {} /\ ~Blocked(d)

StackInv == \A i \in 1..Len(stack) : /\ stack[i].left \subseteq Children(stack[i].dir)
                                     /\ Visible(stack[i].dir)

CoverInv == /\ outcome = "cloning" => stack = <<>> /\ services = {}
            /\ outcome = "listed" => stack = <<>>
            /\ outcome \in {"walking", "listed"} =>
                   \A d \in Dirs : ToReport(d) => Reported(d) \/ Ahead(d)

WalkInv == TypeOK /\ StackInv /\ ReportedRight /\ CoverInv

LEMMA FoundIs ==
    ASSUME repo \in Repositories, NEW d \in Dirs, Visible(d), repo.config[d] # "invalid"
    PROVE  /\ Found(d) \subseteq [dir : Dirs, type : Builders]
           /\ repo.files[d] # {} <=> \E s \in Found(d) : s.dir = d
           /\ \A s \in Found(d) :
                  /\ s.dir = d /\ repo.files[d] # {}
                  /\ s.type = IF repo.config[d] \in Builders THEN repo.config[d]
                                                             ELSE Preferred(repo.files[d])
<1>1. repo.files[d] \in SUBSET Markers
  BY RepoFacts
<1>2. /\ Buildable(d) <=> repo.files[d] # {}
      /\ Buildable(d) => /\ Best(Candidates(repo.files[d])) = Preferred(repo.files[d])
                         /\ Preferred(repo.files[d]) \in Builders
  BY <1>1, BestIsPreferred DEF Buildable
<1>3. ASSUME Buildable(d)
      PROVE  /\ Found(d) = {[dir |-> d, type |-> Type(d)]} /\ Type(d) \in Builders
             /\ Type(d) = IF repo.config[d] \in Builders THEN repo.config[d]
                                                         ELSE Preferred(repo.files[d])
  BY <1>2, <1>3 DEF Found, Type
<1>4. ~Buildable(d) => Found(d) = {}
  BY DEF Found
<1>5. CASE Buildable(d)
  <2>1. PICK type \in Builders :
            /\ Found(d) = {[dir |-> d, type |-> type]}
            /\ type = IF repo.config[d] \in Builders THEN repo.config[d]
                                                     ELSE Preferred(repo.files[d])
    BY <1>3, <1>5
  <2> QED BY <1>2, <1>5, <2>1
<1>6. CASE ~Buildable(d)
  BY <1>2, <1>4, <1>6
<1> QED BY <1>5, <1>6

LEMMA Pushed ==
    ASSUME NEW f \in Frames, NEW s \in Seq(Frames)
    PROVE  /\ <<f>> \o s \in Seq(Frames) /\ Len(<<f>> \o s) = Len(s) + 1 /\ Len(s) \in Nat
           /\ (<<f>> \o s)[1] = f
           /\ \A i \in 1..Len(s) : (<<f>> \o s)[i + 1] = s[i] /\ i + 1 \in 1..Len(<<f>> \o s)
           /\ \A i \in 1..Len(<<f>> \o s) :
                  i = 1 \/ (i - 1 \in 1..Len(s) /\ (<<f>> \o s)[i] = s[i - 1])
<1> DEFINE u == <<f>> \o s
<1>1. <<f>> \in Seq(Frames) /\ Len(<<f>>) = 1 /\ <<f>>[1] = f /\ Len(s) \in Nat
  BY LenProperties
<1>2. /\ u \in Seq(Frames) /\ Len(u) = 1 + Len(s)
      /\ \A i \in 1..(1 + Len(s)) : u[i] = IF i <= 1 THEN <<f>>[i] ELSE s[i - 1]
  BY <1>1, ConcatProperties
<1> HIDE DEF u
<1>3. u[1] = f
  BY <1>1, <1>2
<1>4. \A i \in 1..Len(s) : u[i + 1] = s[i] /\ i + 1 \in 1..Len(u)
  BY <1>1, <1>2
<1>5. \A i \in 1..Len(u) : i = 1 \/ (i - 1 \in 1..Len(s) /\ u[i] = s[i - 1])
  BY <1>1, <1>2
<1> QED BY <1>1, <1>2, <1>3, <1>4, <1>5 DEF u

LEMMA Popped ==
    ASSUME stack \in Seq(Frames), stack # <<>>
    PROVE  /\ Len(stack) \in Nat \ {0} /\ 1 \in 1..Len(stack) /\ Head(stack) = stack[1]
           /\ Head(stack) \in Frames /\ Tail(stack) \in Seq(Frames)
           /\ \A i \in 1..Len(Tail(stack)) : /\ i + 1 \in 1..Len(stack)
                                             /\ Tail(stack)[i] = stack[i + 1]
           /\ \A i \in 1..Len(stack) : i = 1 \/ (/\ i - 1 \in 1..Len(Tail(stack))
                                                 /\ Tail(stack)[i - 1] = stack[i])
<1>1. Len(stack) \in Nat \ {0} /\ Head(stack) = stack[1]
  BY EmptySeq
<1>2. /\ Head(stack) \in Frames /\ Tail(stack) \in Seq(Frames)
      /\ Len(Tail(stack)) = Len(stack) - 1
      /\ \A i \in 1..Len(Tail(stack)) : Tail(stack)[i] = stack[i + 1]
  BY HeadTailProperties
<1>3. \A i \in 1..Len(Tail(stack)) : i + 1 \in 1..Len(stack) /\ Tail(stack)[i] = stack[i + 1]
  BY <1>1, <1>2
<1>4. ASSUME NEW i \in 1..Len(stack), i # 1
      PROVE  i - 1 \in 1..Len(Tail(stack)) /\ Tail(stack)[i - 1] = stack[i]
  <2>1. i - 1 \in 1..Len(Tail(stack)) /\ (i - 1) + 1 = i
    BY <1>1, <1>2, <1>4
  <2>2. Tail(stack)[i - 1] = stack[(i - 1) + 1]
    BY <1>2, <2>1
  <2> QED BY <2>1, <2>2
<1> QED BY <1>1, <1>2, <1>3, <1>4

LEMMA InitWalk == Init => WalkInv
<1> SUFFICES ASSUME Init PROVE WalkInv
  OBVIOUS
<1>1. /\ stack = <<>> /\ services = {} /\ outcome = "cloning" /\ repo \in Repositories
      /\ Len(stack) = 0
  BY EmptySeq DEF Init
<1>2. stack \in Seq(Frames)
  BY <1>1, EmptySeq
<1> QED BY <1>1, <1>2 DEF WalkInv, TypeOK, Frames, StackInv, ReportedRight, CoverInv

LEMMA TypeFacts ==
    ASSUME TypeOK
    PROVE  repo \in Repositories /\ stack \in Seq(Frames)
           /\ services \subseteq [dir : Dirs, type : Builders]
  BY DEF TypeOK, Frames

(* What is found in a directory is reported rightly.                       *)
LEMMA FoundRight ==
    ASSUME TypeOK, ReportedRight, NEW d \in Dirs, Visible(d), repo.config[d] # "invalid",
           repo' = repo, services' = services \cup Found(d)
    PROVE  /\ services' \subseteq [dir : Dirs, type : Builders]
           /\ ReportedRight'
           /\ \A x \in Dirs : Reported(x) \/ (x = d /\ repo.files[x] # {}) => Reported(x)'
<1>1. /\ Found(d) \subseteq [dir : Dirs, type : Builders]
      /\ repo.files[d] # {} <=> \E s \in Found(d) : s.dir = d
      /\ \A s \in Found(d) :
             /\ s.dir = d /\ repo.files[d] # {}
             /\ s.type = IF repo.config[d] \in Builders THEN repo.config[d]
                                                        ELSE Preferred(repo.files[d])
  BY TypeFacts, FoundIs
<1>2. services' \subseteq [dir : Dirs, type : Builders]
  BY <1>1, TypeFacts
<1>3. ASSUME NEW s \in services'
      PROVE  /\ Visible(s.dir)' /\ repo'.files[s.dir] # {} /\ repo'.config[s.dir] # "invalid"
             /\ s.type = IF repo'.config[s.dir] \in Builders THEN repo'.config[s.dir]
                         ELSE Preferred(repo'.files[s.dir])
  <2>1. Visible(s.dir)' <=> Visible(s.dir)
    BY DEF Visible, Path
  <2>2. CASE s \in services
    BY <2>1, <2>2 DEF ReportedRight
  <2>3. CASE s \in Found(d)
    BY <1>1, <2>1, <2>3
  <2> QED BY <2>2, <2>3
<1>4. ReportedRight'
  BY <1>3 DEF ReportedRight
<1>5. \A x \in Dirs : Reported(x) \/ (x = d /\ repo.files[x] # {}) => Reported(x)'
  BY <1>1 DEF Reported
<1> QED BY <1>2, <1>4, <1>5

LEMMA WalkRootStep == ASSUME WalkInv, WalkRoot PROVE WalkInv'
<1>1. /\ repo' = repo /\ repo \in Repositories
      /\ stack \in Seq(Frames) /\ stack = <<>> /\ services = {}
      /\ services \subseteq [dir : Dirs, type : Builders] /\ Root \in Dirs
  BY TypeFacts, RepoFacts DEF WalkRoot, WalkInv, CoverInv
<1>2. CASE outcome' = "refused" /\ UNCHANGED <<stack, services>>
  <2>1. Len(stack) = 0
    BY <1>1, EmptySeq
  <2> QED BY <1>1, <1>2, <2>1 DEF WalkInv, TypeOK, Frames, StackInv, ReportedRight, CoverInv
<1>3. CASE /\ repo.config[Root] # "invalid" /\ outcome' = "walking"
           /\ stack' = <<Frame(Root)>> /\ services' = Found(Root)
  <2>1. Visible(Root)
    BY <1>1, PathOfRoot DEF Visible
  <2>2. services' = services \cup Found(Root)
    BY <1>1, <1>3
  <2>3. /\ services' \subseteq [dir : Dirs, type : Builders] /\ ReportedRight'
        /\ \A x \in Dirs : x = Root /\ repo.files[x] # {} => Reported(x)'
    BY <1>1, <1>3, <2>1, <2>2, FoundRight DEF WalkInv
  <2>4. Frame(Root) \in Frames /\ Frame(Root).dir = Root /\ Frame(Root).left = Children(Root)
    BY <1>1 DEF Frame, Frames, Children
  <2>5. /\ stack' \in Seq(Frames) /\ Len(stack') = 1 /\ stack'[1] = Frame(Root)
        /\ \A i \in 1..Len(stack') : i = 1
    BY <1>3, <2>4
  <2>6. TypeOK'
    BY <1>1, <1>3, <2>3, <2>5 DEF TypeOK, Frames
  <2>7. StackInv'
    BY <1>1, <2>1, <2>4, <2>5 DEF StackInv, Visible, Path, Children
  <2>8. ASSUME NEW d \in Dirs, ToReport(d)' PROVE Reported(d)' \/ Ahead(d)'
    <3>1. repo.files[d] # {}
      BY <1>1, <2>8 DEF ToReport
    <3>2. CASE d = Root
      BY <2>3, <3>1, <3>2
    <3>3. CASE d # Root
      <4>1. Path(d) \cap Children(Root) # {}
        BY <1>1, <3>3, RootIsAbove, PathThroughChild
      <4>2. Path(d)' = Path(d)
        BY <1>1 DEF Path
      <4> QED BY <2>4, <2>5, <4>1, <4>2 DEF Ahead
    <3> QED BY <3>2, <3>3
  <2>9. CoverInv'
    BY <1>3, <2>8 DEF CoverInv
  <2> QED BY <2>3, <2>6, <2>7, <2>9 DEF WalkInv
<1> QED BY <1>1, <1>2, <1>3 DEF WalkRoot

(* Frames are dropped or lose a directory, and nothing is found: what is   *)
(* to be reported stays reported, or below a directory that is left.       *)
LEMMA Shrinks ==
    ASSUME WalkInv, outcome = "walking", UNCHANGED <<repo, outcome, services>>,
           stack' \in Seq(Frames),
           \A i \in 1..Len(stack') : \E j \in 1..Len(stack) :
               stack'[i].dir = stack[j].dir /\ stack'[i].left \subseteq stack[j].left,
           \A d \in Dirs : ToReport(d) /\ Ahead(d) => Ahead(d)'
    PROVE  WalkInv'
<1>1. TypeOK' /\ ReportedRight'
  BY DEF WalkInv, TypeOK, Frames, ReportedRight, Visible, Path
<1>2. \A d : (Visible(d)' <=> Visible(d)) /\ Children(d)' = Children(d)
  BY DEF Visible, Path, Children
<1>3. StackInv'
  <2> SUFFICES ASSUME NEW i \in 1..Len(stack')
               PROVE  stack'[i].left \subseteq Children(stack'[i].dir) /\ Visible(stack'[i].dir)
    BY <1>2 DEF StackInv
  <2>1. PICK j \in 1..Len(stack) :
            stack'[i].dir = stack[j].dir /\ stack'[i].left \subseteq stack[j].left
    OBVIOUS
  <2>2. stack[j].left \subseteq Children(stack[j].dir) /\ Visible(stack[j].dir)
    BY DEF WalkInv, StackInv
  <2> QED BY <2>1, <2>2
<1>4. ASSUME NEW d \in Dirs, ToReport(d)' PROVE Reported(d)' \/ Ahead(d)'
  <2>1. ToReport(d)
    BY <1>4 DEF ToReport, Visible, Path, Blocked
  <2>2. Reported(d) => Reported(d)'
    BY DEF Reported
  <2> QED BY <2>1, <2>2 DEF WalkInv, CoverInv
<1>5. CoverInv'
  BY <1>4 DEF CoverInv
<1> QED BY <1>1, <1>3, <1>5 DEF WalkInv

LEMMA RestIs ==
    ASSUME WalkInv, NEW c \in Dirs, ComesTo(c)
    PROVE  /\ repo \in Repositories /\ stack \in Seq(Frames) /\ stack # <<>>
           /\ outcome = "walking" /\ c \in stack[1].left /\ 1 \in 1..Len(stack)
           /\ c # Root /\ repo.up[c] = stack[1].dir
           /\ Visible(stack[1].dir) /\ stack[1].dir \in Dirs
           /\ stack[1].left \subseteq Children(stack[1].dir)
           /\ Rest(c) \in Seq(Frames)
           /\ Rest(c)[1] = [stack[1] EXCEPT !.left = @ \ {c}] /\ 1 \in 1..Len(Rest(c))
           /\ \A i \in 1..Len(stack) : i = 1 \/ (i \in 1..Len(Rest(c)) /\ Rest(c)[i] = stack[i])
           /\ \A i \in 1..Len(Rest(c)) : i = 1 \/ (i \in 1..Len(stack) /\ Rest(c)[i] = stack[i])
<1>1. /\ repo \in Repositories /\ stack \in Seq(Frames) /\ stack # <<>>
      /\ outcome = "walking" /\ c \in Head(stack).left
  BY TypeFacts DEF WalkInv, ComesTo
<1>2. /\ 1 \in 1..Len(stack) /\ Head(stack) = stack[1] /\ Head(stack) \in Frames
      /\ Tail(stack) \in Seq(Frames)
      /\ \A i \in 1..Len(Tail(stack)) : i + 1 \in 1..Len(stack) /\ Tail(stack)[i] = stack[i + 1]
      /\ \A i \in 1..Len(stack) : i = 1 \/ (/\ i - 1 \in 1..Len(Tail(stack))
                                            /\ Tail(stack)[i - 1] = stack[i])
  BY <1>1, Popped
<1>3. /\ stack[1].left \subseteq Children(stack[1].dir)
      /\ Visible(stack[1].dir) /\ stack[1].dir \in Dirs
  BY <1>2 DEF WalkInv, StackInv, Frames
<1>4. c # Root /\ repo.up[c] = stack[1].dir
  BY <1>1, <1>2, <1>3 DEF Children
<1> DEFINE f == [stack[1] EXCEPT !.left = @ \ {c}]
<1>5. f \in Frames /\ Rest(c) = <<f>> \o Tail(stack)
  BY <1>2 DEF Frames, Rest
<1> HIDE DEF f
<1>6. /\ Rest(c) \in Seq(Frames) /\ Rest(c)[1] = f
      /\ Len(Rest(c)) = Len(Tail(stack)) + 1 /\ Len(Tail(stack)) \in Nat
      /\ \A i \in 1..Len(Tail(stack)) :
            Rest(c)[i + 1] = Tail(stack)[i] /\ i + 1 \in 1..Len(Rest(c))
      /\ \A i \in 1..Len(Rest(c)) :
             i = 1 \/ (i - 1 \in 1..Len(Tail(stack)) /\ Rest(c)[i] = Tail(stack)[i - 1])
  BY <1>2, <1>5, Pushed
<1>7. ASSUME NEW i \in 1..Len(stack), i # 1 PROVE i \in 1..Len(Rest(c)) /\ Rest(c)[i] = stack[i]
  <2>1. i - 1 \in 1..Len(Tail(stack)) /\ Tail(stack)[i - 1] = stack[i] /\ (i - 1) + 1 = i
    BY <1>2, <1>7
  <2>2. Rest(c)[(i - 1) + 1] = Tail(stack)[i - 1] /\ (i - 1) + 1 \in 1..Len(Rest(c))
    BY <1>6, <2>1
  <2> QED BY <2>1, <2>2
<1>8. ASSUME NEW i \in 1..Len(Rest(c)), i # 1 PROVE i \in 1..Len(stack) /\ Rest(c)[i] = stack[i]
  <2>1. i - 1 \in 1..Len(Tail(stack)) /\ Rest(c)[i] = Tail(stack)[i - 1] /\ (i - 1) + 1 = i
    BY <1>6, <1>8
  <2>2. (i - 1) + 1 \in 1..Len(stack) /\ Tail(stack)[i - 1] = stack[(i - 1) + 1]
    BY <1>2, <2>1
  <2> QED BY <2>1, <2>2
<1>9. 1 \in 1..Len(Rest(c))
  BY <1>6
<1> QED BY <1>1, <1>2, <1>3, <1>4, <1>6, <1>7, <1>8, <1>9 DEF f

(* What is still ahead, with the directory that shows it.                  *)
LEMMA AheadOf ==
    ASSUME NEW d, Ahead(d)
    PROVE  \E i \in 1..Len(stack) : \E a \in Path(d) : a \in stack[i].left
  BY DEF Ahead

LEMMA SkipStep == ASSUME WalkInv, NEW c \in Dirs, SkipDir(c) PROVE WalkInv'
<1>1. /\ ComesTo(c) /\ c \in repo.skipped
      /\ stack' = Rest(c) /\ UNCHANGED <<repo, outcome, services>>
  BY DEF SkipDir
<1>2. ASSUME NEW i \in 1..Len(stack')
      PROVE  \E j \in 1..Len(stack) :
                 stack'[i].dir = stack[j].dir /\ stack'[i].left \subseteq stack[j].left
  <2>1. CASE i = 1
    <3>1. stack[1] \in Frames
      BY <1>1, RestIs, ElementOfSeq
    <3>2. stack'[1] = [stack[1] EXCEPT !.left = @ \ {c}] /\ 1 \in 1..Len(stack)
      BY <1>1, RestIs
    <3> QED BY <2>1, <3>1, <3>2 DEF Frames
  <2>2. CASE i # 1
    BY <1>1, <1>2, <2>2, RestIs
  <2> QED BY <2>1, <2>2
<1>3. ASSUME NEW d \in Dirs, ToReport(d), Ahead(d) PROVE Ahead(d)'
  <2>1. PICK i \in 1..Len(stack) : \E a \in Path(d) : a \in stack[i].left
    BY <1>3, AheadOf
  <2>2. PICK a \in Path(d) : a \in stack[i].left
    BY <2>1
  <2>3. a # c
    BY <1>1, <1>3, RestIs DEF ToReport, Visible
  <2>4. i \in 1..Len(stack') /\ a \in stack'[i].left
    <3>1. CASE i = 1
      <4>1. stack[1] \in Frames
        BY <1>1, RestIs, ElementOfSeq
      <4>2. stack'[1] = [stack[1] EXCEPT !.left = @ \ {c}] /\ 1 \in 1..Len(stack')
        BY <1>1, RestIs
      <4> QED BY <2>2, <2>3, <3>1, <4>1, <4>2 DEF Frames
    <3>2. CASE i # 1
      BY <1>1, <2>2, <3>2, RestIs
    <3> QED BY <3>1, <3>2
  <2>5. Path(d)' = Path(d)
    BY <1>1 DEF Path
  <2> QED BY <2>2, <2>4, <2>5 DEF Ahead
<1> QED BY <1>1, <1>2, <1>3, RestIs, Shrinks

(* A frame is popped that has nothing left for d.                          *)
LEMMA PopStep ==
    ASSUME WalkInv, outcome = "walking", stack # <<>>, stack' = Tail(stack),
           UNCHANGED <<repo, outcome, services>>,
           \A d \in Dirs : ToReport(d) => Path(d) \cap stack[1].left = {}
    PROVE  WalkInv'
<1>1. /\ stack \in Seq(Frames) /\ Tail(stack) \in Seq(Frames)
      /\ \A i \in 1..Len(Tail(stack)) : i + 1 \in 1..Len(stack) /\ Tail(stack)[i] = stack[i + 1]
      /\ \A i \in 1..Len(stack) : i = 1 \/ (/\ i - 1 \in 1..Len(Tail(stack))
                                            /\ Tail(stack)[i - 1] = stack[i])
  BY TypeFacts, Popped DEF WalkInv
<1>2. ASSUME NEW i \in 1..Len(stack')
      PROVE  \E j \in 1..Len(stack) :
                 stack'[i].dir = stack[j].dir /\ stack'[i].left \subseteq stack[j].left
  BY <1>1, <1>2
<1>3. ASSUME NEW d \in Dirs, ToReport(d), Ahead(d) PROVE Ahead(d)'
  <2>1. PICK i \in 1..Len(stack) : \E a \in Path(d) : a \in stack[i].left
    BY <1>3, AheadOf
  <2>2. i # 1
    BY <1>3, <2>1
  <2>3. i - 1 \in 1..Len(stack') /\ stack'[i - 1] = stack[i]
    BY <1>1, <2>2
  <2>4. Path(d)' = Path(d)
    BY DEF Path
  <2> QED BY <2>1, <2>3, <2>4 DEF Ahead
<1> QED BY <1>1, <1>2, <1>3, Shrinks

(* The loop that is cut off has only the invalid directory and its         *)
(* siblings left.                                                          *)
LEMMA RaiseStep == ASSUME WalkInv, NEW c \in Dirs, RaiseInvalid(c) PROVE WalkInv'
<1>1. /\ ComesTo(c) /\ c \notin repo.skipped /\ repo.config[c] = "invalid"
      /\ stack' = Tail(stack) /\ UNCHANGED <<repo, outcome, services>>
  BY DEF RaiseInvalid
<1>2. ASSUME NEW d \in Dirs, NEW a \in Path(d), a \in stack[1].left PROVE Blocked(d)
  <2>1. a \in Dirs \ {Root} /\ repo.up[a] = repo.up[c] /\ c # Root
    BY <1>1, <1>2, RestIs DEF Children
  <2> QED BY <1>1, <2>1 DEF Blocked
<1>3. \A d \in Dirs : ToReport(d) => Path(d) \cap stack[1].left = {}
  BY <1>2 DEF ToReport
<1>4. outcome = "walking" /\ stack # <<>>
  BY <1>1 DEF ComesTo
<1> QED BY <1>1, <1>3, <1>4, PopStep

LEMMA ReturnStep == ASSUME WalkInv, Return PROVE WalkInv'
<1>1. /\ outcome = "walking" /\ stack # <<>> /\ Head(stack).left = {} /\ stack' = Tail(stack)
      /\ UNCHANGED <<repo, outcome, services>>
  BY DEF Return
<1>2. Head(stack) = stack[1]
  BY <1>1, TypeFacts, Popped DEF WalkInv
<1> QED BY <1>1, <1>2, PopStep

LEMMA AnswerStep == ASSUME WalkInv, Answer PROVE WalkInv'
<1>1. /\ outcome = "walking" /\ stack = <<>> /\ outcome' = "listed"
      /\ UNCHANGED <<repo, stack, services>>
  BY DEF Answer
<1>2. TypeOK' /\ StackInv' /\ ReportedRight'
  BY <1>1 DEF WalkInv, TypeOK, StackInv, ReportedRight, Visible, Path, Children
<1>3. ASSUME NEW d \in Dirs, ToReport(d)' PROVE Reported(d)' \/ Ahead(d)'
  <2>1. ToReport(d)
    BY <1>1, <1>3 DEF ToReport, Visible, Path, Blocked
  <2>2. (Reported(d) => Reported(d)') /\ (Ahead(d) => Ahead(d)')
    BY <1>1 DEF Reported, Ahead, Path
  <2> QED BY <1>1, <2>1, <2>2 DEF WalkInv, CoverInv
<1> QED BY <1>1, <1>2, <1>3 DEF WalkInv, CoverInv

LEMMA WalkDirStep == ASSUME WalkInv, NEW c \in Dirs, WalkDir(c) PROVE WalkInv'
<1>1. /\ ComesTo(c) /\ c \notin repo.skipped /\ repo.config[c] # "invalid"
      /\ stack' = <<Frame(c)>> \o Rest(c) /\ services' = services \cup Found(c)
      /\ UNCHANGED <<repo, outcome>>
  BY DEF WalkDir
<1>2. /\ repo \in Repositories /\ stack \in Seq(Frames) /\ outcome = "walking"
      /\ c \in stack[1].left /\ c # Root /\ repo.up[c] = stack[1].dir /\ Visible(stack[1].dir)
      /\ 1 \in 1..Len(stack)
  BY <1>1, RestIs
<1>3. Visible(c)
  <2>1. Path(c) \subseteq {c} \cup Path(repo.up[c])
    BY <1>2, PathOfChild
  <2> QED BY <1>1, <1>2, <2>1 DEF Visible
<1>4. /\ services' \subseteq [dir : Dirs, type : Builders] /\ ReportedRight'
      /\ \A x \in Dirs : Reported(x) \/ (x = c /\ repo.files[x] # {}) => Reported(x)'
  BY <1>1, <1>3, FoundRight DEF WalkInv
<1>5. Frame(c) \in Frames /\ Frame(c).dir = c /\ Frame(c).left = Children(c)
  BY DEF Frame, Frames, Children
<1>6. /\ stack' \in Seq(Frames) /\ stack'[1] = Frame(c) /\ Len(Rest(c)) \in Nat
      /\ Len(stack') = Len(Rest(c)) + 1
      /\ \A i \in 1..Len(Rest(c)) : stack'[i + 1] = Rest(c)[i] /\ i + 1 \in 1..Len(stack')
      /\ \A i \in 1..Len(stack') :
             i = 1 \/ (i - 1 \in 1..Len(Rest(c)) /\ stack'[i] = Rest(c)[i - 1])
  <2>1. Rest(c) \in Seq(Frames)
    BY <1>1, RestIs
  <2> QED BY <1>1, <1>5, <2>1, Pushed
<1>7. TypeOK'
  BY <1>1, <1>4, <1>6 DEF WalkInv, TypeOK, Frames
<1>8. \A d : (Visible(d)' <=> Visible(d)) /\ Children(d)' = Children(d) /\ Path(d)' = Path(d)
  BY <1>1 DEF Visible, Path, Children
<1>9. ASSUME NEW i \in 1..Len(Rest(c))
      PROVE  Rest(c)[i].left \subseteq Children(Rest(c)[i].dir) /\ Visible(Rest(c)[i].dir)
  <2>1. CASE i = 1
    <3>1. stack[1] \in Frames
      BY <1>2, ElementOfSeq
    <3>2. Rest(c)[1] = [stack[1] EXCEPT !.left = @ \ {c}]
          /\ stack[1].left \subseteq Children(stack[1].dir)
      BY <1>1, RestIs
    <3>3. Rest(c)[1].dir = stack[1].dir /\ Rest(c)[1].left \subseteq stack[1].left
      BY <3>1, <3>2 DEF Frames
    <3> QED BY <1>2, <2>1, <3>2, <3>3
  <2>2. CASE i # 1
    <3>1. i \in 1..Len(stack) /\ Rest(c)[i] = stack[i]
      BY <1>1, <2>2, RestIs
    <3> QED BY <3>1 DEF WalkInv, StackInv
  <2> QED BY <2>1, <2>2
<1>10. StackInv'
  <2> SUFFICES ASSUME NEW i \in 1..Len(stack')
               PROVE  stack'[i].left \subseteq Children(stack'[i].dir) /\ Visible(stack'[i].dir)
    BY <1>8 DEF StackInv
  <2>1. CASE i = 1
    BY <1>3, <1>5, <1>6, <2>1
  <2>2. CASE i # 1
    BY <1>6, <1>9, <2>2
  <2> QED BY <2>1, <2>2
<1>11. ASSUME NEW d \in Dirs, ToReport(d)' PROVE Reported(d)' \/ Ahead(d)'
  <2>1. ToReport(d) /\ repo.files[d] # {}
    BY <1>1, <1>11 DEF ToReport, Visible, Path, Blocked
  <2>2. CASE Reported(d)
    BY <1>4, <2>2
  <2>3. CASE Ahead(d)
    <3>1. PICK i \in 1..Len(stack) : \E a \in Path(d) : a \in stack[i].left
      BY <2>3, AheadOf
    <3>2. PICK a \in Path(d) : a \in stack[i].left
      BY <3>1
    <3>3. CASE a = c /\ d = c
      BY <1>4, <2>1, <3>3
    <3>4. CASE a = c /\ d # c
      <4>1. Path(d) \cap Children(c) # {}
        BY <1>2, <3>2, <3>4, PathThroughChild
      <4>2. 1 \in 1..Len(stack') /\ stack'[1].left = Children(c)
        BY <1>5, <1>6
      <4> QED BY <1>8, <4>1, <4>2 DEF Ahead
    <3>5. CASE a # c
      <4>1. i \in 1..Len(Rest(c)) /\ a \in Rest(c)[i].left
        <5>1. CASE i = 1
          <6>1. stack[1] \in Frames
            BY <1>2, ElementOfSeq
          <6>2. Rest(c)[1] = [stack[1] EXCEPT !.left = @ \ {c}] /\ 1 \in 1..Len(Rest(c))
            BY <1>1, RestIs
          <6> QED BY <3>2, <3>5, <5>1, <6>1, <6>2 DEF Frames
        <5>2. CASE i # 1
          BY <1>1, <3>2, <5>2, RestIs
        <5> QED BY <5>1, <5>2
      <4>2. i + 1 \in 1..Len(stack') /\ a \in stack'[i + 1].left
        BY <1>6, <4>1
      <4> QED BY <1>8, <3>2, <4>2 DEF Ahead
    <3> QED BY <3>3, <3>4, <3>5
  <2> QED BY <1>2, <2>1, <2>2, <2>3 DEF WalkInv, CoverInv
<1>12. CoverInv'
  BY <1>1, <1>2, <1>11 DEF CoverInv
<1> QED BY <1>4, <1>7, <1>10, <1>12 DEF WalkInv

LEMMA WalkStep == WalkInv /\ [Next]_vars => WalkInv'
<1> SUFFICES ASSUME WalkInv, [Next]_vars PROVE WalkInv'
  OBVIOUS
<1>1. CASE UNCHANGED vars
  <2>1. UNCHANGED <<repo, outcome, stack, services>>
    BY <1>1 DEF vars
  <2>2. TypeOK' /\ StackInv' /\ ReportedRight'
    BY <2>1 DEF WalkInv, TypeOK, StackInv, ReportedRight, Visible, Path, Children
  <2>3. \A d \in Dirs : /\ (ToReport(d)' <=> ToReport(d)) /\ (Reported(d)' <=> Reported(d))
                        /\ (Ahead(d)' <=> Ahead(d))
    BY <2>1 DEF ToReport, Visible, Path, Blocked, Reported, Ahead
  <2> QED BY <2>1, <2>2, <2>3 DEF WalkInv, CoverInv
<1>2. CASE Next
  BY <1>2, WalkRootStep, ReturnStep, AnswerStep, SkipStep, WalkDirStep, RaiseStep DEF Next
<1> QED BY <1>1, <1>2

LEMMA WalkInvHolds == Spec => []WalkInv
  BY InitWalk, WalkStep, PTL DEF Spec

(* The repository, the stack of calls and the services keep their types:   *)
(* above all, a detected type is the name of a builder                     *)
(* (analyzer.py:45-184).                                                   *)
THEOREM AnalyzerTypes == Spec => []TypeOK
  BY WalkInvHolds, PTL DEF WalkInv

(* What analyze_repo reports is a directory it may look into, with the     *)
(* builder the fixed order of preference gives, for every clone.           *)
THEOREM ServicesAreRight == Spec => []ReportedRight
  BY WalkInvHolds, PTL DEF WalkInv

LEMMA WalkMissesOnlyBlocked == WalkInv => MissedBesideInvalid
<1> SUFFICES ASSUME WalkInv, outcome = "listed", NEW d \in Dirs, Visible(d), repo.files[d] # {}
             PROVE  Reported(d) \/ Blocked(d)
  BY DEF MissedBesideInvalid, Reported, Blocked
<1>1. Len(stack) = 0
  BY EmptySeq DEF WalkInv, CoverInv
<1>2. ~Ahead(d)
  BY <1>1 DEF Ahead
<1> QED BY <1>2 DEF WalkInv, CoverInv, ToReport

(* The exception of an invalid shipzen.yaml costs no more than what is     *)
(* below its directory and that directory's siblings, for every tree and   *)
(* every order of the file system (analyzer.py:176-181).                   *)
THEOREM NothingElseIsMissed == Spec => []MissedBesideInvalid
  BY WalkInvHolds, WalkMissesOnlyBlocked, PTL
=============================================================================
