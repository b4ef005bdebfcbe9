---------------------------- MODULE ReleasePackages ----------------------------
(***************************************************************************)
(* Releases of version 1.7 (scripts/package_release.py, release_check.py,   *)
(* verify_release_candidate_v17.py, .github/workflows/release.yml).  A run  *)
(* packages the repository it works in, checks what it extracts from the    *)
(* package again, uploads the assets one by one to the release of its tag,  *)
(* and verifies what it downloads from there.  Other runs for the same tag  *)
(* may do so at the same time: nothing serializes them.  An operator builds *)
(* in a repository that may change under the build, and publishes nothing.  *)
(*                                                                          *)
(* A commit is the profiles whose files it has, those its own scripts know, *)
(* whether its checks pass when its files are all there is, and whether it  *)
(* has a runbook (one of the assets a release may lack).  Scripts that know *)
(* a profile know what it needs, which was there before it.  A digest is    *)
(* what it digests.  Versions, names, licenses and the SBOM are left out,   *)
(* and so are the files that every package has, and the TAR and detached    *)
(* manifest, which the reports bind exactly as they bind the ZIP.           *)
(***************************************************************************)
EXTENDS Naturals, FiniteSets

CONSTANTS
  Workflow,  \* runs of the release workflow for one tag
  Operator,  \* builds in somebody's repository
  Profile,   \* features that a package of this version may have
  Requires,  \* pairs of a profile and one that it needs
  Commits,    \* of the repository
  MaxMoves   \* bound on changes of a repository under a build

ASSUME ReleaseAssumption ==
  /\ Workflow \cap Operator = {}
  /\ Requires \subseteq Profile \X Profile
  /\ MaxMoves \in Nat
  /\ Commits \subseteq [files : [Profile -> {"none", "part", "whole"}], knows : SUBSET Profile,
                       works : BOOLEAN, runbook : BOOLEAN]
  /\ \A c \in Commits : \A pair \in Requires : pair[1] \in c.knows => pair[2] \in c.knows

VARIABLES
  head,     \* HEAD of each run's repository
  tree,     \* its working tree, as if committed
  moves,    \* how often repositories changed
  progress, \* how far each run is
  release   \* the assets of the release of the tag, and who uploaded each

releaseVars == <<head, tree, moves, progress, release>>

Builder == Workflow \cup Operator

-----------------------------------------------------------------------------
(* What a package must be.                                                  *)
Shipped(files) == {p \in Profile : files[p] # "none"}

(* A profile of which one file is found must be there with its needs.       *)
Supported(files) ==
  /\ \A p \in Shipped(files) : files[p] = "whole"
  /\ \A pair \in Requires : pair[1] \in Shipped(files) => files[pair[2]] = "whole"

(* The fuzz checks grew with the parsers; each package keeps its number.    *)
FuzzChecks(profiles) ==
  CASE "structured" \in profiles -> 147
    [] "structured" \notin profiles /\ "html" \in profiles -> 141
    [] profiles \cap {"structured", "html"} = {} /\ "docx" \in profiles -> 125
    [] OTHER -> 115

Checks(profiles) == [p \in profiles |-> IF p = "fuzz" THEN FuzzChecks(profiles) ELSE 1]

(* Mutant: the newest number is demanded of every package.                  *)
AssuranceOfNewest(files) ==
  [p \in Shipped(files) |-> IF p = "fuzz" THEN FuzzChecks(Profile) ELSE 1]

Assurance(files) == Checks(Shipped(files))

Holds(claims, demanded) == \A p \in DOMAIN demanded : p \in DOMAIN claims /\ claims[p] = demanded[p]

-----------------------------------------------------------------------------
(* A release directory: a function from names to contents.                  *)
Sums == "SHA256SUMS"
Sidecar == "multiple.intoto.jsonl"
Core == {"zip", "validation", "assurance"}
Runbook == "V1.7_RUNBOOK.md"
Assets == Core \cup {Sums, Runbook, Sidecar}

(* Adds a name to the assets, or gives it another content.                  *)
Place(assets, name, asset) ==
  [n \in DOMAIN assets \cup {name} |-> IF n = name THEN asset ELSE assets[n]]

Summed(package, knows) ==
  LET report == [source |-> package.source, zip |-> package]
  IN  [name \in Core \cup (IF package.commit.runbook THEN {Runbook} ELSE {}) |->
         CASE name = "zip" -> package
           [] name = "validation" -> report
           [] name = "assurance" -> [report |-> report, checks |-> Checks(knows)]
           [] name = Runbook -> [by |-> package.by]]

Packed(package, knows) == Place(Summed(package, knows), Sums, Summed(package, knows))

Directory(r) == Packed(progress[r].package, progress[r].knows)

(* Mutant: assets that are not listed go unnoticed.                         *)
SumsHoldForListed(directory) ==
  LET listed == directory[Sums]
  IN  \A name \in DOMAIN listed : name \in DOMAIN directory /\ directory[name] = listed[name]

SumsHold(directory) ==
  LET listed == directory[Sums]
  IN  /\ DOMAIN directory \ (DOMAIN listed \cup {Sums}) \subseteq {Sidecar}
      /\ \A name \in DOMAIN listed : name \in DOMAIN directory /\ directory[name] = listed[name]

PackageHolds(package) == package.files = package.commit.files /\ Supported(package.files)

ReportsHold(directory) ==
  LET package == directory["zip"]
      validation == directory["validation"]
      assurance == directory["assurance"]
  IN  /\ validation.source = package.source /\ validation.zip = package
      /\ assurance.report = validation
      /\ Holds(assurance.checks, Assurance(package.files))

Verifies(directory) ==
  /\ Core \cup {Sums} \subseteq DOMAIN directory
  /\ SumsHold(directory) /\ PackageHolds(directory["zip"]) /\ ReportsHold(directory)

-----------------------------------------------------------------------------
Idle == [at |-> "idle"]
Nothing == [name \in {} |-> Idle]
Without(assets, name) == [n \in DOMAIN assets \ {name} |-> assets[n]]

At(r, step) == progress[r].at = step
Goes(r, state) == progress' = [progress EXCEPT ![r] = state]
Fails(r) == Goes(r, [at |-> "failed"])

Publishing == {"list", "upload", "fetch"}

(* Whoever publishes meanwhile is no longer alone.                          *)
Disturbed(r, state) ==
  progress' = [q \in Builder |-> IF q = r THEN state
                        ELSE IF progress[q].at \in Publishing THEN [progress[q] EXCEPT !.alone = FALSE]
                        ELSE progress[q]]

ReleaseInit ==
  /\ head \in [Builder -> Commits] /\ tree = head /\ moves = 0
  /\ progress = [r \in Builder |-> Idle] /\ release = Nothing

ReleaseTypeOK ==
  /\ head \in [Builder -> Commits] /\ tree \in [Builder -> Commits] /\ moves \in 0..MaxMoves
  /\ \A r \in Builder : progress[r].at \in
       {"idle", "check", "stage", "extract", "built", "failed", "published", "refused"} \cup Publishing
  /\ DOMAIN release \subseteq Assets /\ \A name \in DOMAIN release : release[name].by \in Workflow

(* Everything that the scripts of the working tree know must be there.      *)
Complete(files, knows) == \A p \in knows : files[p] = "whole"

(* The source is named before anything is checked.                          *)
BeginBuild(r) ==
  /\ At(r, "idle") /\ Complete(tree[r].files, tree[r].knows)
  /\ Goes(r, [at |-> "check", knows |-> tree[r].knows, source |-> head[r]])
  /\ UNCHANGED <<head, tree, moves, release>>

(* The check of the source is one of the working tree.  The workflow made   *)
(* it before, and an operator may leave it out.                             *)
CheckSource(r, skip) ==
  /\ At(r, "check") /\ (skip => r \in Operator)
  /\ IF skip \/ tree[r].works THEN Goes(r, [progress[r] EXCEPT !.at = "stage"]) ELSE Fails(r)
  /\ UNCHANGED <<head, tree, moves, release>>

(* The commit that is HEAD by now is staged and packaged, with a manifest.  *)
StageTree(r) ==
  /\ At(r, "stage")
  /\ LET commit == head[r]
         package == [by |-> r, source |-> progress[r].source, commit |-> commit, files |-> commit.files]
     IN  IF Complete(commit.files, progress[r].knows)
         THEN Goes(r, [at |-> "extract", knows |-> progress[r].knows, package |-> package]) ELSE Fails(r)
  /\ UNCHANGED <<head, tree, moves, release>>

(* The packaged scripts check what is extracted, where nothing else is.     *)
(* Their report must say what the packaging script expects.                 *)
CheckExtracted(r) ==
  /\ At(r, "extract")
  /\ LET commit == progress[r].package.commit
     IN  IF commit.works /\ Holds(Checks(commit.knows), Checks(progress[r].knows))
         THEN Goes(r, [progress[r] EXCEPT !.at = "built"]) ELSE Fails(r)
  /\ UNCHANGED <<head, tree, moves, release>>

(* The workflow verifies what it built, and a generator adds provenance.    *)
AddProvenance(r) ==
  /\ r \in Workflow /\ At(r, "built")
  /\ IF Verifies(Directory(r))
     THEN /\ Disturbed(r, [at |-> "list", of |-> Directory(r), alone |-> TRUE])
          /\ release' = Place(release, Sidecar, [by |-> r, is |-> r])
     ELSE Fails(r) /\ UNCHANGED release
  /\ UNCHANGED <<head, tree, moves>>

(* What is there is listed once, to be replaced.                            *)
ListExisting(r) ==
  /\ At(r, "list")
  /\ Goes(r, [at |-> "upload", of |-> progress[r].of, alone |-> progress[r].alone,
              old |-> [n \in DOMAIN release \cap DOMAIN progress[r].of |-> release[n].by],
              left |-> DOMAIN progress[r].of])
  /\ UNCHANGED <<head, tree, moves, release>>

(* Mutant: assets that are there already are kept.                          *)
KeepAsset(r, name) ==
  /\ At(r, "upload") /\ name \in DOMAIN progress[r].old
  /\ Goes(r, [progress[r] EXCEPT !.old = Without(progress[r].old, name), !.left = @ \ {name}])
  /\ UNCHANGED <<head, tree, moves, release>>

(* An asset that was listed is deleted, and then uploaded anew.             *)
DeleteAsset(r, name) ==
  /\ At(r, "upload") /\ name \in DOMAIN progress[r].old
  /\ IF name \in DOMAIN release /\ release[name].by = progress[r].old[name]
     THEN /\ Disturbed(r, [progress[r] EXCEPT !.old = Without(progress[r].old, name)])
          /\ release' = Without(release, name)
     ELSE Fails(r) /\ UNCHANGED release
  /\ UNCHANGED <<head, tree, moves>>

(* A name that is taken by now is refused.                                  *)
UploadAsset(r, name) ==
  /\ At(r, "upload") /\ name \in progress[r].left \ DOMAIN progress[r].old
  /\ IF name \notin DOMAIN release
     THEN /\ Disturbed(r, [progress[r] EXCEPT !.left = @ \ {name}])
          /\ release' = Place(release, name, [by |-> r, is |-> progress[r].of[name]])
     ELSE Fails(r) /\ UNCHANGED release
  /\ UNCHANGED <<head, tree, moves>>

(* The assets are listed, and fetched one by one as they were then.         *)
ListRelease(r) ==
  /\ At(r, "upload") /\ progress[r].left = {}
  /\ Goes(r, [at |-> "fetch", of |-> progress[r].of, alone |-> progress[r].alone, assets |-> release])
  /\ UNCHANGED <<head, tree, moves, release>>

Fetched(r) == [n \in DOMAIN progress[r].assets |-> progress[r].assets[n].is]

Conclude(r) ==
  /\ At(r, "fetch")
  /\ Goes(r, [progress[r] EXCEPT !.at = IF Sidecar \in DOMAIN progress[r].assets /\ Verifies(Fetched(r))
                                   THEN "published" ELSE "refused"])
  /\ UNCHANGED <<head, tree, moves, release>>

(* One that is deleted before it is fetched is missed.                      *)
MissAsset(r) ==
  /\ At(r, "fetch")
  /\ \E n \in DOMAIN progress[r].assets : ~(n \in DOMAIN release /\ release[n].by = progress[r].assets[n].by)
  /\ Fails(r)
  /\ UNCHANGED <<head, tree, moves, release>>

(* A runner may stop anywhere.                                              *)
StopRun(r) ==
  /\ progress[r].at \notin {"idle", "failed", "published", "refused"} /\ Fails(r)
  /\ UNCHANGED <<head, tree, moves, release>>

(* Files are edited, or another commit is checked out.                      *)
ChangeRepository(r) ==
  /\ r \in Operator /\ moves < MaxMoves /\ moves' = moves + 1
  /\ \E c \in Commits : tree' = [tree EXCEPT ![r] = c] /\ (head' = head \/ head' = [head EXCEPT ![r] = c])
  /\ UNCHANGED <<progress, release>>

ReleaseNext ==
  \E r \in Builder :
    \/ BeginBuild(r) \/ (\E skip \in BOOLEAN : CheckSource(r, skip))
    \/ StageTree(r) \/ CheckExtracted(r) \/ AddProvenance(r) \/ ListExisting(r)
    \/ \E name \in Assets : DeleteAsset(r, name) \/ UploadAsset(r, name)
    \/ ListRelease(r) \/ Conclude(r) \/ MissAsset(r) \/ StopRun(r) \/ ChangeRepository(r)

ReleaseSpec == ReleaseInit /\ [][ReleaseNext]_releaseVars

-----------------------------------------------------------------------------
(* Whatever verifies was built and checked as one: if the verifier accepts  *)
(* the release, or what a run fetched from it, then its assets, provenance  *)
(* apart, are all of one run, and its package passed its own checks and has *)
(* all that its profiles need, however the uploads of runs interleave       *)
(* (verify_sha256sums, verify_release_dir).                                 *)
OneBuild(assets) ==
  Verifies([n \in DOMAIN assets |-> assets[n].is]) =>
    /\ \A m, n \in DOMAIN assets \ {Sidecar} : assets[m].by = assets[n].by
    /\ assets["zip"].is.by = assets["zip"].by
    /\ assets["zip"].is.commit.works /\ Supported(assets["zip"].is.commit.files)

PublishedIsOneBuild ==
  /\ OneBuild(release)
  /\ \A r \in Builder : progress[r].at \in {"fetch", "published"} => OneBuild(progress[r].assets)

(* A finished build verifies if its script knew exactly what it shipped:    *)
(* the demands of the newest verifier are those that older packages met     *)
(* ("Preserve earlier ... assurance contracts", verify_release_dir).        *)
BuildsVerify ==
  \A r \in Builder :
    (At(r, "built") /\ Shipped(progress[r].package.files) = progress[r].knows) => Verifies(Directory(r))

(* A run that nobody disturbed while it published is not refused, whatever  *)
(* earlier runs left behind, unless it is an asset that the run itself does *)
(* not have (gh release upload --clobber).                                  *)
AloneIsPublished ==
  \A r \in Builder :
    (At(r, "refused") /\ progress[r].alone) => ~(DOMAIN progress[r].assets \subseteq DOMAIN progress[r].of \cup {Sidecar})

(* What releases promise to those who do not see them at work.              *)
ReleasesSound == PublishedIsOneBuild /\ AloneIsPublished /\ BuildsVerify

(* The manifest of a package names the commit it was made of                *)
(* (docs/reference/RELEASE_ASSURANCE_V1.7.md, "source Git commit").         *)
SourceCommitTrue == \A r \in Builder : At(r, "built") => progress[r].package.source = progress[r].package.commit
=============================================================================
