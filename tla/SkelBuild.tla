------------------------------ MODULE SkelBuild ------------------------------
(***************************************************************************)
(* xbpf/src/build.rs: build(), Builder::build and Builder::build_objects,  *)
(* run again and again by a build script into the same OUT_DIR while       *)
(* sources are edited, added, moved and removed.                           *)
(*                                                                         *)
(* A build first sees to the headers (module Headers), then compiles one   *)
(* source after another, and may panic or be killed between any two steps; *)
(* what it has written stays.  A skeleton, or an object, lies where its    *)
(* source lies below src; the root of OUT_DIR has a symbolic link to a     *)
(* skeleton if nothing else has its name.  Compiling is libbpf-cargo's,    *)
(* which writes through a link that is already there.                      *)
(*                                                                         *)
(* OUT_DIR is taken to be an absolute path, as cargo sets it: the target   *)
(* of a link is the path of the skeleton as it is, and a link made with a  *)
(* relative Builder::out_dir would lead nowhere.                           *)
(***************************************************************************)
EXTENDS Headers, FiniteSets

CONSTANTS
  Me,               \* the build script that is followed
  Modes,            \* what it may call, see Mode
  Root,             \* the directory src itself, and OUT_DIR
  Subdirs,          \* the directories below
  Outside,          \* a directory that is not below any src
  GlobOrder,        \* every source the pattern can match, in the order of glob
  ExplicitSources   \* the sequences of sources a build script may add

SourceDirs == {Root, Outside} \cup Subdirs

(* A source and its name, which is what precedes the first dot.            *)
IsSource(f) == f.dir \in SourceDirs /\ f = [dir |-> f.dir, name |-> f.name]

Elements(s) == {s[i] : i \in DOMAIN s}

Sources == Elements(GlobOrder) \cup UNION {Elements(s) : s \in ExplicitSources}
Names   == {f.name : f \in Sources}

ASSUME SkelBuildAssumption ==
  /\ Root \notin Subdirs /\ Outside \notin Subdirs /\ Root # Outside
  /\ \A f \in Sources : IsSource(f)
  /\ GlobOrder \in Seq(Sources) /\ ExplicitSources \subseteq Seq(Sources)
  /\ \A f \in Elements(GlobOrder) : f.dir # Outside
  /\ Me \in Scripts

(* jobs are the headers the script writes first; objects tells whether it  *)
(* calls build_objects rather than build; others are the scripts that run  *)
(* at the same time; edits bounds the edits of a behaviour.                *)
Mode == [jobs : Seq(Places), objects : BOOLEAN, others : SUBSET (Scripts \ {Me}), edits : Nat]

(* Whatever a script calls, all_clang_args dumps a vmlinux.h into its      *)
(* OUT_DIR.                                                                *)
ASSUME ModesAssumption ==
  /\ Modes \subseteq Mode
  /\ \A m \in Modes : <<Me, VmlinuxH>> \in Elements(m.jobs)

NoSkeleton == <<>>
NoLink == "no link"

ASSUME NoLinkAssumption == NoLink \notin Subdirs

Missing == 0   \* the version of a source that does not exist

Versions == Nat \ {Missing}

VARIABLES
  mode,    \* what the script calls
  tree,    \* the version of every source
  edits,   \* edits made so far
  files,   \* the skeletons or objects in OUT_DIR, by directory and name
  links,   \* for every name, what its link in the root of OUT_DIR points to
  stage,   \* where the build is
  todo,    \* the sources it has still to build, the current one first
  listed,  \* the sources named_sources returned
  touched, \* the sources edited since then
  warned   \* names whose link could not be made

outVars   == <<files, links>>
buildVars == <<stage, todo, listed, warned>>
treeVars  == <<tree, edits>>
vars == <<mode, treeVars, touched, outVars, buildVars, headerVars>>

OutDirs == {Root} \cup Subdirs

Init ==
  /\ HeadersInit
  /\ mode \in Modes
  /\ tree = [f \in Sources |-> Missing]
  /\ edits = 0
  /\ files = [p \in OutDirs \X Names |-> NoSkeleton]
  /\ links = [n \in Names |-> NoLink]
  /\ stage = "idle"
  /\ todo = <<>>
  /\ listed = <<>>
  /\ touched = {}
  /\ warned = {}

-----------------------------------------------------------------------------
(* Somebody writes a source, or removes it.                                *)
Edit(f) ==
  /\ edits < mode.edits
  /\ edits' = edits + 1
  /\ \/ tree' = [tree EXCEPT ![f] = edits + 1]
     \/ tree[f] # Missing /\ tree' = [tree EXCEPT ![f] = Missing]
  /\ touched' = touched \cup {f}
  /\ UNCHANGED <<mode, outVars, buildVars, headerVars>>

-----------------------------------------------------------------------------
(* The places in GlobOrder of the sources that exist, from first to last:  *)
(* a set of one sequence.                                                  *)
Matches ==
  LET there == {i \in DOMAIN GlobOrder : tree[GlobOrder[i]] # Missing} IN
    {s \in [1 .. Cardinality(there) -> there] : \A i, j \in DOMAIN s : i < j => s[i] < s[j]}

(* The sources the pattern matches, followed by the ones that were added;  *)
(* a source may be among both.                                             *)
NamedSources(match, explicit) == [i \in DOMAIN match |-> GlobOrder[match[i]]] \o explicit

OccursOnce(n) == \A i, j \in DOMAIN listed : listed[i].name = n /\ listed[j].name = n => i = j

(* A faulty layout that gives sources of different directories one place.  *)
OutSubdirFlat(f) == Root

(* The directory of the source below src, and the root if it has none.     *)
OutSubdir(f) == IF f.dir = Outside THEN Root ELSE f.dir

(* A faulty test that would link a skeleton of the root to itself.         *)
MayLinkAnything(f) == OccursOnce(f.name)

MayLink(f) == ~mode.objects /\ OccursOnce(f.name) /\ OutSubdir(f) # Root

(* The file that is written when f's skeleton is, behind a link or not.    *)
Written(f) ==
  IF OutSubdir(f) = Root /\ links[f.name] # NoLink
  THEN <<links[f.name], f.name>>
  ELSE <<OutSubdir(f), f.name>>

NextSource == stage' = "compiling" /\ todo' = Tail(todo)

(* The headers come first.                                                 *)
Begin ==
  /\ stage \in {"idle", "done", "failed"}
  /\ stage' = "headers"
  /\ script' = [script EXCEPT ![Me] = Start(mode.jobs)]
  /\ UNCHANGED <<mode, treeVars, touched, outVars, todo, listed, warned, header, interrupted>>

(* Once they are there the sources are listed.                             *)
List(explicit) ==
  /\ stage = "headers" /\ script[Me].jobs = <<>>
  /\ stage' = "compiling"
  /\ \E match \in Matches : listed' = NamedSources(match, explicit)
  /\ todo' = listed'
  /\ touched' = {}
  /\ warned' = {}
  /\ UNCHANGED <<mode, treeVars, outVars, headerVars>>

(* A faulty build that only warns when a source does not compile.          *)
CompileOrWarn ==
  /\ stage = "compiling" /\ todo # <<>>
  /\ LET f == Head(todo) IN
       /\ \/ tree[f] # Missing /\ files' = [files EXCEPT ![Written(f)] = <<f, tree[f]>>]
          \/ UNCHANGED files
       /\ IF MayLink(f) THEN stage' = "linking" /\ UNCHANGED todo ELSE NextSource
  /\ UNCHANGED <<mode, treeVars, links, listed, touched, warned, headerVars>>

(* The source compiles and its skeleton is written.                        *)
Compile ==
  /\ stage = "compiling" /\ todo # <<>>
  /\ LET f == Head(todo) IN
       /\ tree[f] # Missing
       /\ files' = [files EXCEPT ![Written(f)] = <<f, tree[f]>>]
       /\ IF MayLink(f) THEN stage' = "linking" /\ UNCHANGED todo ELSE NextSource
  /\ UNCHANGED <<mode, treeVars, links, listed, touched, warned, headerVars>>

(* A faulty build that keeps what it finds in the place of the link.       *)
LinkIfAbsent ==
  /\ stage = "linking"
  /\ LET f == Head(todo) IN
       /\ links' = [links EXCEPT ![f.name] =
            IF @ = NoLink /\ files[<<Root, f.name>>] = NoSkeleton THEN OutSubdir(f) ELSE @]
       /\ NextSource
  /\ UNCHANGED <<mode, treeVars, files, listed, touched, warned, headerVars>>

(* What is in the place of the link, a link or a skeleton, is removed and  *)
(* the link is made; it is only a warning if that fails.  It leads to the  *)
(* skeleton since the path of OUT_DIR is absolute.                         *)
Link ==
  /\ stage = "linking"
  /\ LET f == Head(todo) IN
       /\ files' = [files EXCEPT ![<<Root, f.name>>] = NoSkeleton]
       /\ \/ links' = [links EXCEPT ![f.name] = OutSubdir(f)] /\ UNCHANGED warned
          \/ links' = [links EXCEPT ![f.name] = NoLink] /\ warned' = warned \cup {f.name}
       /\ NextSource
  /\ UNCHANGED <<mode, treeVars, listed, touched, headerVars>>

(* A source does not compile, a directory cannot be created, the old link  *)
(* cannot be removed, or the script is killed.                             *)
Panic ==
  /\ stage \in {"compiling", "linking"}
  /\ stage' = "failed"
  /\ UNCHANGED <<mode, treeVars, outVars, todo, listed, touched, warned, headerVars>>

Finish ==
  /\ stage = "compiling" /\ todo = <<>>
  /\ stage' = "done"
  /\ UNCHANGED <<mode, treeVars, outVars, todo, listed, touched, warned, headerVars>>

(* A faulty build that only warns when a header cannot be written.         *)
WarnOfHeaders ==
  /\ stage = "headers"
  /\ HeaderStep(Me) \/ Interrupt(Me)
  /\ UNCHANGED <<mode, stage, treeVars, touched, outVars, todo, listed, warned>>

(* The script writes a header, or fails to.                                *)
WriteHeaders ==
  /\ stage = "headers"
  /\ \/ HeaderStep(Me) /\ UNCHANGED stage
     \/ Interrupt(Me) /\ stage' = "failed"
  /\ UNCHANGED <<mode, treeVars, touched, outVars, todo, listed, warned>>

(* Another script of the workspace exports headers too; what it does in    *)
(* its own OUT_DIR does not meet this one.                                 *)
Others ==
  /\ \E s \in mode.others :
       \/ HeaderStep(s) \/ Interrupt(s)
       \/ /\ script[s].jobs = <<>>
          /\ script' = [script EXCEPT ![s] = Start(Export(Shared))]
          /\ UNCHANGED <<header, interrupted>>
  /\ UNCHANGED <<mode, treeVars, touched, outVars, buildVars>>

-----------------------------------------------------------------------------
Next ==
  \/ \E f \in Sources : Edit(f)
  \/ Begin \/ WriteHeaders
  \/ \E explicit \in ExplicitSources : List(explicit)
  \/ Compile \/ Link \/ Panic \/ Finish
  \/ Others

Spec == Init /\ [][Next]_vars

-----------------------------------------------------------------------------
(***************************************************************************)
(* Properties.                                                             *)
(***************************************************************************)

Skeletons == Sources \X Versions

(* Every variable has its type; in particular a link never points to the   *)
(* root, where it would point to itself.                                   *)
TypeOK ==
  /\ HeadersTypeOK
  /\ mode \in Modes
  /\ tree \in [Sources -> Versions \cup {Missing}]
  /\ edits \in 0 .. mode.edits
  /\ files \in [OutDirs \X Names -> Skeletons \cup {NoSkeleton}]
  /\ links \in [Names -> Subdirs \cup {NoLink}]
  /\ stage \in {"idle", "headers", "compiling", "linking", "done", "failed"}
  /\ todo \in Seq(Sources) /\ listed \in Seq(Sources)
  /\ touched \subseteq Sources
  /\ warned \subseteq Names

(* What include_bpf! finds by name alone.                                  *)
Included(n) == IF links[n] # NoLink THEN files[<<links[n], n>>] ELSE files[<<Root, n>>]

Unchanged(f) == f \notin touched

(* "A skeleton whose name is unambiguous is additionally symlinked into    *)
(* the root of the output directory, so that include_bpf can find it by    *)
(* name alone": after a build that succeeded, whatever earlier builds of   *)
(* other sources, panics and kills left in OUT_DIR, include_bpf! finds the *)
(* skeleton of the one source of the name, as it is now.                   *)
IncludeFindsTheSource ==
  stage = "done" /\ ~mode.objects =>
    \A f \in Elements(listed) :
      OccursOnce(f.name) /\ Unchanged(f) /\ f.name \notin warned =>
        Included(f.name) = <<f, tree[f]>>

(* A link in an absolute OUT_DIR always points to a skeleton, even if a    *)
(* build panics or is killed between its steps: include_bpf! never meets a *)
(* dangling link.                                                          *)
LinksNeverDangle ==
  \A n \in Names : links[n] # NoLink => files[<<links[n], n>>] # NoSkeleton

(* Nothing else of the build has the place of f: a source outside of any   *)
(* src has the place of one in src itself.                                 *)
HasItsPlace(f) ==
  \A g \in Elements(listed) :
    f # g /\ f.name = g.name => ~({f.dir, g.dir} \subseteq {Root, Outside})

(* The path that build_objects returns for a source is that of the object  *)
(* of that source, as it is now, unless two sources share the place; and a *)
(* name that occurs in several directories is no obstacle to that.         *)
ObjectsAreTheirSources ==
  stage = "done" /\ mode.objects =>
    \A f \in Elements(listed) :
      Unchanged(f) /\ HasItsPlace(f) => files[<<OutSubdir(f), f.name>>] = <<f, tree[f]>>

(* Nothing is compiled against a header that is not there or only half     *)
(* there, because another script is writing it or because writing it did   *)
(* not succeed.  Only a vmlinux.h whose writer was interrupted is taken    *)
(* for a good one; the copy of xbpf.h in an out_dir, which a source finds  *)
(* before any other, is replaced by the next build.                        *)
CompilesAgainstWholeHeaders ==
  stage \in {"compiling", "linking"} =>
    /\ header[<<Me, VmlinuxH>>] = Whole \/ <<Me, VmlinuxH>> \in interrupted
    /\ header[<<Me, XbpfH>>] \in {Absent, Whole}

(* "Artifacts mirror the layout their source has below src" (build.rs:374):*)
(* after a build that succeeded, the file at the place of a source holds   *)
(* the skeleton of that source.                                            *)
ArtifactsMirrorSources ==
  stage = "done" =>
    \A f \in Elements(listed) :
      Unchanged(f) => files[Written(f)] = <<f, tree[f]>>
=============================================================================
