--------------------------- MODULE SkelBuildProofs ---------------------------
(***************************************************************************)
(* Theorems about SkelBuild.  Whatever the build scripts of a workspace do *)
(* to each other's headers, what they leave behind is complete; and after  *)
(* any history of builds, edits, panics and kills, what a build that       *)
(* succeeded has put where include_bpf! and the callers of build_objects   *)
(* look is what it should be, and nothing is compiled against half a       *)
(* header.                                                                 *)
(***************************************************************************)
EXTENDS SkelBuild, FiniteSetTheorems, SequenceTheorems, TLAPS

(* Somebody who writes header p has written all parts up to his position,  *)
(* and nobody has emptied it since: the last one to open the file.         *)
HasLastWriter(p) == \E s \in WritersOf(p) : 1 .. script[s].part \subseteq header[p]

(* HeadersAreWhole is not inductive: that a writer leaves a whole file when*)
(* he is done needs that he, or another writer, has missed none of it.     *)
HeaderInv ==
  /\ HeadersTypeOK
  /\ \A s \in Scripts : script[s].phase # "write" => script[s].part = 0
  /\ \A p \in Places : WritersOf(p) # {} => header[p] # Absent
  /\ \A p \in Places :
       header[p] \in {Absent, Whole} \/ p \in interrupted \/ HasLastWriter(p)

(* The script that is followed has no header to write but in its stage     *)
(* "headers", so that Begin takes no file away from it half written.       *)
Inv ==
  /\ mode \in Modes
  /\ stage # "headers" => script[Me].jobs = <<>>
  /\ HeaderInv

(* What the writers of a header are to a script that is one.               *)
LEMMA Writers ==
  ASSUME NEW p, NEW s
  PROVE  s \in WritersOf(p) <=> s \in Scripts /\ InPhase(s, "write") /\ Place(s) = p
BY DEF WritersOf

(* The invariant implies the property.                                     *)
LEMMA InvImpliesWhole == HeaderInv => HeadersAreWhole
BY DEF HeaderInv, HeadersAreWhole, HasLastWriter

(* The jobs of export_headers are headers in places that exist.            *)
LEMMA ExportType == \A d \in Dirs : Export(d) \in Seq(Places)
BY DEF Export, Dump, Places, VmlinuxH, XbpfH

(* No header is there to begin with.                                       *)
LEMMA HeadersInitInv == HeadersInit => HeaderInv
<1> SUFFICES ASSUME HeadersInit PROVE HeaderInv
  OBVIOUS
<1>1. HeadersTypeOK
  <2>1. header \in [Places -> (SUBSET Whole) \cup {Absent}]
    BY DEF HeadersInit
  <2>2. Idle \in [jobs : Seq(Places), phase : {"look", "dump", "write"}, part : 0 .. Parts - 1]
    BY HeadersAssumption DEF Idle
  <2> QED
    BY <2>1, <2>2 DEF HeadersInit, HeadersTypeOK
<1>2. \A p \in Places : WritersOf(p) = {}
  BY DEF HeadersInit, WritersOf, InPhase, Idle
<1>3. \A s \in Scripts : script[s].part = 0
  BY DEF HeadersInit, Idle
<1> QED
  BY <1>1, <1>2, <1>3 DEF HeaderInv, HeadersInit

-----------------------------------------------------------------------------
(* A step that gives s other jobs, none of them being written, and leaves  *)
(* the headers alone, takes s out of the writers of every header; it must  *)
(* be marked as interrupted if it was one.                                 *)
LEMMA LeavesFiles ==
  ASSUME NEW s \in Scripts, HeaderInv, HeadersTypeOK',
         header' = header,
         \A t \in Scripts \ {s} : script'[t] = script[t],
         ~InPhase(s, "write")',
         interrupted \subseteq interrupted',
         script'[s].part = 0,
         InPhase(s, "write") => Place(s) \in interrupted'
  PROVE  HeaderInv'
<1>1. \A p : WritersOf(p)' = WritersOf(p) \ {s}
  BY DEF WritersOf, InPhase, Place
<1>2. ASSUME NEW p \in Places, WritersOf(p)' # {}
      PROVE  header'[p] # Absent
  BY <1>1, <1>2 DEF HeaderInv
<1>3. ASSUME NEW p \in Places
      PROVE  header'[p] \in {Absent, Whole} \/ p \in interrupted' \/ HasLastWriter(p)'
  <2>1. CASE header[p] \in {Absent, Whole} \/ p \in interrupted
    BY <2>1 DEF Absent, Whole
  <2>2. CASE HasLastWriter(p)
    <3>1. PICK t \in WritersOf(p) : 1 .. script[t].part \subseteq header[p]
      BY <2>2 DEF HasLastWriter
    <3>2. CASE t = s
      BY <3>2, Writers
    <3>3. CASE t # s
      <4>1. t \in WritersOf(p)' /\ script'[t] = script[t]
        BY <3>3, <1>1, Writers
      <4> QED
        BY <3>1, <4>1 DEF HasLastWriter
    <3> QED
      BY <3>2, <3>3
  <2> QED
    BY <2>1, <2>2 DEF HeaderInv
<1>4. \A t \in Scripts : script'[t].phase # "write" => script'[t].part = 0
  BY DEF HeaderInv
<1> QED
  BY <1>2, <1>3, <1>4 DEF HeaderInv

-----------------------------------------------------------------------------
(* What a script is given when it goes on to another job, or starts.       *)
Script == [jobs : Seq(Places), phase : {"look", "dump", "write"}, part : 0 .. Parts - 1]

(* A script that starts a list of jobs, or goes on with the rest of it, is *)
(* one, and writes nothing yet.                                            *)
LEMMA StartType ==
  ASSUME NEW jobs \in Seq(Places)
  PROVE  /\ Start(jobs) \in Script
         /\ Start(jobs).phase = "look" /\ Start(jobs).part = 0
         /\ Start(jobs).jobs = jobs
BY HeadersAssumption DEF Start, Idle, Script

(* A script with something to do has a place to do it at.                  *)
LEMMA PlaceType ==
  ASSUME HeadersTypeOK, NEW s \in Scripts, script[s].jobs # <<>>
  PROVE  /\ Place(s) \in Places
         /\ Tail(script[s].jobs) \in Seq(Places)
         /\ script[s] \in Script
BY DEF HeadersTypeOK, Place, Script

(* dump_kernel_btf that finds a vmlinux.h, and one that runs bpftool, do   *)
(* not touch a file.                                                       *)
LEMMA DumpSkipInv == ASSUME HeaderInv, NEW s \in Scripts, DumpSkip(s) PROVE HeaderInv'
<1>1. script[s].jobs # <<>> /\ HeadersTypeOK
  BY DEF DumpSkip, InPhase, HeaderInv
<1>2. script' = [script EXCEPT ![s] = Start(Tail(script[s].jobs))]
  BY DEF DumpSkip, NextJob
<1>3. Start(Tail(script[s].jobs)) \in Script
  BY <1>1, PlaceType, StartType
<1>4. script'[s] = Start(Tail(script[s].jobs))
  BY <1>1, <1>2 DEF HeadersTypeOK
<1>5. HeadersTypeOK'
  BY <1>1, <1>2, <1>3 DEF HeadersTypeOK, DumpSkip, Script
<1>6. script'[s].phase = "look" /\ script'[s].part = 0
  BY <1>1, <1>4, PlaceType, StartType
<1>7. ~InPhase(s, "write")' /\ ~InPhase(s, "write")
  BY <1>6 DEF InPhase, DumpSkip
<1>8. \A t \in Scripts \ {s} : script'[t] = script[t]
  BY <1>1, <1>2 DEF HeadersTypeOK
<1> QED
  BY <1>5, <1>6, <1>7, <1>8, LeavesFiles DEF DumpSkip

LEMMA DumpRunInv == ASSUME HeaderInv, NEW s \in Scripts, DumpRun(s) PROVE HeaderInv'
<1>1. script[s].jobs # <<>> /\ HeadersTypeOK /\ script[s].phase = "look"
  BY DEF DumpRun, InPhase, HeaderInv
<1>2. script' = [script EXCEPT ![s] = [script[s] EXCEPT !.phase = "dump"]]
  BY DEF DumpRun
<1>3. script[s] \in Script
  BY <1>1, PlaceType
<1>4. script'[s] = [script[s] EXCEPT !.phase = "dump"]
  BY <1>1, <1>2 DEF HeadersTypeOK
<1>5. HeadersTypeOK'
  <2>1. [script[s] EXCEPT !.phase = "dump"] \in Script
    BY <1>3 DEF Script
  <2>2. script' \in [Scripts -> Script]
    BY <1>1, <1>2, <2>1 DEF HeadersTypeOK, Script
  <2> QED
    BY <1>1, <2>2 DEF HeadersTypeOK, DumpRun, Script
<1>6. script'[s].phase = "dump" /\ script'[s].part = 0
  BY <1>1, <1>3, <1>4 DEF Script, HeaderInv
<1>7. ~InPhase(s, "write")' /\ ~InPhase(s, "write")
  BY <1>6 DEF InPhase, DumpRun
<1>8. \A t \in Scripts \ {s} : script'[t] = script[t]
  BY <1>1, <1>2 DEF HeadersTypeOK
<1> QED
  BY <1>5, <1>6, <1>7, <1>8, LeavesFiles DEF DumpRun

(* A script that is interrupted marks the header it was writing.           *)
LEMMA InterruptInv == ASSUME HeaderInv, NEW s \in Scripts, Interrupt(s) PROVE HeaderInv'
<1>1. script[s].jobs # <<>> /\ HeadersTypeOK
  BY DEF Interrupt, HeaderInv
<1>2. script' = [script EXCEPT ![s] = Idle]
  BY DEF Interrupt
<1>3. Idle \in Script
  BY HeadersAssumption DEF Script, Idle
<1>4. script'[s] = Idle
  BY <1>1, <1>2 DEF HeadersTypeOK
<1>5. HeadersTypeOK'
  BY <1>1, <1>2, <1>3, PlaceType DEF HeadersTypeOK, Interrupt, Script
<1>6. script'[s].part = 0 /\ ~InPhase(s, "write")'
  BY <1>4 DEF Idle, InPhase
<1>7. interrupted \subseteq interrupted' /\ (InPhase(s, "write") => Place(s) \in interrupted')
  BY DEF Interrupt
<1>8. \A t \in Scripts \ {s} : script'[t] = script[t]
  BY <1>1, <1>2 DEF HeadersTypeOK
<1> QED
  BY <1>5, <1>6, <1>7, <1>8, LeavesFiles DEF Interrupt

(* A script that had nothing to do starts.                                 *)
LEMMA StartInv ==
  ASSUME HeaderInv, NEW s \in Scripts, script[s].jobs = <<>>, NEW jobs \in Seq(Places),
         script' = [script EXCEPT ![s] = Start(jobs)], UNCHANGED <<header, interrupted>>
  PROVE  HeaderInv'
<1>1. HeadersTypeOK
  BY DEF HeaderInv
<1>2. script'[s] = Start(jobs)
  BY <1>1 DEF HeadersTypeOK
<1>3. script'[s].phase = "look" /\ script'[s].part = 0
  BY <1>2, StartType
<1>4. HeadersTypeOK'
  BY <1>1, StartType DEF HeadersTypeOK, Script
<1>5. ~InPhase(s, "write")' /\ ~InPhase(s, "write")
  BY <1>3 DEF InPhase
<1>6. \A t \in Scripts \ {s} : script'[t] = script[t]
  BY <1>1 DEF HeadersTypeOK
<1> QED
  BY <1>3, <1>4, <1>5, <1>6, LeavesFiles

-----------------------------------------------------------------------------
(* The script that opens a file has written all of its parts up to its     *)
(* position, which is none: it becomes the last writer of that file.       *)
LEMMA OpenFileInv == ASSUME HeaderInv, NEW s \in Scripts, OpenFile(s) PROVE HeaderInv'
<1>1. /\ script[s].jobs # <<>> /\ script[s].phase # "write" /\ HeadersTypeOK
      /\ script[s].part = 0
  BY DEF OpenFile, InPhase, HeaderInv
<1>p. PICK p \in Places : p = Place(s)
  BY <1>1, PlaceType
<1>2. script[s] \in Script
  BY <1>1, PlaceType
<1>3. /\ script' = [script EXCEPT ![s] = [script[s] EXCEPT !.phase = "write"]]
      /\ header' = [header EXCEPT ![p] = {}]
      /\ interrupted' = IF WritersOf(p) = {} THEN interrupted \ {p} ELSE interrupted
  BY <1>p DEF OpenFile
<1>4. script'[s] = [script[s] EXCEPT !.phase = "write"]
  BY <1>1, <1>3 DEF HeadersTypeOK
<1>5. /\ script'[s].phase = "write" /\ script'[s].part = 0
      /\ script'[s].jobs = script[s].jobs
  BY <1>1, <1>2, <1>4 DEF Script
<1>6. \A t \in Scripts \ {s} : script'[t] = script[t]
  BY <1>1, <1>3 DEF HeadersTypeOK
<1>7. HeadersTypeOK'
  BY <1>1, <1>2, <1>3 DEF HeadersTypeOK, Script
<1>8. s \in WritersOf(p)' /\ header'[p] = {}
  BY <1>p, <1>1, <1>2, <1>3, <1>5 DEF HeadersTypeOK, WritersOf, InPhase, Place
<1>9. ASSUME NEW q \in Places \ {p}
      PROVE  /\ WritersOf(q)' = WritersOf(q) /\ header'[q] = header[q]
             /\ q \in interrupted => q \in interrupted'
  <2>1. s \notin WritersOf(q) /\ s \notin WritersOf(q)'
    BY <1>p, <1>1, <1>5, <1>9 DEF WritersOf, InPhase, Place
  <2>2. WritersOf(q)' = WritersOf(q)
    BY <1>6, <2>1 DEF WritersOf, InPhase, Place
  <2> QED
    BY <1>1, <1>2, <1>3, <2>2 DEF HeadersTypeOK
<1>10. \A t \in Scripts : script'[t].phase # "write" => script'[t].part = 0
  BY <1>5, <1>6 DEF HeaderInv
<1>11. HasLastWriter(p)' /\ header'[p] # Absent
  <2>1. 1 .. script'[s].part = {}
    BY <1>5
  <2> QED
    BY <1>8, <2>1 DEF HasLastWriter, Absent
<1>12. ASSUME NEW q \in Places, WritersOf(q)' # {}
       PROVE  header'[q] # Absent
  BY <1>9, <1>11, <1>12 DEF HeaderInv
<1>13. ASSUME NEW q \in Places
       PROVE  header'[q] \in {Absent, Whole} \/ q \in interrupted' \/ HasLastWriter(q)'
  <2>1. CASE q = p
    BY <2>1, <1>11
  <2>2. CASE q # p /\ (header[q] \in {Absent, Whole} \/ q \in interrupted)
    BY <2>2, <1>9 DEF Absent, Whole
  <2>3. CASE q # p /\ HasLastWriter(q)
    <3>1. PICK t \in WritersOf(q) : 1 .. script[t].part \subseteq header[q]
      BY <2>3 DEF HasLastWriter
    <3>2. t # s /\ t \in Scripts
      BY <1>1, <3>1 DEF WritersOf, InPhase
    <3> QED
      BY <1>6, <1>9, <2>3, <3>1, <3>2 DEF HasLastWriter
  <2> QED
    BY <2>1, <2>2, <2>3 DEF HeaderInv
<1> QED
  BY <1>7, <1>10, <1>12, <1>13 DEF HeaderInv

(* A script that writes a part leaves a file in which it has missed none,  *)
(* if it was the last to open it, and the whole file if that part was the  *)
(* last; it takes nothing away from what another writer has written.       *)
LEMMA WritePartInv == ASSUME HeaderInv, NEW s \in Scripts, WritePart(s) PROVE HeaderInv'
<1> DEFINE part == script[s].part + 1
<1>0. script[s].jobs # <<>> /\ script[s].phase = "write" /\ HeadersTypeOK
  BY DEF WritePart, InPhase, HeaderInv
<1>p. PICK p \in Places : p = Place(s)
  BY <1>0, PlaceType
<1>1. /\ script[s].jobs # <<>> /\ script[s].phase = "write" /\ HeadersTypeOK
      /\ s \in WritersOf(p)
  BY <1>0, <1>p DEF InPhase, WritersOf
<1>2. script[s] \in Script /\ Tail(script[s].jobs) \in Seq(Places)
  BY <1>1, PlaceType
<1>3. part \in Whole /\ part \in Nat /\ 1 .. part = (1 .. script[s].part) \cup {part}
  BY <1>2, HeadersAssumption DEF Script, Whole
<1>4. header[p] \subseteq Whole
  BY <1>1, <1>2 DEF HeaderInv, HeadersTypeOK
<1>5. header' = [header EXCEPT ![p] = header[p] \cup {part}] /\ interrupted' = interrupted
  <2>1. header[p] \ Absent = header[p]
    BY <1>4, HeadersAssumption DEF Absent, Whole
  <2> QED
    BY <1>p, <2>1 DEF WritePart
<1>6. /\ header'[p] = header[p] \cup {part} /\ header'[p] \subseteq Whole
      /\ \A q \in Places \ {p} : header'[q] = header[q]
      /\ header' \in [Places -> (SUBSET Whole) \cup {Absent}]
  BY <1>1, <1>2, <1>3, <1>4, <1>5 DEF HeadersTypeOK
<1>7. header'[p] # Absent
  BY <1>3, <1>6, HeadersAssumption DEF Absent, Whole
<1>8. \A q \in Places : header[q] = Whole => header'[q] = Whole
  BY <1>3, <1>6
<1>9. /\ script' \in [Scripts -> Script] /\ \A t \in Scripts \ {s} : script'[t] = script[t]
      /\ \/ part = Parts /\ script'[s] = Start(Tail(script[s].jobs))
         \/ part # Parts /\ script'[s] = [script[s] EXCEPT !.part = part]
  <2>1. script \in [Scripts -> Script]
    BY <1>1 DEF HeadersTypeOK, Script
  <2>2. CASE part = Parts
    <3>1. script' = [script EXCEPT ![s] = Start(Tail(script[s].jobs))]
      BY <2>2 DEF WritePart, NextJob
    <3>2. Start(Tail(script[s].jobs)) \in Script
      BY <1>2, StartType
    <3> QED
      BY <2>1, <2>2, <3>1, <3>2
  <2>3. CASE part # Parts
    <3>1. script' = [script EXCEPT ![s] = [script[s] EXCEPT !.part = part]]
      BY <2>3 DEF WritePart
    <3>2. part \in 0 .. Parts - 1
      BY <1>3, <2>3, HeadersAssumption DEF Whole
    <3>3. [script[s] EXCEPT !.part = part] \in Script
      BY <1>2, <3>2 DEF Script
    <3> QED
      BY <2>1, <2>3, <3>1, <3>3
  <2> QED
    BY <2>2, <2>3
<1>10. HeadersTypeOK'
  BY <1>1, <1>5, <1>6, <1>9 DEF HeadersTypeOK, Script
<1>11. \A t \in Scripts : script'[t].phase # "write" => script'[t].part = 0
  <2>1. CASE part = Parts
    <3>1. script'[s].part = 0
      BY <2>1, <1>2, <1>9, StartType
    <3> QED
      BY <3>1, <1>9 DEF HeaderInv
  <2>2. CASE part # Parts
    BY <2>2, <1>1, <1>2, <1>9 DEF HeaderInv, Script
  <2> QED
    BY <2>1, <2>2
<1>12. ASSUME NEW q \in Places, NEW t \in Scripts \ {s}
       PROVE  t \in WritersOf(q)' <=> t \in WritersOf(q)
  BY <1>9, <1>12 DEF WritersOf, InPhase, Place
<1>13. ASSUME NEW q \in Places, WritersOf(q)' # {}
       PROVE  header'[q] # Absent
  <2>1. CASE q = p
    BY <2>1, <1>7
  <2>2. CASE q # p
    <3>1. s \notin WritersOf(q)'
      <4>1. CASE part = Parts
        BY <4>1, <1>2, <1>9, StartType DEF WritersOf, InPhase
      <4>2. CASE part # Parts
        BY <1>p, <4>2, <1>2, <1>9, <2>2 DEF WritersOf, Place, Script
      <4> QED
        BY <4>1, <4>2
    <3>2. WritersOf(q) # {}
      BY <1>12, <1>13, <3>1 DEF WritersOf
    <3> QED
      BY <1>6, <2>2, <3>2 DEF HeaderInv
  <2> QED
    BY <2>1, <2>2
<1>14. ASSUME NEW q \in Places
       PROVE  header'[q] \in {Absent, Whole} \/ q \in interrupted' \/ HasLastWriter(q)'
  <2>1. CASE q \in interrupted
    BY <2>1, <1>5
  <2>2. CASE header[q] = Whole
    BY <2>2, <1>8
  <2>3. CASE header[q] = Absent
    <3>1. q # p
      BY <2>3, <1>4, HeadersAssumption DEF Absent, Whole
    <3> QED
      BY <2>3, <3>1, <1>6 DEF Absent, Whole
  <2>4. ASSUME NEW t \in WritersOf(q), t # s, 1 .. script[t].part \subseteq header[q]
        PROVE  HasLastWriter(q)'
    <3>1. t \in WritersOf(q)' /\ script'[t] = script[t]
      BY <1>9, <1>12, <2>4 DEF WritersOf
    <3>2. header[q] \subseteq header'[q]
      BY <1>6
    <3> QED
      BY <2>4, <3>1, <3>2 DEF HasLastWriter
  <2>5. CASE s \in WritersOf(q) /\ 1 .. script[s].part \subseteq header[q]
    <3>1. q = p /\ 1 .. part \subseteq header'[p]
      BY <1>p, <1>3, <1>6, <2>5 DEF WritersOf
    <3>2. CASE part = Parts
      BY <3>1, <3>2, <1>6 DEF Whole
    <3>3. CASE part # Parts
      <4>1. script'[s] = [script[s] EXCEPT !.part = part]
        BY <3>3, <1>9
      <4>2. script'[s].part = part /\ s \in WritersOf(q)'
        BY <1>p, <4>1, <1>1, <1>2, <3>1 DEF Script, WritersOf, InPhase, Place
      <4> QED
        BY <3>1, <4>2 DEF HasLastWriter
    <3> QED
      BY <3>2, <3>3
  <2> QED
    BY <2>1, <2>2, <2>3, <2>4, <2>5 DEF HeaderInv, HasLastWriter
<1> QED
  BY <1>10, <1>11, <1>13, <1>14 DEF HeaderInv

(* Whatever a script does to the headers keeps the invariant.              *)
LEMMA HeaderStepInv == ASSUME HeaderInv, NEW s \in Scripts, HeaderStep(s) PROVE HeaderInv'
BY DumpSkipInv, DumpRunInv, OpenFileInv, WritePartInv DEF HeaderStep

-----------------------------------------------------------------------------
(* The build itself touches no header but through the steps above.         *)
LEMMA HeadersUnchanged ==
  ASSUME HeaderInv, UNCHANGED headerVars
  PROVE  HeaderInv'
BY DEF HeaderInv, headerVars, HeadersTypeOK, HasLastWriter, WritersOf, InPhase, Place

(* A step of another script leaves the jobs of this one alone.             *)
LEMMA JobsOfOthers ==
  ASSUME HeadersTypeOK, NEW s \in Scripts, NEW t \in Scripts, s # t,
         \/ HeaderStep(s) \/ Interrupt(s)
         \/ script' = [script EXCEPT ![s] = Start(Export(Shared))]
  PROVE  script'[t] = script[t]
BY DEF HeadersTypeOK, HeaderStep, DumpSkip, DumpRun, OpenFile, WritePart, NextJob, Interrupt

(* The invariant holds at the start.                                       *)
LEMMA InitInv == Init => Inv
BY HeadersInitInv, SkelBuildAssumption DEF Init, Inv, HeadersInit, Idle

(* Every step of the workspace keeps it.                                   *)
LEMMA NextInv == Inv /\ [Next]_vars => Inv'
<1> SUFFICES ASSUME Inv, [Next]_vars PROVE Inv'
  OBVIOUS
<1>1. /\ mode \in Modes /\ mode.jobs \in Seq(Places) /\ mode.others \subseteq Scripts \ {Me}
      /\ HeaderInv /\ HeadersTypeOK /\ Me \in Scripts
  BY ModesAssumption, SkelBuildAssumption DEF Inv, HeaderInv, Mode
<1>2. mode' = mode
  BY DEF Next, vars, Edit, Begin, WriteHeaders, List, Compile, Link, Panic, Finish, Others
<1>3. ASSUME NEW f \in Sources, Edit(f) PROVE Inv'
  BY <1>1, <1>2, <1>3, HeadersUnchanged DEF Edit, Inv, buildVars, headerVars
<1>4. CASE Begin
  <2>1. script[Me].jobs = <<>> /\ stage' = "headers"
    BY <1>4 DEF Begin, Inv
  <2> QED
    BY <1>1, <1>2, <1>4, <2>1, StartInv DEF Begin, Inv
<1>5. CASE WriteHeaders
  <2>1. CASE HeaderStep(Me) /\ UNCHANGED stage
    BY <1>1, <1>2, <1>5, <2>1, HeaderStepInv DEF WriteHeaders, Inv
  <2>2. CASE Interrupt(Me)
    <3>1. script'[Me] = Idle
      BY <1>1, <2>2 DEF Interrupt, HeadersTypeOK
    <3> QED
      BY <1>1, <1>2, <2>2, <3>1, InterruptInv DEF Inv, Idle
  <2> QED
    BY <1>5, <2>1, <2>2 DEF WriteHeaders
<1>6. ASSUME NEW explicit \in ExplicitSources, List(explicit) PROVE Inv'
  BY <1>1, <1>2, <1>6, HeadersUnchanged DEF List, Inv, headerVars
<1>7. CASE Compile
  BY <1>1, <1>2, <1>7, HeadersUnchanged DEF Compile, NextSource, Inv, headerVars
<1>8. CASE Link
  BY <1>1, <1>2, <1>8, HeadersUnchanged DEF Link, NextSource, Inv, headerVars
<1>9. CASE Panic
  BY <1>1, <1>2, <1>9, HeadersUnchanged DEF Panic, Inv, headerVars
<1>10. CASE Finish
  BY <1>1, <1>2, <1>10, HeadersUnchanged DEF Finish, Inv, headerVars
<1>11. CASE Others
  <2>1. PICK s \in mode.others :
          \/ HeaderStep(s) \/ Interrupt(s)
          \/ /\ script[s].jobs = <<>>
             /\ script' = [script EXCEPT ![s] = Start(Export(Shared))]
             /\ UNCHANGED <<header, interrupted>>
    BY <1>11 DEF Others
  <2>2. s \in Scripts /\ s # Me /\ stage' = stage
    BY <1>1, <1>11, <2>1 DEF Others, buildVars
  <2>3. script'[Me] = script[Me]
    BY <1>1, <2>1, <2>2, JobsOfOthers
  <2>4. Export(Shared) \in Seq(Places)
    BY ExportType DEF Dirs
  <2>5. HeaderInv'
    BY <1>1, <2>1, <2>2, <2>4, HeaderStepInv, InterruptInv, StartInv
  <2> QED
    BY <1>1, <1>2, <2>2, <2>3, <2>5 DEF Inv
<1>12. CASE UNCHANGED vars
  BY <1>1, <1>2, <1>12, HeadersUnchanged DEF vars, Inv, buildVars, headerVars
<1> QED
  BY <1>3, <1>4, <1>5, <1>6, <1>7, <1>8, <1>9, <1>10, <1>11, <1>12 DEF Next

(* For every workspace, every list of headers and however many pieces a    *)
(* file reaches the disk in: a header that exists and that no build script *)
(* is writing is complete, unless a script was interrupted at it.          *)
THEOREM WholeHeaders == Spec => []HeadersAreWhole
<1>1. Inv => HeadersAreWhole
  BY InvImpliesWhole DEF Inv
<1> QED
  BY InitInv, NextInv, <1>1, PTL DEF Spec
-----------------------------------------------------------------------------
(* What is built.                                                          *)

(* What is below f's place in OUT_DIR, and whether that is f as it is now. *)
Artifact(f) == files[<<OutSubdir(f), f.name>>]

IsCurrent(f) == Artifact(f) = <<f, tree[f]>>

(* The build has come past f.                                              *)
IsBuilt(f) == f \in Elements(listed) \ Elements(todo)

Running == {"compiling", "linking", "done"}

(* objects are not linked.                                                 *)
ObjectsHaveNoLinks == mode.objects => \A n \in Names : links[n] = NoLink

(* Only a source that has just been compiled is about to be linked, and    *)
(* its skeleton is there.                                                  *)
CompiledBeforeLinked ==
  stage = "linking" =>
    /\ todo # <<>> /\ MayLink(Head(todo))
    /\ Artifact(Head(todo)) # NoSkeleton
    /\ Unchanged(Head(todo)) => IsCurrent(Head(todo))

(* IncludeFindsTheSource and ObjectsAreTheirSources speak of the end of a  *)
(* build; this is what each round of the loop contributes.                 *)
IncludedSoFar ==
  stage \in Running /\ ~mode.objects =>
    \A f \in Sources :
      IsBuilt(f) /\ OccursOnce(f.name) /\ Unchanged(f) /\ f.name \notin warned =>
        Included(f.name) = <<f, tree[f]>>

ObjectsSoFar ==
  stage \in Running /\ mode.objects =>
    \A f \in Sources : IsBuilt(f) /\ Unchanged(f) /\ HasItsPlace(f) => IsCurrent(f)

ListIsFollowed ==
  /\ Elements(todo) \subseteq Elements(listed)
  /\ stage = "done" => todo = <<>>

SkeletonInv ==
  /\ ListIsFollowed
  /\ ObjectsHaveNoLinks
  /\ LinksNeverDangle
  /\ CompiledBeforeLinked
  /\ IncludedSoFar
  /\ ObjectsSoFar

(* The other scripts write to the directory that is shared, and to their   *)
(* own, which are not looked at.                                           *)
OthersShare ==
  \A s \in Scripts \ {Me} : \A p \in Elements(script[s].jobs) : p[1] = Shared

(* In its OUT_DIR the script that is followed is alone, so the parts of a  *)
(* header it has written there are still there.                            *)
NothingIsTaken ==
  InPhase(Me, "write") /\ Place(Me)[1] = Me => 1 .. script[Me].part \subseteq header[Place(Me)]

(* The jobs are done one after another; vmlinux.h is then there, by        *)
(* whichever build, and a copy of xbpf.h is that of this build.            *)
JobsAreDone ==
  /\ Elements(script[Me].jobs) \subseteq Elements(mode.jobs)
  /\ stage \in {"headers", "compiling", "linking"} =>
       \A p \in Elements(mode.jobs) \ Elements(script[Me].jobs) :
         /\ p = <<Me, VmlinuxH>> => header[p] # Absent
         /\ p = <<Me, XbpfH>> => header[p] = Whole
  /\ <<Me, XbpfH>> \notin Elements(mode.jobs) => header[<<Me, XbpfH>>] = Absent

OwnHeadersInv == OthersShare /\ NothingIsTaken /\ JobsAreDone

BuildInv == Inv /\ TypeOK /\ SkeletonInv /\ OwnHeadersInv

-----------------------------------------------------------------------------
(* The elements of a sequence, its first one and the others.               *)
LEMMA ElementsOf ==
  ASSUME NEW S, NEW s \in Seq(S)
  PROVE  /\ Elements(s) \subseteq S
         /\ s = <<>> => Elements(s) = {}
         /\ s # <<>> => /\ Head(s) \in S /\ Tail(s) \in Seq(S)
                        /\ Elements(s) = {Head(s)} \cup Elements(Tail(s))
<1>1. /\ DOMAIN s = 1 .. Len(s) /\ Len(s) \in Nat /\ s \in [1 .. Len(s) -> S]
  BY LenProperties
<1>2. Elements(s) \subseteq S
  BY <1>1 DEF Elements
<1>3. ASSUME s = <<>> PROVE Elements(s) = {}
  <2>1. DOMAIN s = {}
    BY <1>3
  <2> QED
    BY <2>1 DEF Elements
<1>4. ASSUME s # <<>>
      PROVE  /\ Head(s) \in S /\ Tail(s) \in Seq(S)
             /\ Elements(s) = {Head(s)} \cup Elements(Tail(s))
  <2>1. /\ Len(s) # 0 /\ Head(s) = s[1] /\ Tail(s) \in Seq(S)
        /\ Len(Tail(s)) = Len(s) - 1
        /\ \A i \in 1 .. Len(s) - 1 : Tail(s)[i] = s[i + 1]
    BY <1>1, <1>4, EmptySeq, HeadTailProperties
  <2>2. DOMAIN Tail(s) = 1 .. Len(s) - 1
    BY <2>1, LenProperties
  <2>3. ASSUME NEW x \in Elements(s) PROVE x = Head(s) \/ x \in Elements(Tail(s))
    <3>1. PICK i \in 1 .. Len(s) : x = s[i]
      BY <1>1 DEF Elements
    <3>2. CASE i = 1
      BY <2>1, <3>1, <3>2
    <3>3. CASE i # 1
      <4>1. i - 1 \in 1 .. Len(s) - 1 /\ i - 1 + 1 = i
        BY <1>1, <3>3
      <4> QED
        BY <2>1, <2>2, <3>1, <4>1 DEF Elements
    <3> QED
      BY <3>2, <3>3
  <2>4. ASSUME NEW x \in Elements(Tail(s)) PROVE x \in Elements(s)
    <3>1. PICK i \in 1 .. Len(s) - 1 : x = Tail(s)[i]
      BY <2>2 DEF Elements
    <3>2. i + 1 \in 1 .. Len(s)
      BY <1>1
    <3> QED
      BY <1>1, <2>1, <3>1, <3>2 DEF Elements
  <2>5. 1 \in DOMAIN s /\ Head(s) \in Elements(s) /\ Head(s) \in S
    BY <1>1, <2>1 DEF Elements
  <2> QED
    BY <2>1, <2>3, <2>4, <2>5
<1> QED
  BY <1>2, <1>3, <1>4

(* The empty sequence, for where it is not known what it is a sequence of. *)
LEMMA NoElements == Elements(<<>>) = {}
BY DEF Elements

(* What is known of a source: it has a place in OUT_DIR.                   *)
LEMMA PlaceOf ==
  ASSUME NEW f \in Sources
  PROVE  /\ f.name \in Names /\ f = [dir |-> f.dir, name |-> f.name]
         /\ OutSubdir(f) = Root \/ OutSubdir(f) \in Subdirs
         /\ <<OutSubdir(f), f.name>> \in OutDirs \X Names
         /\ OutSubdir(f) # Outside
         /\ OutSubdir(f) = Root <=> f.dir \in {Root, Outside}
         /\ OutSubdir(f) # Root => OutSubdir(f) = f.dir
<1>1. IsSource(f) /\ Outside # Root /\ Outside \notin Subdirs /\ Root \notin Subdirs
  BY SkelBuildAssumption
<1> QED
  BY <1>1 DEF IsSource, SourceDirs, OutSubdir, OutDirs, Names

(* Writing an output file does not leave the name of the source, whether   *)
(* it goes through a link or not.                                          *)
LEMMA WrittenType ==
  ASSUME NEW f \in Sources, links \in [Names -> Subdirs \cup {NoLink}]
  PROVE  /\ Written(f) \in OutDirs \X Names
         /\ \E d \in OutDirs : Written(f) = <<d, f.name>>
BY PlaceOf DEF Written, OutDirs

(* A name that occurs once is that of one source.                          *)
LEMMA OnlyOne ==
  ASSUME NEW f \in Elements(listed), NEW g \in Elements(listed),
         f.name = g.name, OccursOnce(f.name)
  PROVE  f = g
<1>1. PICK i \in DOMAIN listed : f = listed[i]
  BY DEF Elements
<1>2. PICK j \in DOMAIN listed : g = listed[j]
  BY DEF Elements
<1> QED
  BY <1>1, <1>2 DEF OccursOnce

(* Two sources share a place only if both are taken to lie in the root.    *)
LEMMA SamePlace ==
  ASSUME NEW f \in Sources, NEW g \in Sources, f # g,
         f.name = g.name, OutSubdir(f) = OutSubdir(g)
  PROVE  {f.dir, g.dir} \subseteq {Root, Outside}
<1>1. CASE OutSubdir(f) = Root
  BY <1>1, PlaceOf
<1>2. CASE OutSubdir(f) # Root
  <2>1. f.dir = g.dir
    BY <1>2, PlaceOf
  <2> QED
    BY <2>1, PlaceOf
<1> QED
  BY <1>1, <1>2
-----------------------------------------------------------------------------
(* What TypeOK says about the variables of the build.                      *)
LEMMA Types ==
  ASSUME TypeOK
  PROVE  /\ links \in [Names -> Subdirs \cup {NoLink}]
         /\ files \in [OutDirs \X Names -> Skeletons \cup {NoSkeleton}]
         /\ tree \in [Sources -> Versions \cup {Missing}]
         /\ todo \in Seq(Sources) /\ listed \in Seq(Sources)
         /\ Elements(todo) \subseteq Sources /\ Elements(listed) \subseteq Sources
BY ElementsOf DEF TypeOK

(* A skeleton is not the mark of a place that has none.                    *)
LEMMA SkeletonIsOne == \A f, v : <<f, v>> # NoSkeleton
BY DEF NoSkeleton

(* Compile writes the artifact of the first source that is left to build,  *)
(* behind the link of its name if it lies in the root and there is one.    *)
LEMMA CompileSkeleton == ASSUME TypeOK, SkeletonInv, Compile PROVE SkeletonInv'
<1>f. PICK f \in Sources : f = Head(todo)
  <2>1. todo # <<>> /\ todo \in Seq(Sources)
    BY Types DEF Compile
  <2> QED
    BY <2>1, ElementsOf
<1>w. PICK w \in OutDirs \X Names : w = Written(f)
  BY Types, WrittenType
<1>0. /\ stage = "compiling" /\ todo # <<>> /\ tree[f] # Missing
      /\ files' = [files EXCEPT ![w] = <<f, tree[f]>>]
      /\ IF MayLink(f) THEN stage' = "linking" /\ todo' = todo
                       ELSE stage' = "compiling" /\ todo' = Tail(todo)
      /\ UNCHANGED <<mode, tree, links, listed, touched, warned>>
  BY <1>f, <1>w DEF Compile, NextSource, treeVars
<1>1. /\ Elements(todo) = {f} \cup Elements(Tail(todo))
      /\ f \in Elements(todo) /\ f \in Elements(listed)
  <2>1. Elements(todo) = {f} \cup Elements(Tail(todo))
    BY <1>0, <1>f, Types, ElementsOf
  <2> QED
    BY <2>1 DEF SkeletonInv, ListIsFollowed
<1>2. PICK d \in OutDirs : w = <<d, f.name>>
  BY <1>w, Types, WrittenType
<1>3. /\ files'[w] = <<f, tree[f]>>
      /\ \A x \in OutDirs \X Names : x # w => files'[x] = files[x]
  BY <1>0, Types
<1>4. ListIsFollowed'
  <2>1. Elements(todo') \subseteq Elements(todo)
    BY <1>0, <1>1
  <2> QED
    BY <1>0, <2>1 DEF SkeletonInv, ListIsFollowed, Elements
<1>5. ObjectsHaveNoLinks'
  BY <1>0 DEF SkeletonInv, ObjectsHaveNoLinks
<1>6. LinksNeverDangle'
  <2> SUFFICES ASSUME NEW n \in Names, links[n] # NoLink
               PROVE  files'[<<links[n], n>>] # NoSkeleton
    BY <1>0 DEF LinksNeverDangle
  <2>1. <<links[n], n>> \in OutDirs \X Names /\ files[<<links[n], n>>] # NoSkeleton
    BY Types DEF OutDirs, SkeletonInv, LinksNeverDangle
  <2> QED
    BY <1>3, <2>1, SkeletonIsOne
<1>7. CompiledBeforeLinked'
  <2>1. CASE ~MayLink(f)
    BY <1>0, <2>1 DEF CompiledBeforeLinked
  <2>2. CASE MayLink(f)
    <3>1. w = <<OutSubdir(f), f.name>>
      BY <1>w, <2>2 DEF MayLink, Written
    <3>2. todo' = todo /\ MayLink(f)'
      BY <1>0, <2>2 DEF MayLink, OccursOnce, OutSubdir
    <3>3. Artifact(f)' = <<f, tree[f]>> /\ tree' = tree
      BY <1>0, <1>3, <3>1 DEF Artifact, OutSubdir
    <3> QED
      BY <1>0, <1>f, <3>2, <3>3, SkeletonIsOne DEF CompiledBeforeLinked, IsCurrent
  <2> QED
    BY <2>1, <2>2
<1>8. ASSUME NEW g \in Sources, IsBuilt(g)', g # f
      PROVE  IsBuilt(g) /\ g \in Elements(listed)
  BY <1>0, <1>1, <1>8 DEF IsBuilt, Elements
<1>9. IncludedSoFar'
  <2> SUFFICES ASSUME ~mode.objects, NEW g \in Sources,
                      IsBuilt(g)', OccursOnce(g.name)', Unchanged(g)', g.name \notin warned'
               PROVE  Included(g.name)' = <<g, tree'[g]>>
    BY <1>0 DEF IncludedSoFar
  <2>1. OccursOnce(g.name) /\ Unchanged(g) /\ g.name \notin warned /\ tree'[g] = tree[g]
    BY <1>0 DEF OccursOnce, Unchanged
  <2>2. CASE g = f
    <3>1. ~MayLink(f)
      BY <1>0, <1>1, <2>2 DEF IsBuilt, Elements
    <3>2. OutSubdir(f) = Root
      BY <2>1, <2>2, <3>1 DEF MayLink
    <3>3. CASE links[f.name] # NoLink
      <4>1. w = <<links[f.name], f.name>>
        BY <1>w, <3>2, <3>3 DEF Written
      <4> QED
        BY <1>0, <1>3, <2>2, <3>3, <4>1 DEF Included
    <3>4. CASE links[f.name] = NoLink
      <4>1. w = <<Root, f.name>>
        BY <1>w, <3>2, <3>4 DEF Written
      <4> QED
        BY <1>0, <1>3, <2>2, <3>4, <4>1 DEF Included
    <3> QED
      BY <3>3, <3>4
  <2>3. CASE g # f
    <3>1. g.name # f.name
      BY <1>1, <1>8, <2>1, <2>3, OnlyOne
    <3>2. Included(g.name) = <<g, tree[g]>>
      BY <1>0, <1>8, <2>1, <2>3 DEF SkeletonInv, IncludedSoFar, Running
    <3>3. /\ <<Root, g.name>> \in OutDirs \X Names /\ <<Root, g.name>> # w
          /\ links[g.name] # NoLink =>
               <<links[g.name], g.name>> \in OutDirs \X Names /\ <<links[g.name], g.name>> # w
      BY <1>2, <3>1, Types, PlaceOf DEF OutDirs
    <3>4. Included(g.name)' = Included(g.name)
      BY <1>0, <1>3, <3>3 DEF Included
    <3> QED
      BY <2>1, <3>2, <3>4
  <2> QED
    BY <2>2, <2>3
<1>10. ObjectsSoFar'
  <2> SUFFICES ASSUME mode.objects, NEW g \in Sources,
                      IsBuilt(g)', Unchanged(g)', HasItsPlace(g)'
               PROVE  IsCurrent(g)'
    BY <1>0 DEF ObjectsSoFar
  <2>1. Unchanged(g) /\ HasItsPlace(g)
    BY <1>0 DEF Unchanged, HasItsPlace, Elements
  <2>2. w = <<OutSubdir(f), f.name>>
    BY <1>w, PlaceOf DEF Written, SkeletonInv, ObjectsHaveNoLinks
  <2>3. CASE g = f
    BY <1>0, <1>3, <2>2, <2>3 DEF IsCurrent, Artifact, OutSubdir
  <2>4. CASE g # f
    <3>1. IsCurrent(g)
      BY <1>0, <1>8, <2>1, <2>4 DEF SkeletonInv, ObjectsSoFar, Running
    <3>2. <<OutSubdir(g), g.name>> # w
      <4>1. SUFFICES ASSUME OutSubdir(g) = OutSubdir(f), g.name = f.name PROVE FALSE
        BY <2>2
      <4>2. {g.dir, f.dir} \subseteq {Root, Outside}
        BY <2>4, <4>1, SamePlace
      <4> QED
        BY <1>1, <2>1, <2>4, <4>1, <4>2 DEF HasItsPlace
    <3>3. files'[<<OutSubdir(g), g.name>>] = files[<<OutSubdir(g), g.name>>]
      BY <1>3, <3>2, PlaceOf
    <3> QED
      BY <1>0, <3>1, <3>3 DEF IsCurrent, Artifact, OutSubdir
  <2> QED
    BY <2>3, <2>4
<1> QED
  BY <1>4, <1>5, <1>6, <1>7, <1>9, <1>10 DEF SkeletonInv

(* Link replaces what is in the root by a link to the skeleton that has    *)
(* just been written; it touches no other name, and no other directory.    *)
LEMMA LinkSkeleton == ASSUME TypeOK, SkeletonInv, Link PROVE SkeletonInv'
<1>a. /\ stage = "linking" /\ todo # <<>> /\ MayLink(Head(todo))
      /\ Artifact(Head(todo)) # NoSkeleton
      /\ Unchanged(Head(todo)) => IsCurrent(Head(todo))
  BY DEF Link, SkeletonInv, CompiledBeforeLinked
<1>f. PICK f \in Sources : f = Head(todo)
  BY <1>a, Types, ElementsOf
<1>0. /\ MayLink(f) /\ Artifact(f) # NoSkeleton
      /\ Unchanged(f) => IsCurrent(f)
      /\ stage' = "compiling" /\ todo' = Tail(todo)
      /\ files' = [files EXCEPT ![<<Root, f.name>>] = NoSkeleton]
      /\ UNCHANGED <<mode, tree, listed, touched>>
      /\ \/ links' = [links EXCEPT ![f.name] = OutSubdir(f)] /\ warned' = warned
         \/ links' = [links EXCEPT ![f.name] = NoLink] /\ warned' = warned \cup {f.name}
  BY <1>a, <1>f DEF Link, NextSource, treeVars
<1>1. /\ Elements(todo) = {f} \cup Elements(Tail(todo))
      /\ f \in Elements(todo) /\ f \in Elements(listed)
  <2>1. Elements(todo) = {f} \cup Elements(Tail(todo))
    BY <1>a, <1>f, Types, ElementsOf
  <2> QED
    BY <2>1 DEF SkeletonInv, ListIsFollowed
<1>2. ~mode.objects /\ OccursOnce(f.name) /\ OutSubdir(f) \in Subdirs /\ Root \notin Subdirs
  BY <1>0, PlaceOf, SkelBuildAssumption DEF MayLink
<1>3. \A x \in OutDirs \X Names : x # <<Root, f.name>> => files'[x] = files[x]
  BY <1>0, Types
<1>4. \A n \in Names : n # f.name => links'[n] = links[n]
  BY <1>0, Types
<1>5. \/ links'[f.name] = OutSubdir(f)
      \/ links'[f.name] = NoLink /\ f.name \in warned'
  BY <1>0, PlaceOf, Types
<1>6. files'[<<OutSubdir(f), f.name>>] = Artifact(f)
  <2>1. PICK x \in OutDirs \X Names : x = <<OutSubdir(f), f.name>>
    BY PlaceOf
  <2>2. x # <<Root, f.name>>
    BY <1>2, <2>1
  <2> QED
    BY <1>3, <2>1, <2>2 DEF Artifact
<1>7. ListIsFollowed'
  <2>1. Elements(Tail(todo)) \subseteq Elements(listed)
    BY <1>1 DEF SkeletonInv, ListIsFollowed
  <2>2. Elements(todo)' = Elements(Tail(todo)) /\ Elements(listed)' = Elements(listed)
    BY <1>0 DEF Elements
  <2> QED
    BY <1>0, <2>1, <2>2 DEF ListIsFollowed
<1>8. ObjectsHaveNoLinks' /\ ObjectsSoFar'
  BY <1>0, <1>2 DEF ObjectsHaveNoLinks, ObjectsSoFar
<1>9. CompiledBeforeLinked'
  BY <1>0 DEF CompiledBeforeLinked
<1>10. LinksNeverDangle'
  <2> SUFFICES ASSUME NEW n \in Names, links'[n] # NoLink
               PROVE  files'[<<links'[n], n>>] # NoSkeleton
    BY DEF LinksNeverDangle
  <2>1. CASE n = f.name
    BY <1>0, <1>5, <1>6, <2>1
  <2>2. CASE n # f.name
    <3>1. links'[n] = links[n] /\ links[n] \in Subdirs /\ files[<<links[n], n>>] # NoSkeleton
      BY <1>4, <2>2, Types DEF SkeletonInv, LinksNeverDangle
    <3>2. <<links[n], n>> \in OutDirs \X Names
      BY <3>1 DEF OutDirs
    <3> QED
      BY <1>3, <2>2, <3>1, <3>2
  <2> QED
    BY <2>1, <2>2
<1>11. IncludedSoFar'
  <2> SUFFICES ASSUME NEW g \in Sources,
                      IsBuilt(g)', OccursOnce(g.name)', Unchanged(g)', g.name \notin warned'
               PROVE  Included(g.name)' = <<g, tree'[g]>>
    BY DEF IncludedSoFar
  <2>1. OccursOnce(g.name) /\ Unchanged(g) /\ g.name \notin warned /\ tree'[g] = tree[g]
    BY <1>0 DEF OccursOnce, Unchanged
  <2>2. CASE g = f
    <3>1. links'[f.name] = OutSubdir(f) /\ OutSubdir(f) # NoLink
      BY <1>2, <1>5, <2>2, NoLinkAssumption
    <3>2. Artifact(f) = <<f, tree[f]>>
      BY <1>0, <2>1, <2>2 DEF IsCurrent
    <3> QED
      BY <1>6, <2>1, <2>2, <3>1, <3>2 DEF Included
  <2>3. CASE g # f
    <3>0. IsBuilt(g) /\ g \in Elements(listed)
      BY <1>0, <1>1, <2>3 DEF IsBuilt, Elements
    <3>1. g.name # f.name /\ g.name \in Names
      BY <1>1, <2>1, <2>3, <3>0, OnlyOne, PlaceOf
    <3>2. Included(g.name) = <<g, tree[g]>>
      BY <1>a, <1>2, <2>1, <3>0 DEF SkeletonInv, IncludedSoFar, Running
    <3>3. /\ <<Root, g.name>> \in OutDirs \X Names /\ <<Root, g.name>> # <<Root, f.name>>
          /\ links[g.name] # NoLink =>
               /\ <<links[g.name], g.name>> \in OutDirs \X Names
               /\ <<links[g.name], g.name>> # <<Root, f.name>>
      BY <3>1, Types DEF OutDirs
    <3>4. Included(g.name)' = Included(g.name)
      BY <1>3, <1>4, <3>1, <3>3 DEF Included
    <3> QED
      BY <2>1, <3>2, <3>4
  <2> QED
    BY <2>2, <2>3
<1> QED
  BY <1>7, <1>8, <1>9, <1>10, <1>11 DEF SkeletonInv
-----------------------------------------------------------------------------
(* An edit changes a source that counts as touched from then on.           *)
LEMMA EditSkeleton ==
  ASSUME TypeOK, SkeletonInv, NEW f \in Sources, Edit(f)
  PROVE  SkeletonInv'
<1>0. /\ UNCHANGED <<mode, files, links, stage, todo, listed, warned>>
      /\ touched' = touched \cup {f}
  BY DEF Edit, outVars, buildVars
<1>1. ASSUME NEW g \in Sources, g # f PROVE tree'[g] = tree[g]
  BY <1>1, Types DEF Edit
<1>2. ASSUME NEW g \in Sources, Unchanged(g)' PROVE Unchanged(g) /\ tree'[g] = tree[g]
  BY <1>0, <1>1, <1>2 DEF Unchanged
<1>3. \A g : /\ OutSubdir(g)' = OutSubdir(g) /\ Artifact(g)' = Artifact(g)
             /\ IsBuilt(g)' = IsBuilt(g) /\ HasItsPlace(g)' = HasItsPlace(g)
             /\ MayLink(g)' = MayLink(g)
  BY <1>0 DEF OutSubdir, Artifact, IsBuilt, HasItsPlace, MayLink, Elements, OccursOnce
<1>4. \A n : Included(n)' = Included(n) /\ OccursOnce(n)' = OccursOnce(n)
  BY <1>0 DEF Included, OccursOnce
<1>5. ListIsFollowed' /\ ObjectsHaveNoLinks' /\ LinksNeverDangle'
  BY <1>0 DEF SkeletonInv, ListIsFollowed, ObjectsHaveNoLinks, LinksNeverDangle, Elements
<1>6. CompiledBeforeLinked'
  <2>1. todo # <<>> => Head(todo) \in Sources
    BY Types, ElementsOf
  <2> QED
    BY <1>0, <1>2, <1>3, <2>1 DEF SkeletonInv, CompiledBeforeLinked, IsCurrent
<1>7. IncludedSoFar'
  BY <1>0, <1>2, <1>3, <1>4 DEF SkeletonInv, IncludedSoFar
<1>8. ObjectsSoFar'
  BY <1>0, <1>2, <1>3 DEF SkeletonInv, ObjectsSoFar, IsCurrent
<1> QED
  BY <1>5, <1>6, <1>7, <1>8 DEF SkeletonInv

(* Nothing is built of a list that has just been made.                     *)
LEMMA ListSkeleton ==
  ASSUME SkeletonInv, NEW explicit \in ExplicitSources, List(explicit)
  PROVE  SkeletonInv'
<1>0. stage' = "compiling" /\ todo' = listed' /\ UNCHANGED <<mode, files, links>>
  BY DEF List, outVars
<1>1. Elements(todo') = Elements(listed') /\ \A f : ~IsBuilt(f)'
  BY <1>0 DEF IsBuilt, Elements
<1> QED
  BY <1>0, <1>1
  DEF SkeletonInv, ListIsFollowed, ObjectsHaveNoLinks, LinksNeverDangle,
      CompiledBeforeLinked, IncludedSoFar, ObjectsSoFar, Elements

(* A step that leaves the artifacts alone and does not go on with the      *)
(* build, or ends it when nothing is left.                                 *)
LEMMA RestSkeleton ==
  ASSUME SkeletonInv, UNCHANGED <<mode, tree, touched, files, links, todo, listed, warned>>,
         \/ stage' = stage \/ stage' \in {"headers", "failed"}
         \/ stage = "compiling" /\ stage' = "done" /\ todo = <<>>
  PROVE  SkeletonInv'
<1>1. ListIsFollowed' /\ ObjectsHaveNoLinks' /\ LinksNeverDangle'
  BY DEF SkeletonInv, ListIsFollowed, ObjectsHaveNoLinks, LinksNeverDangle, Elements
<1>2. \A g : /\ OutSubdir(g)' = OutSubdir(g) /\ IsCurrent(g)' = IsCurrent(g)
             /\ IsBuilt(g)' = IsBuilt(g) /\ HasItsPlace(g)' = HasItsPlace(g)
             /\ MayLink(g)' = MayLink(g) /\ Unchanged(g)' = Unchanged(g)
             /\ Artifact(g)' = Artifact(g)
  BY DEF OutSubdir, IsCurrent, Artifact, IsBuilt, HasItsPlace, MayLink, Elements, OccursOnce,
         Unchanged
<1>3. \A n : Included(n)' = Included(n) /\ OccursOnce(n)' = OccursOnce(n)
  BY DEF Included, OccursOnce
<1>4. CompiledBeforeLinked'
  BY <1>2 DEF SkeletonInv, CompiledBeforeLinked
<1>5. IncludedSoFar'
  BY <1>2, <1>3 DEF SkeletonInv, IncludedSoFar, Running
<1>6. ObjectsSoFar'
  BY <1>2 DEF SkeletonInv, ObjectsSoFar, Running
<1> QED
  BY <1>1, <1>4, <1>5, <1>6 DEF SkeletonInv

(* Every step keeps what is known of the artifacts.                        *)
LEMMA NextSkeleton == TypeOK /\ SkeletonInv /\ [Next]_vars => SkeletonInv'
<1> SUFFICES ASSUME TypeOK, SkeletonInv, [Next]_vars PROVE SkeletonInv'
  OBVIOUS
<1> USE DEF treeVars, outVars, buildVars
<1>1. CASE \E f \in Sources : Edit(f)
  BY <1>1, EditSkeleton
<1>2. CASE Begin
  BY <1>2, RestSkeleton DEF Begin
<1>3. CASE WriteHeaders
  BY <1>3, RestSkeleton DEF WriteHeaders
<1>4. CASE \E explicit \in ExplicitSources : List(explicit)
  BY <1>4, ListSkeleton
<1>5. CASE Panic
  BY <1>5, RestSkeleton DEF Panic
<1>6. CASE Finish
  BY <1>6, RestSkeleton DEF Finish
<1>7. CASE Others
  BY <1>7, RestSkeleton DEF Others
<1>8. CASE UNCHANGED vars
  BY <1>8, RestSkeleton DEF vars
<1> QED
  BY <1>1, <1>2, <1>3, <1>4, <1>5, <1>6, <1>7, <1>8, CompileSkeleton, LinkSkeleton DEF Next
-----------------------------------------------------------------------------
(* What named_sources returns is a sequence of sources.                    *)
LEMMA NamedSourcesType ==
  ASSUME NEW match \in Matches, NEW explicit \in ExplicitSources
  PROVE  NamedSources(match, explicit) \in Seq(Sources)
<1> DEFINE there == {i \in DOMAIN GlobOrder : tree[GlobOrder[i]] # Missing}
           n == Cardinality(there)
           matched == [i \in DOMAIN match |-> GlobOrder[match[i]]]
<1>1. DOMAIN GlobOrder = 1 .. Len(GlobOrder) /\ Len(GlobOrder) \in Nat
  BY SkelBuildAssumption, LenProperties
<1>2. n \in Nat
  <2>1. IsFiniteSet(1 .. Len(GlobOrder))
    BY <1>1, FS_Interval
  <2>2. IsFiniteSet(there)
    BY <1>1, <2>1, FS_Subset
  <2> QED
    BY <2>2, FS_CardinalityType
<1>3. match \in [1 .. n -> there]
  BY DEF Matches
<1>4. DOMAIN match = 1 .. n /\ \A i \in 1 .. n : match[i] \in there
  BY <1>3
<1>5. \A i \in DOMAIN GlobOrder : GlobOrder[i] \in Sources
  BY <1>1, SkelBuildAssumption, ElementOfSeq
<1>6. matched \in [1 .. n -> Sources]
  BY <1>4, <1>5
<1> HIDE DEF matched, n
<1>7. matched \in Seq(Sources)
  BY <1>2, <1>6, SeqDef
<1> USE DEF matched
<1>8. explicit \in Seq(Sources)
  BY SkelBuildAssumption
<1> QED
  BY <1>7, <1>8, ConcatProperties DEF NamedSources

(* At the start the variables have their types.                            *)
LEMMA InitType == Init => TypeOK
<1> SUFFICES ASSUME Init PROVE TypeOK
  OBVIOUS
<1>1. HeadersTypeOK
  BY HeadersInitInv DEF Init, HeaderInv
<1>2. mode \in Modes /\ mode.edits \in Nat
  BY ModesAssumption DEF Init, Mode
<1>3. /\ tree \in [Sources -> Versions \cup {Missing}] /\ edits \in 0 .. mode.edits
      /\ files \in [OutDirs \X Names -> Skeletons \cup {NoSkeleton}]
      /\ links \in [Names -> Subdirs \cup {NoLink}]
      /\ todo \in Seq(Sources) /\ listed \in Seq(Sources)
      /\ touched \subseteq Sources /\ warned \subseteq Names
  BY <1>2 DEF Init
<1> QED
  BY <1>1, <1>2, <1>3 DEF TypeOK, Init

(* Every step keeps the types; that a link never points to the root needs  *)
(* that only a source in a directory is about to be linked.                *)
LEMMA NextType == Inv /\ TypeOK /\ SkeletonInv /\ [Next]_vars => TypeOK'
<1> SUFFICES ASSUME Inv, TypeOK, SkeletonInv, [Next]_vars PROVE TypeOK'
  OBVIOUS
<1>h. HeadersTypeOK'
  BY NextInv DEF Inv, HeaderInv
<1>m. mode' = mode /\ mode \in Modes /\ mode.edits \in Nat
  <2>1. mode' = mode
    BY DEF Next, vars, Edit, Begin, WriteHeaders, List, Compile, Link, Panic, Finish, Others
  <2> QED
    BY <2>1, ModesAssumption DEF TypeOK, Mode
<1> USE DEF treeVars, outVars, buildVars
<1>1. ASSUME NEW f \in Sources, Edit(f) PROVE TypeOK'
  <2>1. edits \in 0 .. mode.edits /\ edits < mode.edits /\ edits' = edits + 1
    BY <1>1 DEF Edit, TypeOK
  <2>2. edits' \in 0 .. mode.edits /\ edits + 1 \in Versions
    BY <1>m, <2>1 DEF Versions, Missing
  <2>3. tree' \in [Sources -> Versions \cup {Missing}]
    BY <1>1, <2>2, Types DEF Edit
  <2>4. touched' \subseteq Sources
    BY <1>1 DEF Edit, TypeOK
  <2> QED
    BY <1>1, <1>h, <1>m, <2>2, <2>3, <2>4 DEF Edit, TypeOK
<1>2. CASE Begin
  BY <1>2, <1>h, <1>m DEF Begin, TypeOK
<1>3. CASE WriteHeaders
  BY <1>3, <1>h, <1>m DEF WriteHeaders, TypeOK
<1>4. ASSUME NEW explicit \in ExplicitSources, List(explicit) PROVE TypeOK'
  <2>1. listed' \in Seq(Sources) /\ todo' = listed'
    BY <1>4, NamedSourcesType DEF List
  <2> QED
    BY <1>4, <1>h, <1>m, <2>1 DEF List, TypeOK
<1>5. CASE Compile
  <2>f. PICK f \in Sources : f = Head(todo)
    BY <1>5, Types, ElementsOf DEF Compile
  <2>1. PICK w \in OutDirs \X Names : w = Written(f)
    BY Types, WrittenType
  <2>2. /\ tree[f] # Missing /\ files' = [files EXCEPT ![w] = <<f, tree[f]>>]
        /\ todo' \in {todo, Tail(todo)} /\ stage' \in {"compiling", "linking"}
        /\ todo # <<>>
        /\ UNCHANGED <<tree, edits, links, listed, touched, warned>>
    BY <1>5, <2>f, <2>1 DEF Compile, NextSource
  <2>3. <<f, tree[f]>> \in Skeletons
    BY <2>2, Types DEF Skeletons
  <2>4. files' \in [OutDirs \X Names -> Skeletons \cup {NoSkeleton}]
    BY <2>2, <2>3, Types
  <2>5. todo' \in Seq(Sources)
    <3>1. todo \in Seq(Sources)
      BY DEF TypeOK
    <3>2. Tail(todo) \in Seq(Sources)
      BY <2>2, <3>1, ElementsOf
    <3> QED
      BY <2>2, <3>1, <3>2
  <2> QED
    BY <1>h, <1>m, <2>2, <2>4, <2>5 DEF TypeOK
<1>6. CASE Link
  <2>1. todo # <<>> /\ MayLink(Head(todo))
    BY <1>6 DEF Link, SkeletonInv, CompiledBeforeLinked
  <2>f. PICK f \in Sources : f = Head(todo)
    BY <2>1, Types, ElementsOf
  <2>2. /\ files' = [files EXCEPT ![<<Root, f.name>>] = NoSkeleton]
        /\ todo' = Tail(todo) /\ stage' = "compiling"
        /\ \/ links' = [links EXCEPT ![f.name] = OutSubdir(f)] /\ warned' = warned
           \/ links' = [links EXCEPT ![f.name] = NoLink] /\ warned' = warned \cup {f.name}
        /\ UNCHANGED <<tree, edits, listed, touched>>
    BY <1>6, <2>f DEF Link, NextSource
  <2>3. files' \in [OutDirs \X Names -> Skeletons \cup {NoSkeleton}]
    BY <2>2, Types
  <2>4. OutSubdir(f) \in Subdirs /\ f.name \in Names
    BY <2>1, <2>f, PlaceOf DEF MayLink
  <2>5. links' \in [Names -> Subdirs \cup {NoLink}] /\ warned' \subseteq Names
    BY <2>2, <2>4, Types DEF TypeOK
  <2>6. todo' \in Seq(Sources)
    BY <2>1, <2>2, Types, ElementsOf
  <2> QED
    BY <1>h, <1>m, <2>2, <2>3, <2>5, <2>6 DEF TypeOK
<1>7. CASE Panic
  BY <1>7, <1>h, <1>m DEF Panic, TypeOK
<1>8. CASE Finish
  BY <1>8, <1>h, <1>m DEF Finish, TypeOK
<1>9. CASE Others
  BY <1>9, <1>h, <1>m DEF Others, TypeOK
<1>10. CASE UNCHANGED vars
  BY <1>10, <1>h, <1>m DEF vars, TypeOK
<1> QED
  BY <1>1, <1>2, <1>3, <1>4, <1>5, <1>6, <1>7, <1>8, <1>9, <1>10 DEF Next
-----------------------------------------------------------------------------
(* A step of a script touches the header it is at, and its own jobs, of    *)
(* which it may drop the first or all.                                     *)
LEMMA StepTouches ==
  ASSUME HeadersTypeOK, NEW s \in Scripts, HeaderStep(s) \/ Interrupt(s)
  PROVE  /\ script[s].jobs # <<>>
         /\ \A p \in Places : p # Place(s) => header'[p] = header[p]
         /\ script'[s].jobs \in {script[s].jobs, Tail(script[s].jobs), <<>>}
<1>1. script[s].jobs # <<>>
  BY DEF HeaderStep, DumpSkip, DumpRun, OpenFile, WritePart, InPhase, Interrupt
<1>2. /\ script[s] \in Script /\ Tail(script[s].jobs) \in Seq(Places)
      /\ header \in [Places -> (SUBSET Whole) \cup {Absent}]
      /\ script \in [Scripts -> Script]
  BY <1>1, PlaceType DEF HeadersTypeOK, Script
<1>3. \A p \in Places : p # Place(s) => header'[p] = header[p]
  BY <1>2 DEF HeaderStep, DumpSkip, DumpRun, OpenFile, WritePart, Interrupt
<1>n. ASSUME NextJob(s) PROVE script'[s].jobs = Tail(script[s].jobs)
  <2>1. script'[s] = Start(Tail(script[s].jobs))
    BY <1>2, <1>n DEF NextJob
  <2> QED
    BY <1>2, <2>1, StartType
<1>4. script'[s].jobs \in {script[s].jobs, Tail(script[s].jobs), <<>>}
  <2>1. CASE DumpSkip(s)
    BY <1>n, <2>1 DEF DumpSkip
  <2>2. CASE DumpRun(s) \/ OpenFile(s)
    <3>1. \E phase : script' = [script EXCEPT ![s] = [script[s] EXCEPT !.phase = phase]]
      BY <2>2 DEF DumpRun, OpenFile
    <3> QED
      BY <1>2, <3>1 DEF Script
  <2>3. CASE WritePart(s)
    <3>1. \/ NextJob(s)
          \/ \E part : script' = [script EXCEPT ![s] = [script[s] EXCEPT !.part = part]]
      BY <2>3 DEF WritePart
    <3> QED
      BY <1>2, <1>n, <3>1 DEF Script
  <2>4. CASE Interrupt(s)
    BY <1>2, <2>4 DEF Interrupt, Idle
  <2> QED
    BY <2>1, <2>2, <2>3, <2>4 DEF HeaderStep
<1> QED
  BY <1>1, <1>3, <1>4

(* The two headers the followed script may have in its OUT_DIR.            *)
LEMMA OwnPlaces ==
  /\ <<Me, VmlinuxH>> \in Places /\ <<Me, XbpfH>> \in Places
  /\ <<Me, VmlinuxH>> # <<Me, XbpfH>> /\ Me # Shared
BY SkelBuildAssumption, HeadersAssumption DEF Places, Dirs, VmlinuxH, XbpfH

(* The build, and what somebody does to its sources, leave the headers be. *)
LEMMA OwnUnchanged ==
  ASSUME OwnHeadersInv, UNCHANGED <<mode, header, script>>,
         stage' \in {"headers", "compiling", "linking"} =>
           stage \in {"headers", "compiling", "linking"}
  PROVE  OwnHeadersInv'
<1>1. \A s : Elements(script[s].jobs)' = Elements(script[s].jobs)
  BY DEF Elements
<1>2. Elements(mode.jobs)' = Elements(mode.jobs)
  BY DEF Elements
<1>3. OthersShare'
  BY <1>1 DEF OwnHeadersInv, OthersShare
<1>4. NothingIsTaken'
  BY DEF OwnHeadersInv, NothingIsTaken, InPhase, Place
<1>5. JobsAreDone'
  BY <1>1, <1>2 DEF OwnHeadersInv, JobsAreDone
<1> QED
  BY <1>3, <1>4, <1>5 DEF OwnHeadersInv

(* Another script works in the directory that is shared.                   *)
LEMMA OwnOthers ==
  ASSUME HeadersTypeOK, OwnHeadersInv, NEW s \in Scripts, s # Me,
         \/ HeaderStep(s) \/ Interrupt(s)
         \/ script' = [script EXCEPT ![s] = Start(Export(Shared))] /\ header' = header,
         UNCHANGED <<mode, stage>>
  PROVE  OwnHeadersInv'
<1>1. script'[Me] = script[Me]
  BY JobsOfOthers, SkelBuildAssumption
<1>e. Export(Shared) \in Seq(Places) /\ \A p \in Elements(Export(Shared)) : p[1] = Shared
  <2>v. PICK v \in Places : v = <<Shared, VmlinuxH>>
    BY DEF Places, Dirs
  <2>x. PICK x \in Places : x = <<Shared, XbpfH>>
    BY DEF Places, Dirs
  <2>s. <<v>> \in Seq(Places) /\ <<x>> \in Seq(Places)
    OBVIOUS
  <2>1. PICK a \in Seq(Places) : a = <<v>>
    BY <2>s, Zenon
  <2>2. PICK b \in Seq(Places) : b = <<x>>
    BY <2>s, Zenon
  <2>3. Export(Shared) = a \o b
    BY <2>v, <2>x, <2>1, <2>2 DEF Export, Dump
  <2>4. Len(a) = 1 /\ a[1] = <<Shared, VmlinuxH>> /\ Len(b) = 1 /\ b[1] = <<Shared, XbpfH>>
    BY <2>v, <2>x, <2>1, <2>2
  <2>5. /\ a \o b \in Seq(Places) /\ Len(a \o b) = 2
        /\ (a \o b)[1] = <<Shared, VmlinuxH>> /\ (a \o b)[2] = <<Shared, XbpfH>>
    BY <2>4, ConcatProperties
  <2>6. DOMAIN (a \o b) = 1 .. 2
    BY <2>5, LenProperties
  <2>7. \A i \in DOMAIN (a \o b) : (a \o b)[i][1] = Shared
    BY <2>5, <2>6
  <2> QED
    BY <2>3, <2>5, <2>7 DEF Elements
<1>2. ASSUME HeaderStep(s) \/ Interrupt(s)
      PROVE  Place(s)[1] = Shared /\ \A p \in Elements(script'[s].jobs) : p[1] = Shared
  <2>1. /\ script[s].jobs # <<>> /\ script[s].jobs \in Seq(Places)
        /\ script'[s].jobs \in {script[s].jobs, Tail(script[s].jobs), <<>>}
    BY <1>2, StepTouches DEF HeadersTypeOK
  <2>2. Elements(script[s].jobs) = {Place(s)} \cup Elements(Tail(script[s].jobs))
    BY <2>1, ElementsOf DEF Place
  <2>3. \A p \in Elements(script[s].jobs) : p[1] = Shared
    BY DEF OwnHeadersInv, OthersShare
  <2> QED
    BY <2>1, <2>2, <2>3, NoElements
<1>3. \A p \in Places : p[1] = Me => header'[p] = header[p]
  BY <1>2, StepTouches, OwnPlaces
<1>4. \A p \in Elements(script'[s].jobs) : p[1] = Shared
  <2>1. CASE script' = [script EXCEPT ![s] = Start(Export(Shared))]
    <3>1. script'[s].jobs = Export(Shared)
      BY <1>e, <2>1, StartType DEF HeadersTypeOK
    <3> QED
      BY <1>e, <3>1
  <2> QED
    BY <1>2, <2>1
<1>5. \A t \in Scripts \ {s} : script'[t] = script[t]
  BY JobsOfOthers
<1>6. OthersShare'
  <2> SUFFICES ASSUME NEW t \in Scripts \ {Me}
               PROVE  \A p \in Elements(script'[t].jobs) : p[1] = Shared
    BY DEF OthersShare, Elements
  <2> QED
    BY <1>4, <1>5 DEF OwnHeadersInv, OthersShare
<1>7. NothingIsTaken'
  <2>1. InPhase(Me, "write") => Place(Me) \in Places
    BY PlaceType, SkelBuildAssumption DEF InPhase
  <2>2. InPhase(Me, "write")' = InPhase(Me, "write") /\ Place(Me)' = Place(Me)
    BY <1>1 DEF InPhase, Place
  <2> QED
    BY <1>1, <1>3, <2>1, <2>2 DEF OwnHeadersInv, NothingIsTaken
<1>8. JobsAreDone'
  <2>1. /\ Elements(script[Me].jobs)' = Elements(script[Me].jobs)
        /\ Elements(mode.jobs)' = Elements(mode.jobs)
    BY <1>1 DEF Elements
  <2>2. /\ header'[<<Me, VmlinuxH>>] = header[<<Me, VmlinuxH>>]
        /\ header'[<<Me, XbpfH>>] = header[<<Me, XbpfH>>]
    BY <1>3, OwnPlaces
  <2> QED
    BY <2>1, <2>2 DEF OwnHeadersInv, JobsAreDone, Absent, Whole
<1> QED
  BY <1>6, <1>7, <1>8 DEF OwnHeadersInv
(* The followed script goes on with the header it is at, or to the next    *)
(* one when it is done with that.                                          *)
LEMMA JobsKept ==
  ASSUME HeadersTypeOK, JobsAreDone, script[Me].jobs # <<>>, UNCHANGED <<mode, stage>>,
         \A q \in Places : q # Place(Me) => header'[q] = header[q],
         \/ script'[Me].jobs = script[Me].jobs
         \/ /\ script'[Me].jobs = Tail(script[Me].jobs)
            /\ Place(Me) = <<Me, VmlinuxH>> => header'[Place(Me)] # Absent
            /\ Place(Me) = <<Me, XbpfH>> => header'[Place(Me)] = Whole
  PROVE  JobsAreDone'
<1>p. PICK p \in Places : p = Place(Me)
  BY PlaceType, SkelBuildAssumption
<1> DEFINE todoNow == Elements(script[Me].jobs)
           all == Elements(mode.jobs)
<1>1. todoNow = {p} \cup Elements(Tail(script[Me].jobs))
  <2>1. script[Me].jobs \in Seq(Places)
    BY SkelBuildAssumption DEF HeadersTypeOK
  <2> QED
    BY <1>p, <2>1, ElementsOf DEF Place
<1>2. Elements(script[Me].jobs)' \in {todoNow, Elements(Tail(script[Me].jobs))}
  BY DEF Elements
<1>3. all' = all
  BY DEF Elements
<1> HIDE DEF todoNow, all
<1>4. PICK later : later = Elements(script[Me].jobs)'
  OBVIOUS
<1>5. later \subseteq todoNow /\ todoNow \subseteq {p} \cup later
  BY <1>1, <1>2, <1>4
<1>6. p \notin later =>
        /\ p = <<Me, VmlinuxH>> => header'[p] # Absent
        /\ p = <<Me, XbpfH>> => header'[p] = Whole
  <2>1. script'[Me].jobs = script[Me].jobs => p \in later
    BY <1>1, <1>4 DEF todoNow
  <2> QED
    BY <2>1, <1>p
<1>7. /\ todoNow \subseteq all
      /\ stage \in {"headers", "compiling", "linking"} =>
           \A q \in all \ todoNow :
             /\ q = <<Me, VmlinuxH>> => header[q] # Absent
             /\ q = <<Me, XbpfH>> => header[q] = Whole
      /\ <<Me, XbpfH>> \notin all => header[<<Me, XbpfH>>] = Absent
  BY DEF JobsAreDone, todoNow, all
<1>8. \A q \in Places : q # p => header'[q] = header[q]
  BY <1>p
<1>9. p \in todoNow
  BY <1>1
<1>10. ASSUME stage \in {"headers", "compiling", "linking"}, NEW q \in all \ later
       PROVE  /\ q = <<Me, VmlinuxH>> => header'[q] # Absent
              /\ q = <<Me, XbpfH>> => header'[q] = Whole
  <2>1. CASE q = p
    BY <1>6, <1>10, <2>1
  <2>2. CASE q # p /\ q \in {<<Me, VmlinuxH>>, <<Me, XbpfH>>}
    <3>1. q \notin todoNow /\ q \in Places
      BY <1>5, <1>10, <2>2, OwnPlaces
    <3> QED
      BY <1>7, <1>8, <1>10, <2>2, <3>1
  <2> QED
    BY <2>1, <2>2
<1>11. ASSUME <<Me, XbpfH>> \notin all PROVE header'[<<Me, XbpfH>>] = Absent
  <2>1. <<Me, XbpfH>> # p
    BY <1>7, <1>9, <1>11
  <2> QED
    BY <1>7, <1>8, <1>11, <2>1, OwnPlaces
<1>12. later \subseteq all
  BY <1>5, <1>7
<1>13. /\ Elements(script[Me].jobs)' = later /\ Elements(mode.jobs)' = all
  BY <1>3, <1>4 DEF all
<1>14. stage' = stage
  OBVIOUS
<1> QED
  BY <1>10, <1>11, <1>12, <1>13, <1>14 DEF JobsAreDone, Absent, Whole

(* A header step of the followed script.                                   *)
LEMMA OwnStep ==
  ASSUME HeaderInv, HeadersTypeOK', OwnHeadersInv, HeaderStep(Me), UNCHANGED <<mode, stage>>
  PROVE  OwnHeadersInv'
<1>1. /\ HeadersTypeOK /\ Me \in Scripts /\ script[Me].jobs # <<>>
      /\ \A q \in Places : q # Place(Me) => header'[q] = header[q]
  BY StepTouches, SkelBuildAssumption DEF HeaderInv
<1>2. /\ script[Me] \in Script /\ Tail(script[Me].jobs) \in Seq(Places)
      /\ script \in [Scripts -> Script]
  BY <1>1, PlaceType DEF HeadersTypeOK, Script
<1>p. PICK p \in Places : p = Place(Me)
  BY <1>1, PlaceType
<1>3. OthersShare'
  <2>1. \A t \in Scripts \ {Me} : script'[t] = script[t]
    BY <1>1, JobsOfOthers
  <2> SUFFICES ASSUME NEW t \in Scripts \ {Me}
               PROVE  \A q \in Elements(script'[t].jobs) : q[1] = Shared
    BY DEF OthersShare, Elements
  <2> QED
    BY <2>1 DEF OwnHeadersInv, OthersShare
<1>n. ASSUME NextJob(Me)
      PROVE  /\ script'[Me].jobs = Tail(script[Me].jobs)
             /\ NothingIsTaken'
  <2>1. script'[Me] = Start(Tail(script[Me].jobs))
    BY <1>1, <1>2, <1>n DEF NextJob
  <2> QED
    BY <1>2, <2>1, StartType DEF NothingIsTaken, InPhase
<1>4. CASE DumpSkip(Me)
  <2>1. NextJob(Me) /\ header'[p] # Absent /\ p[2] = VmlinuxH
    BY <1>p, <1>4 DEF DumpSkip, Absent
  <2>2. p # <<Me, XbpfH>>
    BY <2>1 DEF VmlinuxH, XbpfH
  <2>3. JobsAreDone'
    BY <1>1, <1>n, <1>p, <2>1, <2>2, JobsKept DEF OwnHeadersInv
  <2> QED
    BY <1>3, <1>n, <2>1, <2>3 DEF OwnHeadersInv
<1>5. CASE DumpRun(Me) \/ OpenFile(Me)
  <2>1. PICK phase \in {"dump", "write"} :
          script' = [script EXCEPT ![Me] = [script[Me] EXCEPT !.phase = phase]]
    BY <1>5 DEF DumpRun, OpenFile
  <2>2. /\ script'[Me].jobs = script[Me].jobs /\ script'[Me].part = script[Me].part
    BY <1>1, <1>2, <2>1 DEF Script
  <2>3. script[Me].part = 0
    BY <1>1, <1>5 DEF DumpRun, OpenFile, InPhase, HeaderInv
  <2>4. 1 .. script'[Me].part = {}
    BY <2>2, <2>3
  <2>5. NothingIsTaken'
    BY <2>4 DEF NothingIsTaken
  <2>6. JobsAreDone'
    BY <1>1, <2>2, JobsKept DEF OwnHeadersInv
  <2> QED
    BY <1>3, <2>5, <2>6 DEF OwnHeadersInv
<1>6. CASE WritePart(Me)
  <2> DEFINE part == script[Me].part + 1
  <2>1. /\ InPhase(Me, "write")
        /\ header' = [header EXCEPT ![p] = (header[p] \ Absent) \cup {part}]
        /\ IF part = Parts THEN NextJob(Me) ELSE script' = [script EXCEPT ![Me].part = part]
    BY <1>p, <1>6 DEF WritePart
  <2>0. script[Me].part \in 0 .. Parts - 1
    BY <1>2 DEF Script
  <2>2. part \in Nat /\ part \in Whole /\ 1 .. part = (1 .. script[Me].part) \cup {part}
    BY <2>0, HeadersAssumption DEF Whole
  <2>3. header'[p] = (header[p] \ Absent) \cup {part}
    BY <1>1, <2>1 DEF HeadersTypeOK
  <2>4. p[1] = Me => 1 .. part \subseteq header'[p]
    <3>1. p[1] = Me => 1 .. script[Me].part \subseteq header[p]
      BY <1>p, <2>1 DEF OwnHeadersInv, NothingIsTaken
    <3>2. \A n \in 1 .. script[Me].part : n \notin Absent
      BY <1>2 DEF Script, Absent
    <3> QED
      BY <2>2, <2>3, <3>1, <3>2
  <2>5. header'[p] # Absent /\ header'[p] \subseteq Whole
    <3>1. part \in header'[p] /\ part \notin Absent
      BY <2>2, <2>3 DEF Whole, Absent
    <3>2. header'[p] \in (SUBSET Whole) \cup {Absent}
      BY DEF HeadersTypeOK, Whole, Absent, Places, Dirs
    <3> QED
      BY <3>1, <3>2
  <2>6. CASE part = Parts
    <3>1. p = <<Me, XbpfH>> => header'[p] = Whole
      <4>1. p = <<Me, XbpfH>> => p[1] = Me
        OBVIOUS
      <4>2. 1 .. part = Whole
        BY <2>6 DEF Whole
      <4> QED
        BY <2>4, <2>5, <4>1, <4>2
    <3>2. JobsAreDone'
      BY <1>1, <1>n, <1>p, <2>1, <2>5, <2>6, <3>1, JobsKept DEF OwnHeadersInv
    <3> QED
      BY <1>3, <1>n, <2>1, <2>6, <3>2 DEF OwnHeadersInv
  <2>7. CASE part # Parts
    <3>1. script' = [script EXCEPT ![Me] = [script[Me] EXCEPT !.part = part]]
      BY <2>1, <2>7
    <3>2. script'[Me].jobs = script[Me].jobs /\ script'[Me].part = part
      BY <1>1, <1>2, <3>1 DEF Script
    <3>3. Place(Me)' = p
      BY <1>p, <3>2 DEF Place
    <3>4. NothingIsTaken'
      BY <2>4, <3>2, <3>3 DEF NothingIsTaken
    <3>5. JobsAreDone'
      BY <1>1, <3>2, JobsKept DEF OwnHeadersInv
    <3> QED
      BY <1>3, <3>4, <3>5 DEF OwnHeadersInv
  <2> QED
    BY <2>6, <2>7
<1> QED
  BY <1>4, <1>5, <1>6 DEF HeaderStep
(* Every step keeps what is known of the followed script's own headers.    *)
LEMMA NextOwn == Inv /\ TypeOK /\ OwnHeadersInv /\ [Next]_vars => OwnHeadersInv'
<1> SUFFICES ASSUME Inv, TypeOK, OwnHeadersInv, [Next]_vars PROVE OwnHeadersInv'
  OBVIOUS
<1>h. HeaderInv /\ HeadersTypeOK /\ HeadersTypeOK'
  BY NextInv DEF Inv, HeaderInv
<1>m. /\ mode \in Modes /\ mode.jobs \in Seq(Places) /\ mode.others \subseteq Scripts \ {Me}
      /\ Me \in Scripts
  BY ModesAssumption, SkelBuildAssumption DEF TypeOK, Mode
<1>1. CASE \E f \in Sources : Edit(f)
  BY <1>1, OwnUnchanged DEF Edit, buildVars, headerVars
<1>2. CASE Begin
  <2>0. mode' = mode
    BY <1>2 DEF Begin
  <2>1. /\ header' = header /\ script' = [script EXCEPT ![Me] = Start(mode.jobs)]
        /\ stage \in {"idle", "done", "failed"}
    BY <1>2 DEF Begin
  <2>2. script'[Me].jobs = mode.jobs /\ script'[Me].phase = "look"
    BY <1>h, <1>m, <2>1, StartType DEF HeadersTypeOK
  <2>3. \A t \in Scripts \ {Me} : script'[t] = script[t]
    BY <1>h, <2>1 DEF HeadersTypeOK
  <2>4. OthersShare'
    <3> SUFFICES ASSUME NEW t \in Scripts \ {Me}
                 PROVE  \A p \in Elements(script'[t].jobs) : p[1] = Shared
      BY DEF OthersShare, Elements
    <3> QED
      BY <2>3 DEF OwnHeadersInv, OthersShare
  <2>5. NothingIsTaken'
    BY <2>2 DEF NothingIsTaken, InPhase
  <2>6. JobsAreDone'
    <3>1. /\ Elements(script[Me].jobs)' = Elements(mode.jobs)
          /\ Elements(mode.jobs)' = Elements(mode.jobs)
      BY <2>0, <2>2 DEF Elements
    <3> QED
      BY <2>1, <3>1 DEF JobsAreDone, OwnHeadersInv
  <2> QED
    BY <2>4, <2>5, <2>6 DEF OwnHeadersInv
<1>3. CASE WriteHeaders
  <2>1. mode' = mode
    BY <1>3 DEF WriteHeaders
  <2>2. CASE HeaderStep(Me) /\ UNCHANGED stage
    BY <1>h, <2>1, <2>2, OwnStep
  <2>3. CASE Interrupt(Me) /\ stage' = "failed"
    <3>1. script' = [script EXCEPT ![Me] = Idle] /\ header' = header
      BY <2>3 DEF Interrupt
    <3>2. script'[Me].jobs = <<>> /\ \A t \in Scripts \ {Me} : script'[t] = script[t]
      BY <1>h, <1>m, <3>1 DEF HeadersTypeOK, Idle
    <3>3. OthersShare'
      <4> SUFFICES ASSUME NEW t \in Scripts \ {Me}
                   PROVE  \A p \in Elements(script'[t].jobs) : p[1] = Shared
        BY DEF OthersShare, Elements
      <4> QED
        BY <3>2 DEF OwnHeadersInv, OthersShare
    <3>4. NothingIsTaken'
      BY <3>2 DEF NothingIsTaken, InPhase
    <3>5. JobsAreDone'
      <4>1. /\ Elements(script[Me].jobs)' = {}
            /\ Elements(mode.jobs)' = Elements(mode.jobs)
        BY <2>1, <3>2 DEF Elements
      <4> QED
        BY <2>3, <3>1, <4>1 DEF JobsAreDone, OwnHeadersInv
    <3> QED
      BY <3>3, <3>4, <3>5 DEF OwnHeadersInv
  <2> QED
    BY <1>3, <2>2, <2>3 DEF WriteHeaders
<1>4. CASE \E explicit \in ExplicitSources : List(explicit)
  BY <1>4, OwnUnchanged DEF List, headerVars
<1>5. CASE Compile
  BY <1>5, OwnUnchanged DEF Compile, NextSource, headerVars
<1>6. CASE Link
  BY <1>6, OwnUnchanged DEF Link, NextSource, headerVars
<1>7. CASE Panic
  BY <1>7, OwnUnchanged DEF Panic, headerVars
<1>8. CASE Finish
  BY <1>8, OwnUnchanged DEF Finish, headerVars
<1>9. CASE Others
  <2>1. PICK s \in mode.others :
          \/ HeaderStep(s) \/ Interrupt(s)
          \/ script' = [script EXCEPT ![s] = Start(Export(Shared))] /\ header' = header
    BY <1>9 DEF Others
  <2>2. s \in Scripts /\ s # Me
    BY <1>m
  <2>3. UNCHANGED <<mode, stage>>
    BY <1>9 DEF Others, buildVars
  <2> QED
    BY <1>h, <2>1, <2>2, <2>3, OwnOthers
<1>10. CASE UNCHANGED vars
  BY <1>10, OwnUnchanged DEF vars, buildVars, headerVars
<1> QED
  BY <1>1, <1>2, <1>3, <1>4, <1>5, <1>6, <1>7, <1>8, <1>9, <1>10 DEF Next

-----------------------------------------------------------------------------
(* The invariant holds before anything is built.                           *)
LEMMA InitBuild == Init => BuildInv
<1> SUFFICES ASSUME Init PROVE BuildInv
  OBVIOUS
<1>1. Inv /\ TypeOK
  BY InitInv, InitType
<1>2. Elements(todo) = {} /\ Elements(listed) = {}
  BY DEF Init, Elements
<1>3. SkeletonInv
  BY <1>2 DEF Init, SkeletonInv, ListIsFollowed, ObjectsHaveNoLinks, LinksNeverDangle,
              CompiledBeforeLinked, IncludedSoFar, ObjectsSoFar, Running
<1>4. \A s \in Scripts : script[s].jobs = <<>>
  BY DEF Init, HeadersInit, Idle
<1>5. \A s \in Scripts : Elements(script[s].jobs) = {}
  BY <1>4, NoElements
<1>6. OthersShare /\ NothingIsTaken
  BY <1>4, <1>5, SkelBuildAssumption DEF OthersShare, NothingIsTaken, InPhase
<1>7. header[<<Me, XbpfH>>] = Absent
  BY OwnPlaces DEF Init, HeadersInit
<1>8. JobsAreDone
  BY <1>5, <1>7, SkelBuildAssumption DEF JobsAreDone, Init
<1> QED
  BY <1>1, <1>3, <1>6, <1>8 DEF BuildInv, OwnHeadersInv

(* Every step of the workspace, and of those who edit its sources, keeps   *)
(* the invariant.                                                          *)
LEMMA NextBuild == BuildInv /\ [Next]_vars => BuildInv'
BY NextInv, NextType, NextSkeleton, NextOwn DEF BuildInv

(* For every build script, every set of sources and every history.         *)
THEOREM BuildInvariance == Spec => []BuildInv
BY InitBuild, NextBuild, PTL DEF Spec

(* The variables of the build always have their types; in particular no    *)
(* link points to the root, where it would point to itself.                *)
THEOREM TypeCorrect == Spec => []TypeOK
<1>1. BuildInv => TypeOK
  BY DEF BuildInv
<1> QED
  BY <1>1, BuildInvariance, PTL

(* A build that is killed or panics at any point leaves no link behind     *)
(* that include_bpf! could not follow.                                     *)
THEOREM NoDanglingLink == Spec => []LinksNeverDangle
<1>1. BuildInv => LinksNeverDangle
  BY DEF BuildInv, SkeletonInv
<1> QED
  BY <1>1, BuildInvariance, PTL

(* After a build that succeeded include_bpf! finds the skeleton of the one *)
(* source of the name as it is now, whatever was in OUT_DIR before.        *)
THEOREM IncludeIsRight == Spec => []IncludeFindsTheSource
<1>1. BuildInv => IncludeFindsTheSource
  <2> SUFFICES ASSUME BuildInv, stage = "done", ~mode.objects,
                      NEW f \in Elements(listed),
                      OccursOnce(f.name), Unchanged(f), f.name \notin warned
               PROVE  Included(f.name) = <<f, tree[f]>>
    BY DEF IncludeFindsTheSource
  <2>1. f \in Sources
    BY Types DEF BuildInv
  <2>2. Elements(todo) = {}
    BY DEF BuildInv, SkeletonInv, ListIsFollowed, Elements
  <2>3. IsBuilt(f)
    BY <2>2 DEF IsBuilt
  <2> QED
    BY <2>1, <2>3 DEF BuildInv, SkeletonInv, IncludedSoFar, Running
<1> QED
  BY <1>1, BuildInvariance, PTL

(* After build_objects the object at the place of a source is that of the  *)
(* source as it is now, unless another one has the same place.             *)
THEOREM ObjectsAreRight == Spec => []ObjectsAreTheirSources
<1>1. BuildInv => ObjectsAreTheirSources
  <2> SUFFICES ASSUME BuildInv, stage = "done", mode.objects,
                      NEW f \in Elements(listed), Unchanged(f), HasItsPlace(f)
               PROVE  files[<<OutSubdir(f), f.name>>] = <<f, tree[f]>>
    BY DEF ObjectsAreTheirSources
  <2>1. f \in Sources
    BY Types DEF BuildInv
  <2>2. Elements(todo) = {}
    BY DEF BuildInv, SkeletonInv, ListIsFollowed, Elements
  <2>3. IsBuilt(f)
    BY <2>2 DEF IsBuilt
  <2>4. IsCurrent(f)
    BY <2>1, <2>3 DEF BuildInv, SkeletonInv, ObjectsSoFar, Running
  <2> QED
    BY <2>4 DEF IsCurrent, Artifact
<1> QED
  BY <1>1, BuildInvariance, PTL

(* While sources are compiled, the vmlinux.h in OUT_DIR is complete unless *)
(* an earlier build was interrupted at it, and a copy of xbpf.h, if there  *)
(* is one, is complete in any case.                                        *)
THEOREM HeadersAreComplete == Spec => []CompilesAgainstWholeHeaders
<1>1. BuildInv => CompilesAgainstWholeHeaders
  <2> SUFFICES ASSUME BuildInv, stage \in {"compiling", "linking"}
               PROVE  /\ header[<<Me, VmlinuxH>>] = Whole \/ <<Me, VmlinuxH>> \in interrupted
                      /\ header[<<Me, XbpfH>>] \in {Absent, Whole}
    BY DEF CompilesAgainstWholeHeaders
  <2>1. script[Me].jobs = <<>> /\ HeadersAreWhole
    BY InvImpliesWhole DEF BuildInv, Inv
  <2>2. Elements(script[Me].jobs) = {} /\ <<Me, VmlinuxH>> \in Elements(mode.jobs)
    BY <2>1, ModesAssumption, NoElements DEF BuildInv, TypeOK
  <2>3. header[<<Me, VmlinuxH>>] # Absent
    BY <2>2 DEF BuildInv, OwnHeadersInv, JobsAreDone
  <2>4. header[<<Me, XbpfH>>] \in {Absent, Whole}
    BY <2>2 DEF BuildInv, OwnHeadersInv, JobsAreDone
  <2>5. WritersOf(<<Me, VmlinuxH>>) = {}
    <3> SUFFICES ASSUME NEW s \in WritersOf(<<Me, VmlinuxH>>) PROVE FALSE
      OBVIOUS
    <3>1. s \in Scripts /\ script[s].jobs # <<>> /\ Place(s) = <<Me, VmlinuxH>>
      BY DEF WritersOf, InPhase
    <3>2. s # Me
      BY <2>1, <3>1
    <3>3. script[s].jobs \in Seq(Places)
      BY <3>1 DEF BuildInv, TypeOK, HeadersTypeOK
    <3>4. Place(s) \in Elements(script[s].jobs)
      BY <3>1, <3>3, ElementsOf DEF Place
    <3>5. Place(s)[1] = Shared
      BY <3>1, <3>2, <3>4 DEF BuildInv, OwnHeadersInv, OthersShare
    <3> QED
      BY <3>1, <3>5, OwnPlaces
  <2> QED
    BY <2>1, <2>3, <2>4, <2>5, OwnPlaces DEF HeadersAreWhole
<1> QED
  BY <1>1, BuildInvariance, PTL

=============================================================================
