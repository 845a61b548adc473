------------------------------- MODULE Headers -------------------------------
(***************************************************************************)
(* xbpf/src/build.rs: dump_kernel_btf, copy_dir and export_headers, as the *)
(* build scripts of a workspace call them.                                 *)
(*                                                                         *)
(* Every script has an OUT_DIR of its own; all of them export headers to   *)
(* target/include.  vmlinux.h is only written if it does not exist, while  *)
(* the headers of xBPF are copied every time.  A script may panic or be    *)
(* killed between any two steps, also while a file is half written; the    *)
(* files stay.  Module SkelBuild composes this with the build itself.      *)
(***************************************************************************)
EXTENDS Integers, Sequences

CONSTANTS
  Scripts,   \* the build scripts of the workspace
  Shared,    \* default_header_dir(), which is target/include
  Parts      \* the number of pieces in which a header reaches the disk

ASSUME HeadersAssumption ==
  /\ Shared \notin Scripts
  /\ Parts \in Nat \ {0}

VARIABLES
  header,      \* the parts of every header that are on the disk
  script,      \* the headers each script has still to write, and how far it is
  interrupted  \* headers a script was interrupted at while it wrote them

headerVars == <<header, script, interrupted>>

(* The OUT_DIR of a script goes by the name of the script.                 *)
Dirs == Scripts \cup {Shared}

VmlinuxH == "vmlinux.h"
XbpfH    == "xbpf.h"

Places == Dirs \X {VmlinuxH, XbpfH}

Whole  == 1 .. Parts
Absent == {0}

(* A script that has no header to write.                                   *)
Idle == [jobs |-> <<>>, phase |-> "look", part |-> 0]

HeadersInit ==
  /\ header = [p \in Places |-> Absent]
  /\ script = [s \in Scripts |-> Idle]
  /\ interrupted = {}

-----------------------------------------------------------------------------
(* dump_kernel_btf(d), and export_headers(None, d), which also copies.     *)
Dump(d)   == <<<<d, VmlinuxH>>>>
Export(d) == Dump(d) \o <<<<d, XbpfH>>>>

Start(jobs) == [Idle EXCEPT !.jobs = jobs]

InPhase(s, phase) == script[s].jobs # <<>> /\ script[s].phase = phase

Place(s) == Head(script[s].jobs)

WritersOf(p) == {s \in Scripts : InPhase(s, "write") /\ Place(s) = p}

NextJob(s) == script' = [script EXCEPT ![s] = Start(Tail(@.jobs))]

(* vmlinux_path.exists()                                                   *)
DumpSkip(s) ==
  /\ InPhase(s, "look") /\ Place(s)[2] = VmlinuxH
  /\ header[Place(s)] # Absent
  /\ NextJob(s)
  /\ UNCHANGED <<header, interrupted>>

(* A faulty dump that does not look at the exit status of bpftool, and     *)
(* writes what a bpftool that failed has printed.                          *)
DumpUnchecked(s) ==
  /\ InPhase(s, "look") /\ Place(s)[2] = VmlinuxH
  /\ header[Place(s)] = Absent
  /\ \/ script' = [script EXCEPT ![s].phase = "dump"] /\ UNCHANGED header
     \/ NextJob(s) /\ header' = [header EXCEPT ![Place(s)] = {}]
  /\ UNCHANGED interrupted

(* bpftool is there and succeeds.                                          *)
DumpRun(s) ==
  /\ InPhase(s, "look") /\ Place(s)[2] = VmlinuxH
  /\ header[Place(s)] = Absent
  /\ script' = [script EXCEPT ![s].phase = "dump"]
  /\ UNCHANGED <<header, interrupted>>

(* fs::write and fs::copy open the file, which empties it.                 *)
OpenFile(s) ==
  /\ \/ InPhase(s, "dump")
     \/ InPhase(s, "look") /\ Place(s)[2] = XbpfH
  /\ header' = [header EXCEPT ![Place(s)] = {}]
  /\ script' = [script EXCEPT ![s].phase = "write"]
  /\ interrupted' = IF WritersOf(Place(s)) = {} THEN interrupted \ {Place(s)} ELSE interrupted

(* Each writer has a position of its own in the file.                      *)
WritePart(s) ==
  /\ InPhase(s, "write")
  /\ LET part == script[s].part + 1 IN
       /\ header' = [header EXCEPT ![Place(s)] = (@ \ Absent) \cup {part}]
       /\ IF part = Parts THEN NextJob(s) ELSE script' = [script EXCEPT ![s].part = part]
  /\ UNCHANGED interrupted

(* bpftool is missing or fails, a directory cannot be created, a file not  *)
(* read or not written to its end, or the script is killed.                *)
Interrupt(s) ==
  /\ script[s].jobs # <<>>
  /\ interrupted' = IF InPhase(s, "write") THEN interrupted \cup {Place(s)} ELSE interrupted
  /\ script' = [script EXCEPT ![s] = Idle]
  /\ UNCHANGED header

HeaderStep(s) == DumpSkip(s) \/ DumpRun(s) \/ OpenFile(s) \/ WritePart(s)

-----------------------------------------------------------------------------
(* The variables have their types.                                         *)
HeadersTypeOK ==
  /\ header \in [Places -> (SUBSET Whole) \cup {Absent}]
  /\ script \in [Scripts -> [jobs : Seq(Places), phase : {"look", "dump", "write"},
                             part : 0 .. Parts - 1]]
  /\ interrupted \subseteq Places

(* A header that exists and that nobody is writing is complete, however    *)
(* the scripts of a workspace overtake each other between exists() and the *)
(* last byte, unless one of them was interrupted while it wrote the file.  *)
(* A build takes a header that exists for a good one from then on.         *)
HeadersAreWhole ==
  \A p \in Places :
    header[p] \in {Absent, Whole} \/ WritersOf(p) # {} \/ p \in interrupted
=============================================================================
