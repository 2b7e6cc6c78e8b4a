------------------------------ MODULE Installer ------------------------------
(***************************************************************************)
(* filesystem/bt3: setup copies a configuration, a library and a program   *)
(* to their places and refreshes the linker's cache; uninstall removes     *)
(* them in the opposite order.  Neither undoes what it did when a call     *)
(* fails, and both may be killed at any point and started again.           *)
(*                                                                         *)
(* One tool runs at a time (both ask for root).  The package it copies     *)
(* from is complete; a file is as many blocks of 4096 bytes as were        *)
(* written since it was last truncated.  Modes are left out.               *)
(***************************************************************************)
EXTENDS Naturals

CONSTANTS
  Blocks,     \* bound: the length of each file of the package
  Absent      \* the length of a file that is not there

ASSUME BlocksAssumption == Blocks \in Nat \ {0} /\ Absent \notin Nat

Files == {"cfg", "lib", "bin"}

VARIABLES
  dir,        \* DST_CFG_DIR exists
  length,     \* of each installed file
  cached,     \* ld.so.cache knows the library
  tool,       \* the running tool, "none" if there is none
  pc,         \* "check", "mkdir", "open", "copy", "remove", "rmdir", "ldconfig"
  at,         \* the file the tool is at
  outcome,    \* history: how the last run ended
  silent,     \* history: a call of this run failed and the tool went on as if
              \* it had not: a read of copy_file, or ldconfig
  kept        \* history: what outlived an attempt to remove it and was not
              \* replaced since

disk == <<dir, length, cached>>
vars == <<disk, tool, pc, at, outcome, silent, kept>>

Init ==
  /\ dir = FALSE
  /\ length = [f \in Files |-> Absent]
  /\ cached = FALSE
  /\ tool = "none" /\ pc = "check" /\ at = "cfg"
  /\ outcome = "none" /\ silent = FALSE /\ kept = {}

Present(f) == length[f] # Absent
Whole(f) == length[f] = Blocks

Goto(from, to) == pc = from /\ pc' = to

\* The run ends; the exit status is all that is known of it afterwards.
End(how) ==
  /\ tool' = "none" /\ pc' = "check" /\ at' = "cfg"
  /\ outcome' = how

-----------------------------------------------------------------------------
\* setup.c

Start(t) ==
  /\ tool = "none"
  /\ tool' = t
  /\ outcome' = "none" /\ silent' = FALSE
  /\ UNCHANGED <<disk, pc, at, kept>>

\* Not root, or no package: nothing is touched.
Turned ==
  /\ tool # "none" /\ pc = "check"
  /\ End("failed")
  /\ UNCHANGED <<disk, silent, kept>>

SetupChecks ==
  /\ tool = "setup"
  /\ Goto("check", "mkdir")
  /\ UNCHANGED <<disk, tool, at, outcome, silent, kept>>

\* mkdir, which may find the directory.
MakeDir ==
  /\ tool = "setup"
  /\ Goto("mkdir", "open")
  /\ dir' = TRUE
  /\ at' = "cfg"
  /\ kept' = kept \ {"dir"}
  /\ UNCHANGED <<length, cached, tool, outcome, silent>>

\* open with O_CREAT | O_TRUNC: the old contents go.
OpenCopy ==
  /\ tool = "setup"
  /\ at = "cfg" => dir
  /\ Goto("open", "copy")
  /\ length' = [length EXCEPT ![at] = 0]
  /\ kept' = kept \ {at}
  /\ UNCHANGED <<dir, cached, tool, at, outcome, silent>>

\* One round of read and write.
CopyBlock ==
  /\ tool = "setup" /\ pc = "copy"
  /\ length[at] < Blocks
  /\ length' = [length EXCEPT ![at] = @ + 1]
  /\ UNCHANGED <<dir, cached, tool, pc, at, outcome, silent, kept>>

\* copy_file returns 0: the whole file is copied, or read has failed, which the
\* loop takes for the end of the file.
CopyReturns ==
  \/ Whole(at) /\ UNCHANGED silent
  \/ length[at] < Blocks /\ silent' = TRUE

\* Faulty variant: the program is copied before the library.
CopyDoneBinFirst ==
  /\ tool = "setup" /\ pc = "copy"
  /\ CopyReturns
  /\ at' = IF at = "cfg" THEN "bin" ELSE "lib"
  /\ pc' = IF at = "lib" THEN "ldconfig" ELSE "open"
  /\ UNCHANGED <<disk, tool, outcome, kept>>

\* On to the next file.
CopyDone ==
  /\ tool = "setup" /\ pc = "copy"
  /\ CopyReturns
  /\ at' = IF at = "cfg" THEN "lib" ELSE "bin"
  /\ pc' = IF at = "bin" THEN "ldconfig" ELSE "open"
  /\ UNCHANGED <<disk, tool, outcome, kept>>

\* Faulty variant: a write that fails is not told to the caller.
SetupFailsGoesOn ==
  /\ tool = "setup"
  /\ pc = "copy" /\ length[at] < Blocks
  /\ at' = IF at = "cfg" THEN "lib" ELSE "bin"
  /\ pc' = IF at = "bin" THEN "ldconfig" ELSE "open"
  /\ UNCHANGED <<disk, tool, outcome, silent, kept>>

\* mkdir, open or write fails: setup ends where it is.
SetupFails ==
  /\ tool = "setup"
  /\ pc \in {"mkdir", "open", "copy"}
  /\ pc = "copy" => length[at] < Blocks
  /\ End("failed")
  /\ UNCHANGED <<disk, silent, kept>>

\* system("ldconfig"), whose result nobody looks at.  It enters a whole library
\* and may enter a broken one.
LdConfig ==
  \/ /\ cached' \in {Present("lib"), Whole("lib")}
     /\ UNCHANGED silent
  \/ silent' = TRUE /\ UNCHANGED cached

SetupCaches ==
  /\ tool = "setup" /\ pc = "ldconfig"
  /\ LdConfig
  /\ End("installed")
  /\ UNCHANGED <<dir, length, kept>>

Setup ==
  \/ SetupChecks \/ MakeDir \/ OpenCopy \/ CopyBlock \/ CopyDone
  \/ SetupFails \/ SetupCaches

-----------------------------------------------------------------------------
\* uninstall.c

UninstallChecks ==
  /\ tool = "uninstall"
  /\ Goto("check", "remove")
  /\ at' = "bin"
  /\ UNCHANGED <<disk, tool, outcome, silent, kept>>

\* unlink: it may find nothing, and it may fail, which is only a warning.
Unlink ==
  \/ length' = [length EXCEPT ![at] = Absent] /\ kept' = kept \ {at}
  \/ Present(at) /\ kept' = kept \cup {at} /\ UNCHANGED length

\* Faulty variant: the configuration is forgotten.
RemoveSkipsCfg ==
  /\ tool = "uninstall"
  /\ Unlink
  /\ at' = "lib"
  /\ Goto("remove", IF at = "lib" THEN "rmdir" ELSE "remove")
  /\ UNCHANGED <<dir, cached, tool, outcome, silent>>

\* The next file's turn comes in any case.
Remove ==
  /\ tool = "uninstall"
  /\ Unlink
  /\ at' = IF at = "bin" THEN "lib" ELSE "cfg"
  /\ Goto("remove", IF at = "cfg" THEN "rmdir" ELSE "remove")
  /\ UNCHANGED <<dir, cached, tool, outcome, silent>>

\* rmdir, which fails as long as the configuration is in the directory.
RemoveDir ==
  /\ tool = "uninstall"
  /\ \/ ~Present("cfg") /\ dir' = FALSE /\ kept' = kept \ {"dir"}
     \/ dir /\ kept' = kept \cup {"dir"} /\ UNCHANGED dir
  /\ Goto("rmdir", "ldconfig")
  /\ UNCHANGED <<length, cached, tool, at, outcome, silent>>

UninstallCaches ==
  /\ tool = "uninstall" /\ pc = "ldconfig"
  /\ LdConfig
  /\ End("removed")
  /\ UNCHANGED <<dir, length, kept>>

Uninstall == UninstallChecks \/ Remove \/ RemoveDir \/ UninstallCaches

-----------------------------------------------------------------------------

\* The running tool is killed.
Killed ==
  /\ tool # "none"
  /\ End("failed")
  /\ UNCHANGED <<disk, silent, kept>>

Next ==
  \/ \E t \in {"setup", "uninstall"} : Start(t)
  \/ Turned \/ Setup \/ Uninstall \/ Killed

Spec == Init /\ [][Next]_vars

-----------------------------------------------------------------------------

Tools == {"setup", "uninstall"}
Places == {"check", "mkdir", "open", "copy", "remove", "rmdir", "ldconfig"}
Ends == {"none", "failed", "installed", "removed"}

TypeOK ==
  /\ dir \in BOOLEAN
  /\ length \in [Files -> (0..Blocks) \cup {Absent}]
  /\ cached \in BOOLEAN
  /\ tool \in Tools \cup {"none"}
  /\ pc \in Places
  /\ at \in Files
  /\ outcome \in Ends
  /\ silent \in BOOLEAN
  /\ kept \subseteq Files \cup {"dir"}

\* Whatever was on the disk before, left behind by killed or failing runs: a
\* setup that ends with "CAI DAT THANH CONG" has installed every file to its
\* last block and made the library known, if no read and no ldconfig failed.
InstalledIsWhole ==
  outcome = "installed" /\ ~silent =>
    dir /\ cached /\ \A f \in Files : Whole(f)

\* At any moment, also in the middle of a run and after a killed one, a file
\* that is there has those it needs: the program its library, the library the
\* configuration that came before it.  Only what refused to be removed may be
\* left without them.
NothingDangles ==
  /\ Present("bin") /\ "bin" \notin kept => Present("lib")
  /\ Present("lib") /\ "lib" \notin kept => Present("cfg")
  /\ Present("cfg") => dir

\* An uninstall that came to its end has left nothing but what refused to go,
\* whatever state it found.
RemovedIsGone ==
  outcome = "removed" =>
    /\ \A f \in Files : Present(f) => f \in kept
    /\ dir => "dir" \in kept
    /\ cached => Present("lib") \/ silent
=============================================================================
