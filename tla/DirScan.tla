------------------------------ MODULE DirScan ------------------------------
(***************************************************************************)
(* filesystem/bt1/main.c and filesystem/bt2/main.c: each run removes the   *)
(* tree an earlier run left, makes it again with given permissions, and    *)
(* scans it for read-only files.  bt2 takes the right to search away from  *)
(* its own directories at the end of the setup, so that its next run has   *)
(* to give it back first.                                                  *)
(*                                                                         *)
(* Permissions are those of the owner, who runs the program; root is       *)
(* above them.  A run may be killed between any two steps.                 *)
(***************************************************************************)
EXTENDS Integers, Sequences, SequencesExt

CONSTANT UserModes     \* permissions that the user of bt2 gives by hand

VARIABLES
  program,   \* the program that is run again and again
  root,      \* it runs as root
  mode,      \* permissions of what exists; its domain is the tree
  phase,     \* "idle" between the runs; "setup", "show" or "scan" in one
  step,      \* the next call of the plan
  stack,     \* the open directories: path and entries not yet read
  written,   \* files that this run opened and wrote
  reported,  \* files that the scan printed as read-only
  blocked    \* paths that the scan printed as blocked

vars == <<program, root, mode, phase, step, stack, written, reported, blocked>>

R == {"r"}
RW == {"r", "w"}
RWX == {"r", "w", "x"}

\* BASE_DIR is "base"; "foreign" is a file the programs know nothing of.
Parent == [read_only |-> "base", read_write |-> "base",
           sub_dir1 |-> "base", owner_read |-> "sub_dir1", executable |-> "sub_dir1",
           sub_dir2 |-> "base", read_only_2 |-> "sub_dir2", write_only |-> "sub_dir2",
           Test1 |-> "base", abc |-> "Test1", efg |-> "base", foreign |-> "Test1"]

Names == DOMAIN Parent \cup {"base"}
Dirs == {"base", "sub_dir1", "sub_dir2", "Test1"}

Above[n \in Names] == IF n = "base" THEN {} ELSE {Parent[n]} \cup Above[Parent[n]]

\* What the kernel allows in the tree m.
Allowed(m, n, p) == root \/ p \in m[n]
Found(m, n) == \A d \in Above[n] : d \in DOMAIN m /\ Allowed(m, d, "x")
MayChangeDir(m, n) ==
  /\ Found(m, n)
  /\ n # "base" => Parent[n] \in DOMAIN m /\ Allowed(m, Parent[n], "w")
Entries(m, d) == {n \in DOMAIN m \ {"base"} : Parent[n] = d}
Without(m, n) == Restrict(m, DOMAIN m \ {n})
With(m, n, p) == [k \in DOMAIN m \cup {n} |-> IF k = n THEN p ELSE m[k]]
Chmod(m, n, p) == IF n \in DOMAIN m /\ Found(m, n) THEN With(m, n, p) ELSE m
MayOpenDir(m, d) == d \in DOMAIN m /\ Found(m, d) /\ Allowed(m, d, "r")
Frame(m, d) == [dir |-> d, todo |-> Entries(m, d)]

-----------------------------------------------------------------------------
(* The plan of setup_environment: calls with their node and permissions.   *)

Call(f, n, p) == [op |-> f, node |-> n, perms |-> p]
MakeDirectory(d, p) == <<Call("mkdir", d, p), Call("chmod", d, p)>>
CreateFile(f, p) == <<Call("open", f, RW), Call("chmod", f, p)>>

PlanBt1 ==
  MakeDirectory("base", RWX)
    \o CreateFile("read_only", R) \o CreateFile("read_write", RW)
    \o MakeDirectory("sub_dir1", RWX)
    \o CreateFile("owner_read", R) \o CreateFile("executable", RWX)
    \o MakeDirectory("sub_dir2", RWX)
    \o CreateFile("read_only_2", R) \o CreateFile("write_only", {"w"})

PlanBt2 ==
  MakeDirectory("base", RWX) \o MakeDirectory("Test1", RWX)
    \o CreateFile("abc", R) \o CreateFile("efg", RW)
    \o <<Call("chmod", "Test1", RW), Call("chmod", "base", RW)>>

Plan == IF program = "bt1" THEN PlanBt1 ELSE PlanBt2
Nodes == {Plan[k].node : k \in DOMAIN Plan}
             \cup (IF program = "bt1" THEN {} ELSE {"foreign"})

Init ==
  /\ program \in {"bt1", "bt2"}
  /\ root \in BOOLEAN
  /\ mode = << >>
  /\ phase = "idle"
  /\ step = 1
  /\ stack = << >>
  /\ written = {} /\ reported = {} /\ blocked = {}

-----------------------------------------------------------------------------
(* clean_directory and clean_directory_robust *)

\* Faulty variant: the permissions are not restored, as in bt1.
RobustNot(m, n) == m

\* chmod(path, 0775), in bt2 only.
Robust(m, n) == IF program = "bt2" THEN Chmod(m, n, RWX) ELSE m

\* The call for directory d: opendir fails or its entries are next.
EnterClean(m, d, frames) ==
  /\ mode' = Robust(m, d)
  /\ stack' = IF MayOpenDir(Robust(m, d), d)
                THEN Append(frames, Frame(m, d)) ELSE frames

Start ==
  /\ phase = "idle"
  /\ phase' = "setup"
  /\ step' = 1
  /\ written' = {} /\ reported' = {} /\ blocked' = {}
  /\ EnterClean(mode, "base", << >>)
  /\ UNCHANGED <<program, root>>

Rest(n) == Append(Front(stack), [Last(stack) EXCEPT !.todo = @ \ {n}])

Unlinked(m, n) == IF MayChangeDir(m, n) THEN Without(m, n) ELSE m

\* An entry in bt1: nothing is done about one whose stat fails.
CleanBt1(n) ==
  IF n \in Dirs /\ Found(mode, n)
    THEN EnterClean(mode, n, Rest(n))
    ELSE stack' = Rest(n) /\ mode' = Unlinked(mode, n)

\* An entry in bt2: its permissions are restored first.  Where stat fails
\* unlink is tried, and fails for the same reason.
CleanBt2(n) ==
  IF n \in Dirs /\ Found(mode, n)
    THEN EnterClean(Robust(mode, n), n, Rest(n))
    ELSE stack' = Rest(n) /\ mode' = Unlinked(Robust(mode, n), n)

\* The entries come in the order readdir happens to give.
CleanEntry ==
  /\ phase = "setup" /\ stack # << >>
  /\ \E n \in Last(stack).todo : IF program = "bt1" THEN CleanBt1(n) ELSE CleanBt2(n)
  /\ UNCHANGED <<program, root, phase, step, written, reported, blocked>>

\* closedir and rmdir, which fails for a directory that is not empty.
CleanDirDone ==
  /\ phase = "setup" /\ stack # << >>
  /\ Last(stack).todo = {}
  /\ stack' = Front(stack)
  /\ LET d == Last(stack).dir
     IN  mode' = IF Entries(mode, d) = {} THEN Unlinked(mode, d) ELSE mode
  /\ UNCHANGED <<program, root, phase, step, written, reported, blocked>>

-----------------------------------------------------------------------------
(* make_directory, create_file and the last chmods of bt2 *)

Building == phase = "setup" /\ stack = << >> /\ step <= Len(Plan)
Built == phase = "setup" /\ stack = << >> /\ step > Len(Plan)

\* EEXIST is as good as success; any other error ends the program.
Mkdir(c) ==
  IF c.node \in DOMAIN mode
    THEN step' = step + 1 /\ UNCHANGED <<phase, mode>>
    ELSE IF MayChangeDir(mode, c.node)
      THEN mode' = With(mode, c.node, c.perms) /\ step' = step + 1 /\ UNCHANGED phase
      ELSE phase' = "idle" /\ UNCHANGED <<mode, step>>

MayWriteFile(f) ==
  IF f \in DOMAIN mode THEN Found(mode, f) /\ Allowed(mode, f, "w")
                       ELSE MayChangeDir(mode, f)

\* open with O_CREAT and O_TRUNC, write, close; when open fails the file is
\* skipped together with its chmod.
OpenAndWrite(c) ==
  IF MayWriteFile(c.node)
    THEN /\ mode' = IF c.node \in DOMAIN mode THEN mode ELSE With(mode, c.node, c.perms)
         /\ written' = written \cup {c.node}
         /\ step' = step + 1
    ELSE step' = step + 2 /\ UNCHANGED <<mode, written>>

Build ==
  /\ Building
  /\ LET c == Plan[step]
     IN  \/ c.op = "mkdir" /\ Mkdir(c) /\ UNCHANGED written
         \/ c.op = "open" /\ OpenAndWrite(c) /\ UNCHANGED phase
         \/ /\ c.op = "chmod"
            /\ mode' = Chmod(mode, c.node, c.perms)
            /\ step' = step + 1
            /\ UNCHANGED <<phase, written>>
  /\ UNCHANGED <<program, root, stack, reported, blocked>>

-----------------------------------------------------------------------------
(* scan_read_only_files *)

EnterScan(d, frames) ==
  IF MayOpenDir(mode, d)
    THEN stack' = Append(frames, Frame(mode, d)) /\ UNCHANGED blocked
    ELSE stack' = frames /\ blocked' = blocked \cup {d}

\* main goes on: bt1 has the tree listed by find, bt2 prints who runs it.
SetupDone ==
  /\ Built
  /\ phase' = "show"
  /\ UNCHANGED <<program, root, mode, step, stack, written, reported, blocked>>

BeginScan ==
  /\ phase = "show"
  /\ phase' = "scan"
  /\ EnterScan("base", << >>)
  /\ UNCHANGED <<program, root, mode, step, written, reported>>

ReadOnly(n) == "r" \in mode[n] /\ "w" \notin mode[n]

\* Faulty variant: without the `continue' after a failing stat the entry is
\* judged by a statbuf that holds something else, here a read-only file's.
StatFailsGoesOn(n) ==
  /\ ~Found(mode, n)
  /\ stack' = Rest(n)
  /\ blocked' = blocked \cup {n}
  /\ reported' = reported \cup {n}

StatFails(n) ==
  /\ ~Found(mode, n)
  /\ stack' = Rest(n)
  /\ blocked' = blocked \cup {n}
  /\ UNCHANGED reported

ScanSubdir(n) ==
  /\ Found(mode, n) /\ n \in Dirs
  /\ EnterScan(n, Rest(n))
  /\ UNCHANGED reported

ScanFile(n) ==
  /\ Found(mode, n) /\ n \notin Dirs
  /\ stack' = Rest(n)
  /\ reported' = IF ReadOnly(n) THEN reported \cup {n} ELSE reported
  /\ UNCHANGED blocked

ScanEntry ==
  /\ phase = "scan" /\ stack # << >>
  /\ \E n \in Last(stack).todo : StatFails(n) \/ ScanSubdir(n) \/ ScanFile(n)
  /\ UNCHANGED <<program, root, mode, phase, step, written>>

ScanDirDone ==
  /\ phase = "scan" /\ stack # << >>
  /\ Last(stack).todo = {}
  /\ stack' = Front(stack)
  /\ UNCHANGED <<program, root, mode, phase, step, written, reported, blocked>>

-----------------------------------------------------------------------------
\* The program returns from main or is killed before.
Ends ==
  /\ phase # "idle"
  /\ phase' = "idle"
  /\ stack' = << >>
  /\ UNCHANGED <<program, root, mode, step, written, reported, blocked>>

\* Between two runs of bt2, and before its scan, the user may set permissions
\* and leave a file of his own in Test1.
UserChanges ==
  /\ program = "bt2" /\ phase \in {"idle", "show"}
  /\ \E p \in UserModes :
       \/ \E n \in DOMAIN mode : mode' = With(mode, n, p)
       \/ "Test1" \in DOMAIN mode /\ phase = "idle" /\ mode' = With(mode, "foreign", p)
  /\ UNCHANGED <<program, root, phase, step, stack, written, reported, blocked>>

Next == \/ Start \/ CleanEntry \/ CleanDirDone \/ Build \/ SetupDone \/ BeginScan
        \/ ScanEntry \/ ScanDirDone \/ Ends \/ UserChanges

-----------------------------------------------------------------------------
TypeOK ==
  /\ DOMAIN mode \subseteq Nodes
  /\ \A n \in DOMAIN mode : mode[n] \subseteq RWX
  /\ phase \in {"idle", "setup", "show", "scan"}
  /\ step \in 1..(Len(Plan) + 1)
  /\ \A k \in DOMAIN stack : /\ stack[k].dir \in Dirs
                             /\ stack[k].todo \subseteq Entries(mode, stack[k].dir)
  /\ written \cup reported \cup blocked \subseteq Nodes

PlannedFiles == {Plan[k].node : k \in DOMAIN Plan} \ Dirs

\* The permissions the plan gives last.
Drawn ==
  [n \in {Plan[k].node : k \in DOMAIN Plan} |->
     Plan[CHOOSE k \in DOMAIN Plan : /\ Plan[k].node = n
                                     /\ \A l \in (k + 1)..Len(Plan) : Plan[l].node # n].perms]

\* Whatever an earlier run, killed anywhere, or the user's chmods left, a
\* setup that comes to its end has made the tree as it is drawn, with nothing
\* else in it and every file written by this run.
TreeAsDrawn ==
  Built => mode = Drawn /\ written = PlannedFiles

Reachable(d) == d \in DOMAIN mode /\ \A a \in Above[d] \cup {d} : Allowed(mode, a, "r")

\* At the end of a scan the report lists the read-only files that can be
\* reached, and nothing whose permissions could not be read; every path at
\* which the scan had to stop, and no other, is reported as blocked.  So a user's
\* scan of bt2's tree as drawn (0664, "r" without "x") opens the base and stops
\* at its entry Test1, whose stat fails; bt2/README.md:26 and :43 say that
\* opendir of the base fails.
ScanIsExact ==
  phase = "scan" /\ stack = << >> =>
    LET Visited == {d \in DOMAIN mode \cap Dirs : Found(mode, d) /\ Reachable(d)}
        Seen == {n \in DOMAIN mode : n = "base" \/ Parent[n] \in Visited}
    IN  /\ reported = {n \in Seen \ Dirs : Found(mode, n) /\ ReadOnly(n)}
        /\ blocked = {n \in Seen : ~Found(mode, n)} \cup ((Seen \cap Dirs) \ Visited)
=============================================================================
