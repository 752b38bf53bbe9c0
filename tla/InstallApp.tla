----------------------------- MODULE InstallApp -----------------------------
(***************************************************************************)
(* How the attester's executable gets to /var/lib/tarako/tarako-attester   *)
(* with fs-verity on it: the script of the tarako-attester service         *)
(* (test/attester.nix), which systemd restarts, and prepare_app of any     *)
(* number of tarako-quote runs (test/tarako-quote.py), interleaved         *)
(* command by command.  A process may be killed between any two of them,   *)
(* and inside a copy; what the test or the operator does is to start the   *)
(* service once.                                                           *)
(*                                                                         *)
(* External, from how the scripts use it: the file system.  Paths name     *)
(* inodes; install(1) unlinks its destination first; copy2 truncates an    *)
(* existing file, which fails on a protected one; FS_IOC_ENABLE_VERITY     *)
(* fails on a protected file and on one that is open for writing.          *)
(*                                                                         *)
(* A definition named Bug... is the definition after it with one plausible *)
(* coding error in it; no specification uses it.                           *)
(***************************************************************************)
EXTENDS Naturals

CONSTANTS Tools,         \* runs of tarako-quote
          Service,       \* the service's process
          Inodes,
          None,
          MaxServiceKills, MaxToolKills

ASSUME InstallAssumption == /\ Service \notin Tools /\ None \notin Inodes
                            /\ MaxServiceKills \in Nat /\ MaxToolKills \in Nat

Processes == Tools \cup {Service}

VARIABLES
    path,      \* the inode that each of the two paths names
    copier,    \* who truncated each inode last, None before
    whole,     \* inodes that hold the executable
    verity,    \* inodes that fs-verity protects
    broken,    \* history: inodes whose last copier did not finish
    pc,        \* the next command of each process
    inode,     \* what each process writes, or executes
    kills      \* processes killed so far

files == <<path, copier, whole, verity, broken>>
vars == <<files, pc, inode, kills>>

Init == /\ path = [app |-> None, new |-> None]
        /\ copier = [i \in Inodes |-> None]
        /\ whole = {}
        /\ verity = {}
        /\ broken = {}
        /\ pc = [p \in Processes |-> "idle"]
        /\ inode = [p \in Processes |-> None]
        /\ kills = [service |-> 0, tools |-> 0]

GoTo(p, to) == pc' = [pc EXCEPT ![p] = to]

\* The process ends; its files are closed.
Exit(p) == GoTo(p, "idle") /\ inode' = [inode EXCEPT ![p] = None]

-----------------------------------------------------------------------------
(* The file system                                                         *)

Writing(p) == pc[p] = "copying"
HasWriter(i) == \E p \in Processes : Writing(p) /\ inode[p] = i
Free(i) == i \notin {path.app, path.new} /\ \A p \in Processes : inode[p] # i

\* p opens i for writing and truncates it.
Truncate(p, i) == /\ copier' = [copier EXCEPT ![i] = p]
                  /\ whole' = whole \ {i}
                  /\ broken' = broken \ {i}
                  /\ inode' = [inode EXCEPT ![p] = i]

\* p creates a file at `name`, in place of any other (Inodes bounds the files
\* that exist at a time).
Create(p, name) ==
    LET i == CHOOSE i \in Inodes : Free(i)
    IN  /\ i \in Inodes /\ Free(i)
        /\ path' = [path EXCEPT ![name] = i]
        /\ Truncate(p, i)
        /\ verity' = verity \ {i}

\* p has written all bytes and closes the file.  They are all there unless
\* another process truncated the file after p did.
Close(p, to) == /\ Writing(p)
                /\ whole' = IF copier[inode[p]] = p
                            THEN whole \cup {inode[p]} ELSE whole
                /\ inode' = [inode EXCEPT ![p] = None]
                /\ GoTo(p, to)
                /\ UNCHANGED <<path, copier, verity, broken, kills>>

\* p ends wherever it is: it is killed, or its copy fails for want of space.
\* A file that only p was to complete is left as far as p got.
BreakOff(p) == /\ pc[p] # "idle"
               /\ broken' = IF Writing(p) /\ copier[inode[p]] = p
                            THEN broken \cup {inode[p]} ELSE broken
               /\ Exit(p)
               /\ UNCHANGED <<path, copier, whole, verity>>

\* ... with writers not looked for.
BugMayEnable(i) == i # None /\ i \notin verity
MayEnable(i) == i # None /\ i \notin verity /\ ~HasWriter(i)

\* fsverity enable of the file at `name`; the caller stops if it fails.
Enable(p, name, to) ==
    /\ IF MayEnable(path[name])
       THEN /\ verity' = verity \cup {path[name]}
            /\ GoTo(p, to) /\ UNCHANGED inode
       ELSE Exit(p) /\ UNCHANGED verity
    /\ UNCHANGED <<path, copier, whole, broken, kills>>

-----------------------------------------------------------------------------
(* The service's script                                                    *)

ServiceStart == /\ pc[Service] = "idle"
                /\ GoTo(Service, "install")
                /\ UNCHANGED <<files, inode, kills>>

\* ... with the script ended by a .new that is already there.
BugInstallExclusive ==
    /\ pc[Service] = "install"
    /\ IF path.new = None
       THEN Create(Service, "new") /\ GoTo(Service, "copying")
       ELSE Exit(Service) /\ UNCHANGED files
    /\ UNCHANGED kills

\* ... with the executable installed in place.
BugInstallInPlace == /\ pc[Service] = "install"
                     /\ Create(Service, "app")
                     /\ GoTo(Service, "copying")
                     /\ UNCHANGED kills

Install == /\ pc[Service] = "install"
           /\ Create(Service, "new")
           /\ GoTo(Service, "copying")
           /\ UNCHANGED kills

InstallDone == Close(Service, "enable")

ServiceEnable == pc[Service] = "enable" /\ Enable(Service, "new", "mv")

Mv == /\ pc[Service] = "mv"
      /\ path' = [app |-> path.new, new |-> None]
      /\ GoTo(Service, "exec")
      /\ UNCHANGED <<copier, whole, verity, broken, inode, kills>>

\* A file that is open for writing cannot be executed.
Exec == /\ pc[Service] = "exec"
        /\ IF path.app = None \/ HasWriter(path.app) THEN Exit(Service)
           ELSE /\ inode' = [inode EXCEPT ![Service] = path.app]
                /\ GoTo(Service, "running")
        /\ UNCHANGED <<files, kills>>

-----------------------------------------------------------------------------
(* prepare_app, and what tarako-quote does with the application            *)

\* use_existing_app: TARAKO_APP.exists()
AppExists(t) ==
    /\ pc[t] = "idle"
    /\ GoTo(t, IF path.app = None THEN "copy" ELSE "measure")
    /\ UNCHANGED <<files, inode, kills>>

\* ... with an existing file taken as it is.
BugMeasure(t) == /\ pc[t] = "measure"
                 /\ GoTo(t, "use") /\ UNCHANGED <<files, inode, kills>>

\* is_verity_enabled, before use and after enabling; if not: SystemExit.
Measure(t) == /\ pc[t] = "measure"
              /\ IF path.app \in verity THEN GoTo(t, "use") /\ UNCHANGED inode
                 ELSE Exit(t)
              /\ UNCHANGED <<files, kills>>

\* shutil.copy2 opens its destination, which may exist by now.
Copy(t) == /\ pc[t] = "copy"
           /\ IF path.app = None
              THEN Create(t, "app") /\ GoTo(t, "copying")
              ELSE IF path.app \in verity THEN Exit(t) /\ UNCHANGED files
              ELSE /\ Truncate(t, path.app) /\ GoTo(t, "copying")
                   /\ UNCHANGED <<path, verity>>
           /\ UNCHANGED kills

CopyDone(t) == Close(t, "enable")

ToolEnable(t) == pc[t] = "enable" /\ Enable(t, "app", "measure")

\* main runs the application, and ends with it.
Use(t) == /\ pc[t] = "use"
          /\ inode' = [inode EXCEPT ![t] = path.app]
          /\ GoTo(t, "running")
          /\ UNCHANGED <<files, kills>>

ToolEnds(t) == pc[t] = "running" /\ Exit(t) /\ UNCHANGED <<files, kills>>

-----------------------------------------------------------------------------

KillService == /\ kills.service < MaxServiceKills
               /\ kills' = [kills EXCEPT !.service = @ + 1]
               /\ BreakOff(Service)

KillTool(t) == /\ kills.tools < MaxToolKills
               /\ kills' = [kills EXCEPT !.tools = @ + 1]
               /\ BreakOff(t)

ServiceStep == \/ ServiceStart \/ Install \/ InstallDone \/ ServiceEnable
               \/ Mv \/ Exec

ToolStep(t) == \/ Measure(t) \/ Copy(t) \/ CopyDone(t) \/ ToolEnable(t)
               \/ Use(t) \/ ToolEnds(t)

Next == \/ ServiceStep \/ KillService
        \/ \E t \in Tools : AppExists(t) \/ ToolStep(t) \/ KillTool(t)

\* systemd restarts a service that failed, and its script does not wait.
Spec == Init /\ [][Next]_vars /\ WF_vars(ServiceStep)

-----------------------------------------------------------------------------
(* Properties                                                              *)

Stages == {"idle", "install", "copying", "enable", "mv", "exec", "measure",
           "copy", "use", "running"}

\* Every variable keeps its type; no file has both names.
TypeOK == /\ path \in [{"app", "new"} -> Inodes \cup {None}]
          /\ path.app = path.new => path.app = None
          /\ copier \in [Inodes -> Processes \cup {None}]
          /\ whole \subseteq Inodes /\ verity \subseteq Inodes
          /\ broken \subseteq Inodes
          /\ pc \in [Processes -> Stages]
          /\ inode \in [Processes -> Inodes \cup {None}]
          /\ kills.service \in 0..MaxServiceKills
          /\ kills.tools \in 0..MaxToolKills

\* "installs and protects the exact executable that becomes the main process"
\* (attester.nix): what the service executes is protected by fs-verity, whole,
\* and nobody writes it, whatever the tools and the kills did.  What
\* tarako-quote executes is protected and has no writer either.
RunsProtected ==
    \A p \in Processes : pc[p] = "running" =>
        /\ inode[p] \in verity
        /\ ~HasWriter(inode[p])
        /\ p = Service => inode[p] \in whole

\* fs-verity is never enabled on a copy that is still under way: a protected
\* file is whole, or the process that was to complete it never did, which
\* happens when one of two first runs of tarako-quote ends inside copy2 and
\* the other goes on.  No file ever has both names (TypeOK).
ProtectedIsWhole == TypeOK /\ verity \subseteq whole \cup broken

\* What prepare_app announces, an "installed fs-verity-protected app", is a
\* copy of the binary, not a part of one.  It can be a part: prepare_app does
\* not exclude another run of itself, and copies in place.
InstalledIsWhole == path.app \in verity => path.app \in whole

\* From when the installed application is protected it stays so: neither a
\* restart of the service nor a tool ever leaves an unprotected, or no,
\* executable in its place.
InstalledStaysProtected ==
    [][path.app \in verity => path'.app \in verity']_vars

\* Whatever a kill left behind, the service starts again and stays.
ServiceRuns == <>[](pc[Service] = "running")
==============================================================================
