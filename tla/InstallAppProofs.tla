--------------------------- MODULE InstallAppProofs ---------------------------
(***************************************************************************)
(* Proofs about InstallApp, for any number of tarako-quote runs, inodes    *)
(* and kills.                                                              *)
(***************************************************************************)
EXTENDS InstallApp, TLAPS

\* The files that are written are not protected, and each writer has one.
Writers == \A p \in Processes : Writing(p) => inode[p] \in Inodes \ verity

\* Where the service's script is with its .new file.
Script ==
    /\ pc[Service] = "copying" => inode[Service] = path.new
    /\ path.new # None => copier[path.new] = Service
    /\ pc[Service] \in {"enable", "mv"} => path.new \in whole
    /\ pc[Service] = "mv" => path.new \in verity
    /\ pc[Service] = "exec" => path.app \in verity \cap whole
    /\ pc[Service] \notin {"measure", "copy", "use"}

\* What a run of tarako-quote relies on.
Tool(t) ==
    /\ pc[t] = "copying" => inode[t] = path.app \/ path.app \in verity
    /\ pc[t] = "copying" => inode[t] # path.new
    /\ pc[t] = "use" => path.app \in verity
    /\ pc[t] \notin {"install", "mv", "exec"}

\* The process that truncated i last is still writing it.
BeingCopied(i) == \E p \in Processes : /\ Writing(p) /\ inode[p] = i
                                       /\ copier[i] = p

\* While a tool has copied, or copies, the application and it is not yet
\* protected, it is whole or about to be, the tool that truncated it last
\* being still at it, or that tool has broken off.
CopyIsWatched ==
    (\E t \in Tools : pc[t] \in {"copying", "enable"}) =>
        \/ path.app \in whole \cup verity \cup broken
        \/ path.app \in Inodes /\ BeingCopied(path.app)

\* What runs is protected, and the service is whole.
Running ==
    \A p \in Processes : pc[p] = "running" =>
        inode[p] \in verity /\ (p = Service => inode[p] \in whole)

Kills == [service : 0..MaxServiceKills, tools : 0..MaxToolKills]

\* The inductive invariant.
IInv == /\ TypeOK /\ kills \in Kills /\ Writers /\ Script /\ CopyIsWatched
        /\ \A t \in Tools : Tool(t)
        /\ Running
        /\ verity \subseteq whole \cup broken

\* The initial state satisfies the inductive invariant.
LEMMA InitIInv == Init => IInv
<1> SUFFICES ASSUME Init PROVE IInv
  OBVIOUS
<1> USE InstallAssumption DEF Init, Processes
<1>1. TypeOK /\ kills \in Kills
  BY DEF TypeOK, Stages, Kills
<1>2. Writers /\ Script /\ CopyIsWatched /\ \A t \in Tools : Tool(t)
  BY DEF Writers, Writing, Script, CopyIsWatched, Tool
<1> QED BY <1>1, <1>2 DEF IInv, Running

-----------------------------------------------------------------------------
(* Steps that leave the files alone                                        *)

\* p moves on, or ends, without touching a file: the command it comes to may
\* rely only on what holds of the installed application, and a copy that p
\* leaves behind is recorded as broken.
LEMMA LeaveIInv ==
    ASSUME IInv, UNCHANGED <<path, copier, whole, verity>>, kills' \in Kills,
           NEW p \in Processes,
           broken \subseteq broken', broken' \subseteq Inodes,
           Writing(p) /\ copier[inode[p]] = p => inode[p] \in broken',
           NEW to \in {"idle", "install", "exec", "measure", "copy", "use",
                       "running"},
           NEW j \in Inodes \cup {None},
           pc' = [pc EXCEPT ![p] = to],
           inode' = [inode EXCEPT ![p] = j],
           to \in {"use", "exec"} => path.app \in verity,
           to = "running" => j \in verity,
           to = "running" /\ p = Service => j \in whole,
           p = Service => to \in {"idle", "install", "running"},
           p \in Tools => to \notin {"install", "exec"}
    PROVE  IInv'
<1> USE DEF Processes
<1>1. TypeOK' /\ (kills \in Kills)'
  BY DEF IInv, TypeOK, Stages, Kills
<1>2. /\ DOMAIN pc = Processes /\ DOMAIN inode = Processes
      /\ pc'[p] = to /\ inode'[p] = j
      /\ \A q \in Processes \ {p} : pc'[q] = pc[q] /\ inode'[q] = inode[q]
  BY DEF IInv, TypeOK
<1>3. Writers'
  BY <1>2 DEF IInv, Writers, Writing
<1>4. Script'
  BY <1>2 DEF IInv, Script
<1>5. ASSUME NEW t \in Tools PROVE Tool(t)'
  BY <1>2 DEF IInv, Tool
<1>6. CopyIsWatched'
  <2> SUFFICES ASSUME NEW u \in Tools, pc'[u] \in {"copying", "enable"},
                      path.app \notin whole \cup verity \cup broken'
               PROVE  path.app \in Inodes /\ BeingCopied(path.app)'
    BY DEF CopyIsWatched
  <2>1. u # p /\ pc[u] \in {"copying", "enable"}
    BY <1>2
  <2>2. path.app \in Inodes /\ BeingCopied(path.app)
    BY <2>1 DEF IInv, CopyIsWatched
  <2>3. PICK q \in Processes : /\ Writing(q) /\ inode[q] = path.app
                               /\ copier[path.app] = q
    BY <2>2 DEF BeingCopied
  <2>4. q # p
    BY <2>3
  <2> QED BY <1>2, <2>2, <2>3, <2>4 DEF BeingCopied, Writing
<1>7. /\ (verity \subseteq whole \cup broken)'
      /\ Running'
  BY <1>2, SMTT(20) DEF IInv, Running
<1> QED BY <1>1, <1>3, <1>4, <1>5, <1>6, <1>7 DEF IInv

\* ... when p was not writing.
LEMMA MoveIInv ==
    ASSUME IInv, UNCHANGED files, kills' \in Kills,
           NEW p \in Processes, ~Writing(p),
           NEW to \in {"idle", "install", "exec", "measure", "copy", "use",
                       "running"},
           NEW j \in Inodes \cup {None},
           pc' = [pc EXCEPT ![p] = to],
           inode' = [inode EXCEPT ![p] = j],
           to \in {"use", "exec"} => path.app \in verity,
           to = "running" => j \in verity,
           to = "running" /\ p = Service => j \in whole,
           p = Service => to \in {"idle", "install", "running"},
           p \in Tools => to \notin {"install", "exec"}
    PROVE  IInv'
<1>1. /\ UNCHANGED <<path, copier, whole, verity>>
      /\ broken \subseteq broken' /\ broken' \subseteq Inodes
  BY DEF files, IInv, TypeOK
<1> QED BY <1>1, LeaveIInv, Zenon

\* A process breaks off.
LEMMA BreakOffIInv ==
    ASSUME IInv, NEW p \in Processes, BreakOff(p), kills' \in Kills
    PROVE  IInv'
<1>1. /\ UNCHANGED <<path, copier, whole, verity>>
      /\ pc' = [pc EXCEPT ![p] = "idle"]
      /\ inode' = [inode EXCEPT ![p] = None]
      /\ None \in Inodes \cup {None}
  BY DEF BreakOff, Exit, GoTo
<1>2. Writing(p) => inode[p] \in Inodes
  BY DEF IInv, Writers
<1>3. /\ broken \subseteq broken' /\ broken' \subseteq Inodes
      /\ Writing(p) /\ copier[inode[p]] = p => inode[p] \in broken'
  BY <1>2 DEF BreakOff, IInv, TypeOK
<1> QED BY <1>1, <1>3, LeaveIInv, Zenon

-----------------------------------------------------------------------------
(* Writing                                                                 *)

\* Creating a file takes an inode that no path and no process has.
LEMMA CreateFacts ==
    ASSUME IInv, NEW p \in Processes, NEW name \in {"app", "new"},
           Create(p, name)
    PROVE  \E i \in Inodes :
              /\ i # path.app /\ i # path.new
              /\ \A q \in Processes : inode[q] # i
              /\ path' = [path EXCEPT ![name] = i]
              /\ copier' = [copier EXCEPT ![i] = p]
              /\ whole' = whole \ {i} /\ broken' = broken \ {i}
              /\ verity' = verity \ {i}
              /\ inode' = [inode EXCEPT ![p] = i]
BY Zenon DEF Create, Truncate, Free

\* install(1) begins a new .new file.
LEMMA InstallIInv ==
    ASSUME IInv, Install
    PROVE  IInv'
<1>0. /\ Service \in Processes
      /\ DOMAIN pc = Processes /\ DOMAIN inode = Processes
      /\ DOMAIN copier = Inodes /\ DOMAIN path = {"app", "new"}
      /\ Service \notin Tools /\ None \notin Inodes
      /\ Tools \subseteq Processes
  BY InstallAssumption DEF Processes, IInv, TypeOK
<1>1. PICK i \in Inodes :
         /\ i # path.app /\ i # path.new
         /\ \A q \in Processes : inode[q] # i
         /\ path' = [path EXCEPT !["new"] = i]
         /\ copier' = [copier EXCEPT ![i] = Service]
         /\ whole' = whole \ {i} /\ broken' = broken \ {i}
         /\ verity' = verity \ {i}
         /\ inode' = [inode EXCEPT ![Service] = i]
  BY <1>0, CreateFacts DEF Install
<1>2. /\ pc[Service] = "install" /\ pc' = [pc EXCEPT ![Service] = "copying"]
      /\ UNCHANGED kills
  BY DEF Install, GoTo
<1>3. /\ path'.new = i /\ path'.app = path.app
      /\ pc'[Service] = "copying" /\ inode'[Service] = i
      /\ \A q \in Tools : pc'[q] = pc[q] /\ inode'[q] = inode[q]
      /\ copier'[i] = Service
      /\ \A k \in Inodes \ {i} : copier'[k] = copier[k]
  BY <1>0, <1>1, <1>2
<1>4. TypeOK' /\ (kills \in Kills)'
  BY <1>0, <1>1, <1>2, <1>3 DEF IInv, TypeOK, Stages
<1>5. Writers'
  BY <1>0, <1>1, <1>3 DEF IInv, Writers, Writing, Processes
<1>6. Script'
  BY <1>0, <1>1, <1>3 DEF IInv, Script
<1>7. ASSUME NEW t \in Tools PROVE Tool(t)'
  BY <1>0, <1>1, <1>3 DEF IInv, Tool
<1>8. CopyIsWatched'
  <2> SUFFICES ASSUME NEW u \in Tools, pc'[u] \in {"copying", "enable"},
                      path.app \notin whole \cup verity \cup broken
               PROVE  path.app \in Inodes /\ BeingCopied(path.app)'
    BY <1>1, <1>3 DEF CopyIsWatched, BeingCopied
  <2>1. path.app \in Inodes /\ BeingCopied(path.app)
    BY <1>3 DEF IInv, CopyIsWatched
  <2> QED BY <1>0, <1>1, <1>2, <1>3, <2>1 DEF BeingCopied, Writing, Processes
<1>9. /\ (verity \subseteq whole \cup broken)'
      /\ Running'
  BY <1>0, <1>1, <1>3 DEF IInv, Running, Processes
<1> QED BY <1>4, <1>5, <1>6, <1>7, <1>8, <1>9 DEF IInv

\* copy2 of a tool begins: it creates the application's file, or truncates
\* the one that is there and not protected.
LEMMA CopyIInv ==
    ASSUME IInv, NEW t \in Tools, Copy(t)
    PROVE  IInv'
<1>0. /\ t \in Processes /\ Service \in Processes /\ Service # t
      /\ DOMAIN pc = Processes /\ DOMAIN inode = Processes
      /\ DOMAIN copier = Inodes /\ DOMAIN path = {"app", "new"}
      /\ None \notin Inodes /\ verity \subseteq Inodes
      /\ pc[t] = "copy" /\ UNCHANGED kills
      /\ inode[t] \in Inodes \cup {None}
  BY InstallAssumption DEF Processes, IInv, TypeOK, Copy
<1>1. CASE path.app # None /\ path.app \in verity
  <2>1. /\ pc' = [pc EXCEPT ![t] = "idle"] /\ UNCHANGED files
        /\ inode' = [inode EXCEPT ![t] = None]
    BY <1>1 DEF Copy, Exit, GoTo
  <2> QED BY <1>0, <2>1, MoveIInv, Zenon DEF IInv, Writing
<1>2. ASSUME NEW i \in Inodes,
             i # path.new, i \notin verity',
             path.app # None => i = path.app,
             \A q \in Processes : pc[q] = "running" => inode[q] # i,
             path'.app = i, path'.new = path.new, DOMAIN path' = DOMAIN path,
             path' \in [{"app", "new"} -> Inodes \cup {None}],
             copier' = [copier EXCEPT ![i] = t],
             whole' = whole \ {i}, broken' = broken \ {i},
             verity' = verity \ {i},
             inode' = [inode EXCEPT ![t] = i],
             pc' = [pc EXCEPT ![t] = "copying"],
             path.app \notin verity
      PROVE  IInv'
  <2>1. /\ pc'[t] = "copying" /\ inode'[t] = i
        /\ \A q \in Processes \ {t} : pc'[q] = pc[q] /\ inode'[q] = inode[q]
        /\ copier'[i] = t
        /\ \A k \in Inodes \ {i} : copier'[k] = copier[k]
    BY <1>0, <1>2
  <2>2. TypeOK' /\ (kills \in Kills)'
    BY <1>0, <1>2 DEF IInv, TypeOK, Stages
  <2>3. Writers'
    BY <1>0, <1>2, <2>1 DEF IInv, Writers, Writing
  <2>4. Script'
    BY <1>0, <1>2, <2>1 DEF IInv, Script, TypeOK
  <2>5. ASSUME NEW u \in Tools PROVE Tool(u)'
    <3>1. CASE u = t
      BY <1>2, <2>1, <3>1 DEF Tool
    <3>2. CASE u # t
      <4>1. pc[u] = "copying" => inode[u] = path.app /\ inode[u] # None
        BY <1>0, <1>2 DEF IInv, Tool, Writers, Writing, Processes
      <4> QED BY <1>2, <2>1, <3>2, <4>1 DEF IInv, Tool, Processes
    <3> QED BY <3>1, <3>2
  <2>6. CopyIsWatched'
    BY <1>0, <1>2, <2>1 DEF CopyIsWatched, BeingCopied, Writing
  <2>7. /\ (verity \subseteq whole \cup broken)'
        /\ Running'
    BY <1>0, <1>2, <2>1 DEF IInv, Running
  <2> QED BY <2>2, <2>3, <2>4, <2>5, <2>6, <2>7 DEF IInv
<1>3. CASE path.app = None
  <2>1. PICK i \in Inodes :
           /\ i # path.app /\ i # path.new
           /\ \A q \in Processes : inode[q] # i
           /\ path' = [path EXCEPT !["app"] = i]
           /\ copier' = [copier EXCEPT ![i] = t]
           /\ whole' = whole \ {i} /\ broken' = broken \ {i}
           /\ verity' = verity \ {i}
           /\ inode' = [inode EXCEPT ![t] = i]
    BY <1>0, <1>3, CreateFacts DEF Copy
  <2>2. pc' = [pc EXCEPT ![t] = "copying"]
    BY <1>3 DEF Copy, GoTo
  <2>3. /\ path'.app = i /\ path'.new = path.new /\ DOMAIN path' = DOMAIN path
        /\ path' \in [{"app", "new"} -> Inodes \cup {None}]
    BY <1>0, <2>1 DEF IInv, TypeOK
  <2>4. path.app \notin verity
    BY <1>0, <1>3
  <2> QED BY <1>2, <1>3, <2>1, <2>2, <2>3, <2>4, Zenon
<1>4. CASE path.app # None /\ path.app \notin verity
  <2>1. /\ copier' = [copier EXCEPT ![path.app] = t]
        /\ whole' = whole \ {path.app} /\ verity' = verity
        /\ broken' = broken \ {path.app}
        /\ inode' = [inode EXCEPT ![t] = path.app]
        /\ pc' = [pc EXCEPT ![t] = "copying"] /\ path' = path
    BY <1>4 DEF Copy, Truncate, GoTo
  <2>2. /\ path.app \in Inodes /\ path.app # path.new
        /\ path \in [{"app", "new"} -> Inodes \cup {None}]
    BY <1>4 DEF IInv, TypeOK
  <2>3. \A q \in Processes : pc[q] = "running" => inode[q] # path.app
    BY <1>4 DEF IInv, Running
  <2>4. verity' = verity \ {path.app}
    BY <1>4, <2>1
  <2> QED BY <1>2, <1>4, <2>1, <2>2, <2>3, <2>4, Zenon
<1> QED BY <1>1, <1>3, <1>4

\* Closing a file, by the process that wrote it.
LEMMA CloseIInv ==
    ASSUME IInv, NEW p \in Processes, Close(p, "enable")
    PROVE  IInv'
<1>0. /\ Service \in Processes /\ Service \notin Tools
      /\ \A t \in Tools : t \in Processes
      /\ DOMAIN pc = Processes /\ DOMAIN inode = Processes
      /\ None \notin Inodes
      /\ inode[p] \in Inodes \ verity /\ pc[p] = "copying"
  BY InstallAssumption DEF Processes, IInv, TypeOK, Writers, Close, Writing
<1>1. /\ pc' = [pc EXCEPT ![p] = "enable"]
      /\ inode' = [inode EXCEPT ![p] = None]
      /\ whole \subseteq whole' /\ whole' \subseteq whole \cup {inode[p]}
      /\ copier[inode[p]] = p => inode[p] \in whole'
      /\ UNCHANGED <<path, copier, verity, broken, kills>>
  BY DEF Close, GoTo
<1>2. /\ pc'[p] = "enable" /\ inode'[p] = None
      /\ \A q \in Processes \ {p} : pc'[q] = pc[q] /\ inode'[q] = inode[q]
  BY <1>0, <1>1
<1>3. TypeOK' /\ (kills \in Kills)'
  BY <1>0, <1>1 DEF IInv, TypeOK, Stages
<1>4. Writers'
  BY <1>0, <1>1, <1>2 DEF IInv, Writers, Writing
<1>5. Script'
  <2>1. CASE p = Service
    <3>1. path.new # None /\ copier[path.new] = Service /\ inode[p] = path.new
      BY <1>0, <2>1 DEF IInv, Script
    <3> QED BY <1>0, <1>1, <1>2, <2>1, <3>1 DEF IInv, Script
  <2>2. CASE p # Service
    BY <1>0, <1>1, <1>2, <2>2 DEF IInv, Script
  <2> QED BY <2>1, <2>2
<1>6. ASSUME NEW t \in Tools PROVE Tool(t)'
  BY <1>0, <1>1, <1>2 DEF IInv, Tool
<1>7. CopyIsWatched'
  <2> SUFFICES ASSUME NEW u \in Tools, pc'[u] \in {"copying", "enable"},
                      path.app \notin whole' \cup verity \cup broken
               PROVE  path.app \in Inodes /\ BeingCopied(path.app)'
    BY <1>1 DEF CopyIsWatched, BeingCopied
  <2>1. pc[u] \in {"copying", "enable"}
    BY <1>0, <1>2
  <2>2. path.app \in Inodes /\ BeingCopied(path.app)
    BY <1>1, <2>1 DEF IInv, CopyIsWatched
  <2>3. PICK q \in Processes : /\ Writing(q) /\ inode[q] = path.app
                               /\ copier[path.app] = q
    BY <2>2 DEF BeingCopied
  <2>4. q # p
    BY <1>1, <2>3
  <2>5. Writing(q)' /\ inode'[q] = path'.app /\ copier'[path'.app] = q
    BY <1>1, <1>2, <2>3, <2>4 DEF Writing
  <2> QED BY <1>1, <2>2, <2>5 DEF BeingCopied
<1>8. /\ (verity \subseteq whole \cup broken)'
      /\ Running'
  BY <1>0, <1>1, <1>2 DEF IInv, Running
<1> QED BY <1>3, <1>4, <1>5, <1>6, <1>7, <1>8 DEF IInv

-----------------------------------------------------------------------------
(* Protecting                                                              *)

\* fs-verity is enabled on a file that nobody writes and that is
\* whole, or was broken off.
LEMMA ProtectIInv ==
    ASSUME IInv, NEW p \in Processes, NEW i \in whole \cup broken, ~HasWriter(i),
           NEW to \in {"mv", "measure"},
           p = Service => to = "mv" /\ i = path.new,
           p \in Tools => to = "measure",
           pc[p] = "enable", pc' = [pc EXCEPT ![p] = to],
           verity' = verity \cup {i},
           UNCHANGED <<path, copier, whole, broken, inode, kills>>
    PROVE  IInv'
<1>0. /\ Service \in Processes /\ Service \notin Tools
      /\ \A t \in Tools : t \in Processes
      /\ DOMAIN pc = Processes /\ i \in Inodes
      /\ p # Service => p \in Tools
  BY InstallAssumption DEF Processes, IInv, TypeOK
<1>1. /\ pc'[p] = to /\ \A q \in Processes \ {p} : pc'[q] = pc[q]
      /\ pc'[p] # "copying"
  BY <1>0
<1>2. TypeOK' /\ (kills \in Kills)'
  BY <1>0 DEF IInv, TypeOK, Stages
<1>3. Writers'
  BY <1>0, <1>1 DEF IInv, Writers, Writing, HasWriter
<1>4. Script'
  BY <1>0, <1>1 DEF IInv, Script
<1>5. ASSUME NEW t \in Tools PROVE Tool(t)'
  BY <1>0, <1>1 DEF IInv, Tool
<1>6. CopyIsWatched'
  <2> SUFFICES ASSUME NEW u \in Tools, pc'[u] \in {"copying", "enable"},
                      path.app \notin whole \cup verity \cup broken
               PROVE  path.app \in Inodes /\ BeingCopied(path.app)'
    BY DEF CopyIsWatched, BeingCopied
  <2>1. pc[u] \in {"copying", "enable"}
    BY <1>0, <1>1
  <2>2. path.app \in Inodes /\ BeingCopied(path.app)
    BY <2>1 DEF IInv, CopyIsWatched
  <2> QED BY <1>0, <1>1, <2>2 DEF BeingCopied, Writing
<1>7. /\ (verity \subseteq whole \cup broken)'
      /\ Running'
  BY <1>0, <1>1 DEF IInv, Running
<1> QED BY <1>2, <1>3, <1>4, <1>5, <1>6, <1>7 DEF IInv

\* An attempt to protect a file, in the script and in prepare_app.
LEMMA EnableIInv ==
    ASSUME IInv
    PROVE  /\ ServiceEnable => IInv'
           /\ \A t \in Tools : ToolEnable(t) => IInv'
<1>0. /\ Service \in Processes /\ Service \notin Tools
      /\ \A t \in Tools : t \in Processes
      /\ kills \in Kills /\ None \in Inodes \cup {None}
  BY InstallAssumption, SMTT(20) DEF Processes, IInv
<1>1. ASSUME NEW p \in Processes, pc[p] = "enable", UNCHANGED <<files, kills>>,
             Exit(p)
      PROVE  IInv'
  BY <1>0, <1>1, MoveIInv, Zenon DEF Exit, GoTo, Writing
<1>2. ASSUME ServiceEnable PROVE IInv'
  <2>1. CASE MayEnable(path.new)
    <3>1. path.new \in whole /\ ~HasWriter(path.new)
      BY <1>2, <2>1 DEF ServiceEnable, MayEnable, IInv, Script
    <3> QED BY <1>0, <1>2, <2>1, <3>1, ProtectIInv
            DEF ServiceEnable, Enable, GoTo
  <2>2. CASE ~MayEnable(path.new)
    BY <1>0, <1>1, <1>2, <2>2 DEF ServiceEnable, Enable, files
  <2> QED BY <2>1, <2>2
<1>3. ASSUME NEW t \in Tools, ToolEnable(t) PROVE IInv'
  <2>1. CASE MayEnable(path.app)
    <3>1. path.app \in whole \cup broken /\ ~HasWriter(path.app)
      BY <1>3, <2>1 DEF ToolEnable, MayEnable, IInv, CopyIsWatched,
                        BeingCopied, HasWriter
    <3> QED BY <1>0, <1>3, <2>1, <3>1, ProtectIInv DEF ToolEnable, Enable, GoTo
  <2>2. CASE ~MayEnable(path.app)
    BY <1>0, <1>1, <1>3, <2>2 DEF ToolEnable, Enable, files
  <2> QED BY <2>1, <2>2
<1> QED BY <1>2, <1>3

\* The protected .new file takes the application's place.
LEMMA MvIInv ==
    ASSUME IInv, Mv
    PROVE  IInv'
<1>0. /\ Service \in Processes /\ Service \notin Tools
      /\ \A t \in Tools : t \in Processes
      /\ DOMAIN pc = Processes /\ None \notin Inodes
      /\ path.new \in verity \cap whole
      /\ path.new \in Inodes
  BY InstallAssumption DEF Processes, IInv, TypeOK, Mv, Script
<1>1. /\ pc'[Service] = "exec"
      /\ \A q \in Processes \ {Service} : pc'[q] = pc[q]
      /\ path'.app = path.new /\ path'.new = None
      /\ UNCHANGED <<copier, whole, verity, broken, inode, kills>>
  BY <1>0 DEF Mv, GoTo
<1>2. TypeOK' /\ (kills \in Kills)'
  BY <1>0, <1>1 DEF Mv, GoTo, IInv, TypeOK, Stages
<1>3. Writers' /\ Script'
  BY <1>0, <1>1 DEF IInv, Writers, Writing, Script
<1>4. ASSUME NEW t \in Tools PROVE Tool(t)'
  BY <1>0, <1>1 DEF IInv, Tool, Writers, Writing
<1>5. CopyIsWatched'
  BY <1>0, <1>1 DEF CopyIsWatched
<1>6. /\ (verity \subseteq whole \cup broken)'
      /\ Running'
  BY <1>0, <1>1 DEF IInv, Running
<1> QED BY <1>2, <1>3, <1>4, <1>5, <1>6 DEF IInv

-----------------------------------------------------------------------------
(* All steps                                                               *)

\* A kill is counted within its bound.
LEMMA KillsBounded ==
    ASSUME kills \in Kills
    PROVE  /\ KillService => kills' \in Kills
           /\ \A t \in Tools : KillTool(t) => kills' \in Kills
<1>1. /\ kills.service \in Nat /\ kills.tools \in Nat
      /\ kills.service <= MaxServiceKills /\ kills.tools <= MaxToolKills
  BY InstallAssumption DEF Kills
<1>2. ASSUME KillService PROVE kills' \in Kills
  <2>1. /\ kills'.service = kills.service + 1 /\ kills'.tools = kills.tools
        /\ kills' = [service |-> kills'.service, tools |-> kills'.tools]
        /\ kills.service < MaxServiceKills
    BY <1>2 DEF KillService, Kills
  <2> QED BY <1>1, <2>1, InstallAssumption DEF Kills
<1>3. ASSUME NEW t \in Tools, KillTool(t) PROVE kills' \in Kills
  <2>1. /\ kills'.tools = kills.tools + 1 /\ kills'.service = kills.service
        /\ kills' = [service |-> kills'.service, tools |-> kills'.tools]
        /\ kills.tools < MaxToolKills
    BY <1>3 DEF KillTool, Kills
  <2> QED BY <1>1, <2>1, InstallAssumption DEF Kills
<1> QED BY <1>2, <1>3

\* Every step of the service, of a tool and of whoever kills them preserves
\* the inductive invariant.
LEMMA NextIInv == IInv /\ [Next]_vars => IInv'
<1> SUFFICES ASSUME IInv, [Next]_vars PROVE IInv'
  OBVIOUS
<1>0. /\ Service \in Processes /\ Service \notin Tools
      /\ \A t \in Tools : t \in Processes
      /\ kills \in Kills /\ None \in Inodes \cup {None}
      /\ \A p \in Processes : /\ inode[p] \in Inodes \cup {None}
                              /\ inode = [inode EXCEPT ![p] = inode[p]]
      /\ verity \subseteq Inodes
  BY InstallAssumption, SMTT(20) DEF Processes, IInv, TypeOK
<1>1. CASE ServiceStart
  BY <1>0, <1>1, MoveIInv, Zenon DEF ServiceStart, GoTo, Writing
<1>2. CASE Install
  BY <1>2, InstallIInv
<1>3. CASE InstallDone
  BY <1>0, <1>3, CloseIInv DEF InstallDone
<1>4. CASE ServiceEnable
  BY <1>4, EnableIInv
<1>5. CASE Mv
  BY <1>5, MvIInv
<1>6. CASE Exec
  <2>1. /\ UNCHANGED files /\ kills' \in Kills /\ ~Writing(Service)
        /\ path.app \in verity \cap whole
    BY <1>0, <1>6 DEF Exec, IInv, Script, Writing
  <2>2. CASE path.app = None \/ HasWriter(path.app)
    BY <1>0, <1>6, <2>1, <2>2, MoveIInv DEF Exec, Exit, GoTo
  <2>3. CASE ~(path.app = None \/ HasWriter(path.app))
    <3>1. path.app \in Inodes \cup {None}
      BY <1>0, <2>1
    <3> QED BY <1>0, <1>6, <2>1, <2>3, <3>1, MoveIInv DEF Exec, GoTo
  <2> QED BY <2>2, <2>3
<1>7. CASE KillService
  <2>1. kills' \in Kills
    BY <1>0, <1>7, KillsBounded
  <2> QED BY <1>0, <1>7, <2>1, BreakOffIInv DEF KillService
<1>8. ASSUME NEW t \in Tools, AppExists(t) PROVE IInv'
  <2>1. ~Writing(t) /\ kills' \in Kills /\ UNCHANGED files
    BY <1>0, <1>8 DEF AppExists, Writing
  <2>2. PICK to \in {"copy", "measure"} : pc' = [pc EXCEPT ![t] = to]
    BY <1>8, Zenon DEF AppExists, GoTo
  <2> QED BY <1>0, <1>8, <2>1, <2>2, MoveIInv, Zenon DEF AppExists
<1>9. ASSUME NEW t \in Tools, Measure(t) PROVE IInv'
  <2>1. ~Writing(t) /\ kills' \in Kills /\ UNCHANGED files
    BY <1>0, <1>9 DEF Measure, Writing
  <2>2. CASE path.app \in verity
    BY <1>0, <1>9, <2>1, <2>2, MoveIInv, SMTT(20) DEF Measure, GoTo
  <2>3. CASE path.app \notin verity
    BY <1>0, <1>9, <2>1, <2>3, MoveIInv DEF Measure, Exit, GoTo
  <2> QED BY <2>2, <2>3
<1>10. ASSUME NEW t \in Tools, Copy(t) PROVE IInv'
  BY <1>10, CopyIInv
<1>11. ASSUME NEW t \in Tools, CopyDone(t) PROVE IInv'
  BY <1>0, <1>11, CloseIInv DEF CopyDone
<1>12. ASSUME NEW t \in Tools, ToolEnable(t) PROVE IInv'
  BY <1>12, EnableIInv, SMTT(20)
<1>13. ASSUME NEW t \in Tools, Use(t) PROVE IInv'
  <2>1. /\ ~Writing(t) /\ kills' \in Kills /\ UNCHANGED files
        /\ path.app \in verity
    BY <1>0, <1>13 DEF Use, Writing, IInv, Tool
  <2> QED BY <1>0, <1>13, <2>1, MoveIInv, Zenon DEF Use, GoTo
<1>14. ASSUME NEW t \in Tools, ToolEnds(t) PROVE IInv'
  BY <1>0, <1>14, MoveIInv, Zenon DEF ToolEnds, Exit, GoTo, Writing
<1>15. ASSUME NEW t \in Tools, KillTool(t) PROVE IInv'
  <2>1. kills' \in Kills
    BY <1>0, <1>15, KillsBounded
  <2> QED BY <1>0, <1>15, <2>1, BreakOffIInv DEF KillTool
<1>16. CASE UNCHANGED vars
  BY <1>16, SMTT(20)
     DEF vars, files, IInv, TypeOK, Writers, Writing, Script, Tool,
         CopyIsWatched, BeingCopied, Running
<1> QED BY <1>1, <1>2, <1>3, <1>4, <1>5, <1>6, <1>7, <1>8, <1>9, <1>10,
           <1>11, <1>12, <1>13, <1>14, <1>15, <1>16
        DEF Next, ServiceStep, ToolStep

\* The inductive invariant holds throughout.
LEMMA Invariance == Spec => []IInv
BY InitIInv, NextIInv, PTL DEF Spec

-----------------------------------------------------------------------------
(* What the script and prepare_app promise                                 *)

\* Whatever the service or a tool executes is protected by fs-verity and has
\* no writer, and what the service executes is whole, however they interleave
\* and wherever they break off (RunsProtected; attester.nix and prepare_app).
THEOREM RunsAreProtected == Spec => []RunsProtected
<1>1. IInv => RunsProtected
  <2> SUFFICES ASSUME IInv, NEW p \in Processes, pc[p] = "running"
               PROVE  /\ inode[p] \in verity /\ ~HasWriter(inode[p])
                      /\ p = Service => inode[p] \in whole
    BY DEF RunsProtected
  <2>1. inode[p] \in verity
    BY DEF IInv, Running
  <2>2. ~HasWriter(inode[p])
    BY <2>1 DEF IInv, Writers, HasWriter
  <2> QED BY <2>1, <2>2 DEF IInv, Running
<1> QED BY <1>1, Invariance, PTL

\* fs-verity is never enabled on a copy that is under way: a protected file
\* is whole or its last copier broke off; and no file has both names
\* (ProtectedIsWhole; the two enable commands).
THEOREM ProtectedFilesAreWhole == Spec => []ProtectedIsWhole
<1>1. IInv => ProtectedIsWhole
  BY DEF IInv, ProtectedIsWhole
<1> QED BY <1>1, Invariance, PTL

\* Once the installed application is protected no step leaves an unprotected
\* one, or none, in its place (InstalledStaysProtected; install, mv, copy2).
THEOREM ApplicationStaysProtected == Spec => InstalledStaysProtected
<1>1. IInv /\ [Next]_vars
      => [path.app \in verity => path'.app \in verity']_vars
  <2> SUFFICES ASSUME IInv, Next, path.app \in verity
               PROVE  path'.app \in verity'
    BY DEF vars
  <2>0. /\ None \notin Inodes /\ path.app \in Inodes
        /\ Service \in Processes /\ \A t \in Tools : t \in Processes
        /\ DOMAIN path = {"app", "new"}
    BY InstallAssumption DEF IInv, TypeOK, Processes
  <2>1. CASE UNCHANGED <<path, verity>>
    BY <2>1
  <2>2. CASE Install
    BY <2>0, <2>2, CreateFacts DEF Install
  <2>3. ASSUME NEW t \in Tools, Copy(t) PROVE path'.app \in verity'
    BY <2>0, <2>3 DEF Copy, files
  <2>4. ASSUME NEW p \in Processes, NEW name \in {"app", "new"}, NEW to,
               Enable(p, name, to)
        PROVE  path'.app \in verity'
    BY <2>4 DEF Enable
  <2>5. CASE Mv
    BY <2>5 DEF Mv, IInv, Script
  <2>6. CASE \/ ServiceStart \/ InstallDone \/ Exec \/ KillService
             \/ \E t \in Tools : \/ AppExists(t) \/ Measure(t) \/ CopyDone(t)
                                 \/ Use(t) \/ ToolEnds(t) \/ KillTool(t)
    BY <2>1, <2>6 DEF ServiceStart, InstallDone, Exec, KillService, AppExists,
                      Measure, CopyDone, Use, ToolEnds, KillTool, BreakOff, Close,
                      files
  <2> QED BY <2>0, <2>2, <2>3, <2>4, <2>5, <2>6
          DEF Next, ServiceStep, ToolStep, ServiceEnable, ToolEnable
<1> QED BY <1>1, Invariance, PTL DEF Spec, InstalledStaysProtected
==============================================================================
