------------------------- MODULE AttesterQuoteProofs -------------------------
(***************************************************************************)
(* Proofs about AttesterQuote, for any number of handlers, requests, loads *)
(* of the module and reboots.  They rest on the driver's own invariant     *)
(* (TarakoModuleProofs), which carries over because every step of the      *)
(* service is a step of the driver or leaves it alone.                     *)
(***************************************************************************)
EXTENDS AttesterQuote, TarakoModuleProofs

HandlerStages == {"idle", "open", "hello", "getPubkey", "pubkey", "signData",
                  "signed"}

GoTypeOK == /\ stage \in [Tasks -> HandlerStages]
            /\ input \in [Tasks -> UserData \cup {None}]
            /\ got \in [Tasks -> Quotes \cup {None}]

\* Where the driver is for the handler's place in tarakoQuote.
FileOpen(t) ==
    /\ stage[t] \in {"idle", "open"} => at[t] = "closed"
    /\ stage[t] \in {"hello", "getPubkey", "signData"} => at[t] = "open"
    /\ stage[t] = "pubkey" => at[t] \in {"open", "pubkey"}
    /\ stage[t] = "signed" =>
         at[t] \in {"open", "sign", "digest", "copied", "signed"}

\* The handler has the request, and from TARAKO_SIGN_DATA on a public key and
\* the request's binding in its struct.
Request(t) ==
    /\ stage[t] # "idle" => input[t] \in UserData
    /\ stage[t] = "pubkey" /\ at[t] = "open" /\ ret[t] = "ok" =>
         pub[t] # NoKey
    /\ stage[t] \in {"signData", "signed"} =>
         pub[t] # NoKey /\ umem[t] = input[t]
    /\ stage[t] = "signed" /\ at[t] \in {"copied", "signed"} =>
         req[t] = input[t]

\* What a successful TARAKO_SIGN_DATA has left in the struct.
Signed(t) ==
    stage[t] = "signed" /\ at[t] = "open" /\ ret[t] = "ok" =>
        /\ got[t] \in issued
        /\ got[t].user_data = input[t]
        /\ got[t].digest = exe[t]
        /\ got[t].key = pub[t]

OneExecutable == \A t, u \in Tasks : exe[t] = exe[u]

\* The inductive invariant, with that of the driver.
SInv == /\ IInv /\ GoTypeOK /\ OneExecutable /\ AnswerIsEvidence
        /\ \A t \in Tasks : FileOpen(t) /\ Request(t) /\ Signed(t)

-----------------------------------------------------------------------------
(* The driver under the service                                            *)

\* A step of the service is a step of TarakoModule, or leaves it alone.
LEMMA ServiceStepsAreDriverSteps ==
    ASSUME SInv, [SNext]_allVars
    PROVE  [Next]_vars
<1>1. ASSUME NEW t \in Tasks, Handler(t) PROVE [Next]_vars
  <2>1. stage[t] = "pubkey" => input[t] \in UserData
    BY Zenon DEF SInv, Request
  <2>2. TaskStep(t) \/ UNCHANGED vars
    BY <1>1, <2>1 DEF Handler, GoOpen, GoOpenFails, GoHello, GoGetPubkey,
       GoFill, GoSignData, GoIoctl, GoFails, GoReturn, TaskStep
  <2> QED BY <2>2 DEF Next
<1>2. ASSUME NEW t \in Tasks, NEW r, quoteHandler(t, r) PROVE [Next]_vars
  BY <1>2 DEF quoteHandler
<1>3. CASE Loading
  BY <1>3 DEF Loading, Next
<1>4. CASE SReboot
  BY <1>4 DEF SReboot, Next
<1>5. CASE UNCHANGED allVars
  BY <1>5, Zenon DEF allVars
<1> QED BY <1>1, <1>2, <1>3, <1>4, <1>5 DEF SNext

\* What the invariant says of a handler depends on these alone.
Same(t) == /\ stage'[t] = stage[t] /\ input'[t] = input[t] /\ got'[t] = got[t]
           /\ at'[t] = at[t] /\ ret'[t] = ret[t] /\ pub'[t] = pub[t]
           /\ umem'[t] = umem[t] /\ req'[t] = req[t] /\ exe'[t] = exe[t]
           /\ issued \subseteq issued'

\* A handler keeps its invariant while it does not move.
LEMMA SameKeeps ==
    ASSUME NEW t \in Tasks, FileOpen(t), Request(t), Signed(t), Same(t)
    PROVE  FileOpen(t)' /\ Request(t)' /\ Signed(t)'
BY Zenon DEF FileOpen, Request, Signed, Same

\* A task's system call does not touch another task.
LEMMA CallsAreSeparate ==
    ASSUME IInv, NEW t \in Tasks, NEW u \in Tasks, t # u, TaskStep(u)
    PROVE  /\ at'[t] = at[t] /\ ret'[t] = ret[t] /\ pub'[t] = pub[t]
           /\ umem'[t] = umem[t] /\ req'[t] = req[t]
           /\ issued \subseteq issued'
<1>1. /\ DOMAIN at = Tasks /\ DOMAIN ret = Tasks /\ DOMAIN pub = Tasks
      /\ DOMAIN umem = Tasks /\ DOMAIN req = Tasks
  BY Zenon DEF IInv, TypeOK
<1>2. CASE IoctlStep(u)
  BY <1>1, <1>2, ZenonT(60)
     DEF IoctlStep, GetPubkeyDone, GetPubkeyFault, SignDigest, SignNoVerity,
         SignCopyIn, SignCompute, SignComputeFails, SignCopyOut, SignFault,
         Leave, Continue
<1>3. CASE ~IoctlStep(u)
  BY <1>1, <1>3 DEF TaskStep, Exec, WriteBuffer, Open, Close, Hello,
     UnknownCommand, NoKeyPair, GetPubkey, SignData, SignRefused, Reply,
     Continue, ioctlVars
<1> QED BY <1>2, <1>3

-----------------------------------------------------------------------------
(* The handler's own steps                                                 *)

Handled(t) == FileOpen(t) /\ Request(t) /\ Signed(t)

\* No handler executes another program.
LEMMA ExecutableStays ==
    ASSUME SNext
    PROVE  UNCHANGED exe
<1>1. ASSUME NEW t \in Tasks, Handler(t) PROVE UNCHANGED exe
  <2>1. CASE GoIoctl(t)
    BY <2>1, ZenonT(60)
       DEF GoIoctl, IoctlStep, GetPubkeyDone, GetPubkeyFault, SignDigest,
           SignNoVerity, SignCopyIn, SignCompute, SignComputeFails, SignCopyOut,
           SignFault, Leave, Continue
  <2>2. CASE ~GoIoctl(t)
    BY <1>1, <2>2 DEF Handler, GoOpen, GoOpenFails, GoHello, GoGetPubkey,
       GoFill, GoSignData, GoFails, GoReturn, Open, Close, Hello, GetPubkey,
       SignData, SignRefused, NoKeyPair, WriteBuffer, Reply, Continue,
       vars, taskVars
  <2> QED BY <2>1, <2>2, Zenon
<1>2. ASSUME NEW t \in Tasks, NEW r, quoteHandler(t, r) PROVE UNCHANGED exe
  BY <1>2, ZenonT(60) DEF quoteHandler, vars, taskVars
<1>3. CASE Loading
  BY <1>3 DEF Loading, LoadFails, Load, Unload, TestModule, LockModules,
     LoaderStep,
     Register, RegisterFails, PopulateClaim, PopulateWrite, PopulatePublish,
     Deregister, ClearClaim, ClearDrop, ClearFinish, taskVars
<1>4. CASE SReboot
  BY <1>4 DEF SReboot, Reboot
<1> QED BY <1>1, <1>2, <1>3, <1>4 DEF SNext

\* A step of tarakoQuote outside an ioctl keeps the handler's invariant.
LEMMA OwnStep ==
    ASSUME SInv, NEW t \in Tasks, Handler(t), ~GoIoctl(t)
    PROVE  Handled(t)'
<1>1. /\ DOMAIN at = Tasks /\ DOMAIN ret = Tasks /\ DOMAIN pub = Tasks
      /\ DOMAIN umem = Tasks /\ DOMAIN req = Tasks /\ DOMAIN stage = Tasks
      /\ DOMAIN input = Tasks /\ DOMAIN got = Tasks
  BY DEF SInv, IInv, TypeOK, GoTypeOK
<1>2. FileOpen(t) /\ Request(t) /\ Signed(t)
  BY Zenon DEF SInv
<1> USE <1>1, <1>2 DEF Handled, FileOpen, Request, Signed
<1>3. CASE GoOpen(t)
  BY <1>3, Zenon DEF GoOpen, Open, GoTo, ioctlVars
<1>4. CASE GoOpenFails(t)
  BY <1>4, Zenon DEF GoOpenFails, Finish, vars, taskVars
<1>5. CASE GoHello(t)
  BY <1>5, Zenon DEF GoHello, Hello, Reply, GoTo
<1>6. CASE GoGetPubkey(t)
  BY <1>6, Zenon DEF GoGetPubkey, GetPubkey, NoKeyPair, Reply, Continue, GoTo
<1>7. CASE GoFill(t)
  BY <1>7, Zenon DEF GoFill, WriteBuffer, GoTo
<1>8. CASE GoSignData(t)
  BY <1>8, Zenon
     DEF GoSignData, SignData, SignRefused, NoKeyPair, Reply, Continue, GoTo
<1>9. CASE GoFails(t)
  BY <1>9, Zenon DEF GoFails, Close, Finish
<1>10. CASE GoReturn(t)
  BY <1>10 DEF GoReturn, Close, Finish
<1> QED
  BY <1>3, <1>4, <1>5, <1>6, <1>7, <1>8, <1>9, <1>10, Zenon DEF Handler

\* So does a step inside one of its ioctls.
LEMMA OwnIoctl ==
    ASSUME SInv, NEW t \in Tasks, GoIoctl(t)
    PROVE  Handled(t)'
<1>1. /\ DOMAIN at = Tasks /\ DOMAIN ret = Tasks /\ DOMAIN pub = Tasks
      /\ DOMAIN umem = Tasks /\ DOMAIN req = Tasks /\ DOMAIN stage = Tasks
      /\ DOMAIN input = Tasks /\ DOMAIN got = Tasks
  BY Zenon DEF SInv, IInv, TypeOK, GoTypeOK
<1>2. /\ FileOpen(t) /\ Request(t) /\ Signed(t)
      /\ stage' = stage /\ input' = input /\ IoctlStep(t)
  BY Zenon DEF SInv, GoIoctl
<1>3. at[t] \in Inside => ret[t] = "none" /\ value \in KeyPairs
  BY Zenon DEF SInv, IInv, Files, Lifecycle
<1> USE <1>1, <1>2 DEF Handled, FileOpen, Request, Signed
<1>4. CASE GetPubkeyDone(t)
  <2>1. value.pubkey # NoKey
    BY <1>3, <1>4, TarakoAssumption, Zenon DEF GetPubkeyDone, Inside, KeyPairs
  <2> QED BY <1>4, <2>1, Zenon DEF GetPubkeyDone, Leave
<1>5. CASE GetPubkeyFault(t)
  BY <1>5, Zenon DEF GetPubkeyFault, Leave
<1>6. CASE SignDigest(t)
  BY <1>6, Zenon DEF SignDigest, Continue
<1>7. CASE SignNoVerity(t)
  BY <1>7, Zenon DEF SignNoVerity, Leave
<1>8. CASE SignCopyIn(t)
  BY <1>8, Zenon DEF SignCopyIn, Continue
<1>9. CASE SignCompute(t)
  BY <1>9, Zenon DEF SignCompute, Continue
<1>10. CASE SignComputeFails(t)
  BY <1>10, Zenon DEF SignComputeFails, Leave
<1>11. CASE SignCopyOut(t)
  <2>0. stage[t] = "signed"
    BY <1>11, Zenon DEF SignCopyOut, SInv, GoTypeOK, HandlerStages
  <2>1. /\ at'[t] = "open" /\ ret'[t] = "ok" /\ umem'[t] = req[t]
        /\ pub' = pub /\ exe' = exe /\ issued' = issued
    BY <1>11, ZenonT(60) DEF SignCopyOut, Leave
  <2>2. got'[t] = sig[t]
    BY <1>11, <2>1 DEF SignCopyOut, GoIoctl
  <2>3. /\ sig[t] \in issued /\ sig[t].key = value.pubkey
        /\ sig[t].digest = exe[t] /\ sig[t].user_data = req[t]
    <3>1. /\ sig[t] \in issued
          /\ sig[t] = [boot |-> boot, key |-> value.pubkey,
                       digest |-> exe[t], user_data |-> req[t]]
      BY <1>11, ZenonT(60) DEF SignCopyOut, SInv, IInv, Calls
    <3> QED BY <3>1
  <2>4. pub[t] = value.pubkey
    BY <2>0 DEF SInv, IInv, Files
  <2>5. req[t] = input[t]
    BY <1>11, <2>0 DEF SignCopyOut
  <2>6. FileOpen(t)' /\ Request(t)'
    BY <2>0, <2>1, <2>5, Zenon
  <2>7. Signed(t)'
    BY <2>0, <2>1, <2>2, <2>3, <2>4, <2>5, ZenonT(60)
  <2> QED BY <2>6, <2>7, Zenon
<1>12. CASE SignFault(t)
  BY <1>12 DEF SignFault, Leave
<1> QED
  BY <1>4, <1>5, <1>6, <1>7, <1>8, <1>9, <1>10, <1>11, <1>12, Zenon
     DEF IoctlStep

-----------------------------------------------------------------------------
(* The invariant                                                           *)

\* Neither the device's history nor the IMA log ever loses an entry.
LEMMA HistoryGrows ==
    ASSUME Next
    PROVE  issued \subseteq issued' /\ imaLog \subseteq imaLog'
<1>1. CASE LoaderStep
  BY <1>1, Zenon
     DEF LoaderStep, Register, RegisterFails, PopulateClaim, PopulateWrite,
         PopulatePublish, Deregister, ClearClaim, ClearDrop, ClearFinish, sysVars
<1>2. CASE \/ \E k \in Keys : LoadFails(k) \/ \E m \in BOOLEAN : Load(k, m)
           \/ Unload \/ TestModule \/ LockModules \/ Reboot
  BY <1>2, Zenon
     DEF LoadFails, Load, ima_measure_pubkey, Unload, TestModule,
         LockModules, Reboot,
         sysVars
<1>3. ASSUME NEW t \in Tasks, IoctlStep(t)
      PROVE  issued \subseteq issued' /\ imaLog \subseteq imaLog'
  BY <1>3, Zenon
     DEF IoctlStep, GetPubkeyDone, GetPubkeyFault, SignDigest, SignNoVerity,
         SignCopyIn, SignCompute, SignComputeFails, SignCopyOut, SignFault,
         Leave, Continue, sysVars
<1>4. ASSUME NEW t \in Tasks, TaskStep(t), ~IoctlStep(t)
      PROVE  issued \subseteq issued' /\ imaLog \subseteq imaLog'
  BY <1>4, Zenon
     DEF TaskStep, Exec, WriteBuffer, Open, Close, Hello, UnknownCommand,
         NoKeyPair, GetPubkey, SignData, SignRefused, Reply, Continue, sysVars
<1> QED BY <1>1, <1>2, <1>3, <1>4, Zenon DEF Next

\* The handlers' variables keep their types.
LEMMA GoTypes ==
    ASSUME SInv, SNext
    PROVE  GoTypeOK'
<1> USE DEF SInv, GoTypeOK, HandlerStages
<1>1. ASSUME NEW t \in Tasks, GoIoctl(t) PROVE GoTypeOK'
  <2>1. at[t] = "signed" => sig[t] \in Quotes
    <3>1. at[t] = "signed" => sig[t] \in issued
      BY Zenon DEF IInv, Calls
    <3> QED BY <3>1, Zenon DEF IInv, TypeOK
  <2> QED BY <1>1, <2>1, Zenon DEF GoIoctl
<1>2. ASSUME NEW t \in Tasks, Handler(t), ~GoIoctl(t) PROVE GoTypeOK'
  BY <1>2, Zenon
     DEF Handler, GoOpen, GoOpenFails, GoHello, GoGetPubkey, GoFill, GoSignData,
         GoFails, GoReturn, GoTo, Finish
<1>3. ASSUME NEW t \in Tasks, NEW r \in Bindings \cup {Rejected},
             quoteHandler(t, r)
      PROVE  GoTypeOK'
  BY <1>3, Zenon DEF quoteHandler, goVars, Bindings
<1>4. CASE UNCHANGED goVars
  BY <1>4, Zenon DEF goVars
<1>5. CASE SReboot
  BY <1>5, Zenon DEF SReboot
<1> QED BY <1>1, <1>2, <1>3, <1>4, <1>5, Zenon DEF SNext

\* Every answer sent is, and stays, evidence for its request.
LEMMA AnswersStep ==
    ASSUME SInv, SNext, UNCHANGED exe,
           issued \subseteq issued', imaLog \subseteq imaLog'
    PROVE  AnswerIsEvidence'
<1>1. CASE UNCHANGED answers
  BY <1>1, Zenon DEF SInv, AnswerIsEvidence
<1>2. ASSUME NEW t \in Tasks, GoReturn(t) PROVE AnswerIsEvidence'
  <2> DEFINE new == [input |-> input[t], quote |-> got[t],
                     public_key |-> pub[t], user_data |-> umem[t]]
  <2>1. /\ got[t] \in issued /\ got[t].user_data = input[t]
        /\ got[t].digest = exe[t] /\ got[t].key = pub[t]
        /\ umem[t] = input[t]
    BY <1>2, Zenon DEF GoReturn, SInv, Signed, Request
  <2>2. <<got[t].boot, pub[t]>> \in imaLog
    BY <2>1, Zenon DEF SInv, IInv, EvidenceIsMeasured
  <2>3. \A u \in Tasks : got[t].digest = exe[u]
    BY <2>1, Zenon DEF SInv, OneExecutable
  <2>4. /\ new.input = input[t] /\ new.quote = got[t]
        /\ new.public_key = pub[t] /\ new.user_data = umem[t]
    BY Zenon
  <2>5. answers' \subseteq answers \cup {new}
    BY <1>2, Zenon DEF GoReturn
  <2> HIDE DEF new
  <2> QED BY <2>1, <2>2, <2>3, <2>4, <2>5, Zenon DEF SInv, AnswerIsEvidence
<1>3. ASSUME NEW t \in Tasks, Handler(t), ~GoReturn(t)
      PROVE  UNCHANGED answers
  BY <1>3 DEF Handler, GoOpen, GoOpenFails, GoHello, GoGetPubkey, GoFill,
     GoSignData, GoIoctl, GoFails, GoTo
<1>4. ASSUME NEW t \in Tasks, NEW r, quoteHandler(t, r)
      PROVE  UNCHANGED answers
  BY <1>4 DEF quoteHandler, goVars
<1>5. SReboot \/ UNCHANGED goVars => UNCHANGED answers
  BY DEF SReboot, goVars
<1> QED BY <1>1, <1>2, <1>3, <1>4, <1>5 DEF SNext

\* Every handler keeps its invariant, whoever takes the step.
LEMMA HandlersStep ==
    ASSUME SInv, SNext, UNCHANGED exe, issued \subseteq issued',
           NEW t \in Tasks
    PROVE  Handled(t)'
<1>0. FileOpen(t) /\ Request(t) /\ Signed(t)
  BY DEF SInv
<1>1. /\ DOMAIN stage = Tasks /\ DOMAIN input = Tasks /\ DOMAIN got = Tasks
  BY Zenon DEF SInv, GoTypeOK
<1>2. ASSUME Same(t) PROVE Handled(t)'
  BY <1>0, <1>2, SameKeeps DEF Handled
<1>3. ASSUME NEW u \in Tasks, Handler(u) PROVE Handled(t)'
  <2>1. CASE u = t
    BY <1>3, <2>1, OwnStep, OwnIoctl
  <2>2. CASE u # t
    <3>1. /\ stage'[t] = stage[t] /\ input'[t] = input[t] /\ got'[t] = got[t]
      BY <1>1, <1>3, <2>2, Zenon
         DEF Handler, GoOpen, GoOpenFails, GoHello, GoGetPubkey, GoFill,
             GoSignData, GoIoctl, GoFails, GoReturn, GoTo, Finish
    <3>2. stage[u] = "pubkey" => input[u] \in UserData
      BY DEF SInv, Request
    <3>3. TaskStep(u) \/ UNCHANGED vars
      BY <1>3, <3>2, Zenon
         DEF Handler, GoOpen, GoOpenFails, GoHello, GoGetPubkey, GoFill,
             GoSignData, GoIoctl, GoFails, GoReturn, TaskStep
    <3>4. CASE TaskStep(u)
      <4>1. IInv
        BY DEF SInv
      <4> QED BY <1>2, <2>2, <3>1, <3>4, <4>1, CallsAreSeparate, Zenon DEF Same
    <3>5. CASE UNCHANGED vars
      BY <1>2, <3>1, <3>5, Zenon DEF Same, vars, taskVars
    <3> QED BY <3>3, <3>4, <3>5
  <2> QED BY <2>1, <2>2
<1>4. ASSUME NEW u \in Tasks, NEW r \in Bindings \cup {Rejected},
             quoteHandler(u, r)
      PROVE  Handled(t)'
  <2>1. UNCHANGED <<at, ret, pub, umem, req>>
    BY <1>4, Zenon DEF quoteHandler, vars, taskVars
  <2>2. CASE Same(t)
    BY <1>2, <2>2, Zenon
  <2>3. CASE ~Same(t)
    <3>1. /\ u = t /\ stage[t] = "idle" /\ stage'[t] = "open"
          /\ input'[t] \in UserData
      BY <1>1, <1>4, <2>1, <2>3, Zenon DEF quoteHandler, goVars, Same,
         Bindings
    <3> QED BY <1>0, <2>1, <3>1 DEF Handled, FileOpen, Request, Signed
  <2> QED BY <2>2, <2>3, Zenon
<1>5. CASE Loading /\ UNCHANGED goVars
  <2>1. UNCHANGED taskVars
    BY <1>5, Zenon
       DEF Loading, LoadFails, Load, Unload, TestModule, LockModules,
           LoaderStep, Register,
           RegisterFails, PopulateClaim, PopulateWrite, PopulatePublish,
           Deregister, ClearClaim, ClearDrop, ClearFinish
  <2> QED BY <1>2, <1>5, <2>1, Zenon DEF Same, taskVars, goVars
<1>6. CASE SReboot
  BY <1>6, Zenon DEF SReboot, Reboot, Handled, FileOpen, Request, Signed
<1> QED BY <1>3, <1>4, <1>5, <1>6 DEF SNext

\* The initial state satisfies the inductive invariant.
LEMMA SInitSInv == SInit => SInv
<1> SUFFICES ASSUME SInit PROVE SInv
  BY Zenon
<1>1. IInv
  BY InitIInv, Zenon DEF SInit
<1>2. GoTypeOK /\ OneExecutable /\ AnswerIsEvidence
  BY Zenon DEF SInit, GoTypeOK, HandlerStages, OneExecutable, AnswerIsEvidence
<1>3. ASSUME NEW t \in Tasks PROVE FileOpen(t) /\ Request(t) /\ Signed(t)
  BY Zenon DEF SInit, Init, FileOpen, Request, Signed
<1> QED BY <1>1, <1>2, <1>3 DEF SInv

\* Every step preserves the inductive invariant.
LEMMA SNextSInv == SInv /\ [SNext]_allVars => SInv'
<1> SUFFICES ASSUME SInv, [SNext]_allVars PROVE SInv'
  OBVIOUS
<1>1. IInv'
  <2>1. IInv
    BY DEF SInv
  <2>2. [Next]_vars
    BY ServiceStepsAreDriverSteps, Zenon
  <2> QED BY <2>1, <2>2, NextIInv
<1>2. CASE SNext
  <2>1. UNCHANGED exe
    BY <1>2, ExecutableStays
  <2>2. issued \subseteq issued' /\ imaLog \subseteq imaLog'
    <3>1. Next \/ UNCHANGED vars
      BY ServiceStepsAreDriverSteps
    <3>2. UNCHANGED vars => UNCHANGED <<issued, imaLog>>
      BY DEF vars, sysVars
    <3> QED BY <3>1, <3>2, HistoryGrows
  <2>3. GoTypeOK' /\ AnswerIsEvidence'
    BY <1>2, <2>1, <2>2, GoTypes, AnswersStep, Zenon
  <2>4. OneExecutable'
    BY <2>1 DEF SInv, OneExecutable
  <2>5. ASSUME NEW t \in Tasks PROVE Handled(t)'
    BY <1>2, <2>1, <2>2, HandlersStep, Zenon
  <2> QED BY <1>1, <2>3, <2>4, <2>5 DEF SInv, Handled
<1>3. CASE UNCHANGED allVars
  <2>1. /\ UNCHANGED <<exe, issued, imaLog, answers, stage, input, got>>
        /\ UNCHANGED <<at, ret, pub, umem, req>>
    BY <1>3, ZenonT(60) DEF allVars, vars, goVars, taskVars, sysVars
  <2>2. GoTypeOK' /\ AnswerIsEvidence' /\ OneExecutable'
    BY <2>1 DEF SInv, GoTypeOK, AnswerIsEvidence, OneExecutable
  <2>3. ASSUME NEW t \in Tasks PROVE FileOpen(t)' /\ Request(t)' /\ Signed(t)'
    BY <2>1, SameKeeps, Zenon DEF SInv, Same
  <2> QED BY <1>1, <2>2, <2>3, Zenon DEF SInv
<1> QED BY <1>2, <1>3

\* The inductive invariant, and with it the driver's, holds in every
\* reachable state of the service.
LEMMA SInvariance == SSpec => []SInv
BY SInitSInv, SNextSInv, PTL DEF SSpec

-----------------------------------------------------------------------------
(* The properties                                                          *)

\* AnswerIsEvidence: each quoteResponse of quoteHandler (main.go) is evidence
\* for the very request it answers, under a measured key, for any number of
\* concurrent handlers, reloads of the module and reboots.
THEOREM AnswersAreEvidence == SSpec => []AnswerIsEvidence
<1>1. SInv => AnswerIsEvidence
  BY Zenon DEF SInv
<1> QED BY <1>1, SInvariance, PTL

\* KeyNeverChanges: tarakoQuote never reports "TAK public key changed between
\* ioctls" (main.go), since its open file pins the key.
THEOREM KeyIsTheSame == SSpec => []KeyNeverChanges
<1>1. SInv => KeyNeverChanges
  BY ZenonT(60) DEF SInv, Signed, KeyNeverChanges, KeyChanged
<1> QED BY <1>1, SInvariance, PTL

\* HandlerClosesFile: every way out of tarakoQuote closes /dev/tarako (the
\* deferred Close in main.go).
THEOREM FilesAreClosed == SSpec => []HandlerClosesFile
<1>1. SInv => HandlerClosesFile
  BY DEF SInv, FileOpen, HandlerClosesFile
<1> QED BY <1>1, SInvariance, PTL

\* ImplementsQuoteDevice: with the service's handlers as its callers the
\* driver is still a QuoteDevice; this is what Attestation takes the device
\* of the attester to be.
THEOREM ServiceImplementsDevice == SSpec => ImplementsQuoteDevice
<1>1. SInit => Device!Init
  BY InitImplements, Zenon DEF SInit
<1>2. SInv /\ [SNext]_allVars => [Device!Next]_(Device!vars)
  BY ServiceStepsAreDriverSteps, StepImplements DEF SInv
<1> QED
  BY <1>1, <1>2, SInvariance, PTL DEF SSpec, ImplementsQuoteDevice, Device!Spec
==============================================================================
