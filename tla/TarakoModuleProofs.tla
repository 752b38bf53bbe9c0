-------------------------- MODULE TarakoModuleProofs --------------------------
(***************************************************************************)
(* Proofs about TarakoModule, for any number of tasks, keys, loads and     *)
(* reboots.                                                                *)
(***************************************************************************)
EXTENDS TarakoModule, TLAPS

\* The phases of loading and unloading, and what the cell holds in each.
Lifecycle ==
    /\ kp # None => mod \in {"keyed", "registered"}
    /\ mod = "absent" =>
         pc[Loader] = "idle" /\ init = 0 /\ value \notin KeyPairs
    /\ mod = "keyed" =>
         pc[Loader] = "idle" /\ init = 0 /\ value \notin KeyPairs /\ kp # None
    /\ mod = "registered" =>
         \/ pc[Loader] = "idle" /\ init = 0 /\ kp # None
         \/ /\ pc[Loader] = "claimed" /\ init = 1 /\ kp = None
            /\ local[Loader] \in KeyPairs
         \/ /\ pc[Loader] = "written" /\ init = 1 /\ kp = None
            /\ value \in KeyPairs /\ local[Loader] = value
    /\ mod \in {"live", "going"} =>
         pc[Loader] = "idle" /\ init = 2 /\ value \in KeyPairs
    /\ mod = "cleanup" =>
         \/ pc[Loader] = "idle" /\ init = 2 /\ value \in KeyPairs
         \/ pc[Loader] = "clearing" /\ init = 1
         \/ pc[Loader] = "dropped" /\ init = 1 /\ value = Dropped
    /\ pc[Loader] \notin {"claimed", "written"} => local[Loader] = Uninit

\* An open file keeps the module from going; a call works on the live key.
Files ==
    \A t \in Tasks :
        /\ at[t] # "closed" => mod \in {"registered", "live"}
        /\ at[t] \in Inside =>
             /\ mod = "live" /\ pc[t] = "borrowed" /\ local[t] = value
             /\ ret[t] = "none"
        /\ at[t] \notin Inside => pc[t] = "idle" /\ local[t] = Uninit
        /\ pub[t] # NoKey =>
             at[t] # "closed" /\ mod = "live" /\ value.pubkey = pub[t]

\* A key pair that claims to be measured is in this boot's IMA log.
Measured(p) == p.ima_measured = TRUE => <<boot, p.pubkey>> \in imaLog

MeasuredKeys ==
    /\ kp \in KeyPairs => Measured(kp)
    /\ value \in KeyPairs => Measured(value)
    /\ local[Loader] \in KeyPairs => Measured(local[Loader])

\* What the signing call has gathered so far.
Calls ==
    \A t \in Tasks :
        /\ at[t] \in {"sign", "digest", "copied", "signed"} =>
             value.ima_measured = TRUE
        /\ at[t] \in {"digest", "copied", "signed"} =>
             dig[t] = exe[t] /\ exe[t] \in Digests
        /\ at[t] \in {"copied", "signed"} => req[t] \in UserData
        /\ at[t] = "signed" =>
             /\ sig[t] \in issued
             /\ sig[t] = [boot |-> boot, key |-> value.pubkey,
                          digest |-> dig[t], user_data |-> req[t]]

\* The inductive invariant.
IInv == /\ TypeOK /\ Lifecycle /\ Files /\ MeasuredKeys /\ Calls
        /\ EvidenceIsMeasured

\* The initial state satisfies the inductive invariant.
LEMMA InitIInv == Init => IInv
<1> SUFFICES ASSUME Init PROVE IInv
  OBVIOUS
<1> USE TarakoAssumption DEF Init, KEY_PAIR!Init
<1>1. TypeOK
  BY DEF TypeOK, Inside, Quotes, KEY_PAIR!TypeOK, KEY_PAIR!Stages
<1>2. Lifecycle
  BY DEF Lifecycle
<1>3. Files
  BY Zenon DEF Files, Inside
<1>4. MeasuredKeys
  BY DEF MeasuredKeys
<1>5. Calls
  BY Zenon DEF Calls
<1>6. EvidenceIsMeasured
  BY Zenon DEF EvidenceIsMeasured
<1> QED BY <1>1, <1>2, <1>3, <1>4, <1>5, <1>6 DEF IInv

\* A step of module init or exit preserves the invariant.
LEMMA LoaderIInv ==
    ASSUME IInv, LoaderStep
    PROVE  IInv'
<1> USE TarakoAssumption DEF IInv, sysVars, taskVars, cell
<1>1. CASE Register
  <2>1. TypeOK'
    BY <1>1, Zenon DEF Register, TypeOK, KEY_PAIR!TypeOK
  <2>2. Lifecycle'
    BY <1>1, Zenon DEF Register, Lifecycle, TypeOK, KEY_PAIR!TypeOK
  <2>3. Files'
    BY <1>1, ZenonT(60)
       DEF Register, Files, Inside, Lifecycle, TypeOK, KEY_PAIR!TypeOK
  <2>4. MeasuredKeys' /\ Calls' /\ EvidenceIsMeasured'
    BY <1>1 DEF Register, MeasuredKeys, Measured, Lifecycle, TypeOK,
       KEY_PAIR!TypeOK, Calls, Files, Inside, EvidenceIsMeasured
  <2> QED BY <2>1, <2>2, <2>3, <2>4
<1>2. CASE RegisterFails
  <2>1. TypeOK'
    BY <1>2, Zenon DEF RegisterFails, TypeOK, KEY_PAIR!TypeOK
  <2>2. Lifecycle'
    BY <1>2, Zenon DEF RegisterFails, Lifecycle, TypeOK, KEY_PAIR!TypeOK
  <2>3. Files'
    BY <1>2, ZenonT(60)
       DEF RegisterFails, Files, Inside, Lifecycle, TypeOK, KEY_PAIR!TypeOK
  <2>4. MeasuredKeys'
    BY <1>2, ZenonT(60)
       DEF RegisterFails, MeasuredKeys, Measured, Lifecycle, TypeOK,
           KEY_PAIR!TypeOK
  <2>5. Calls' /\ EvidenceIsMeasured'
    BY <1>2, ZenonT(60)
       DEF RegisterFails, Calls, Files, Inside, TypeOK, KEY_PAIR!TypeOK,
           EvidenceIsMeasured
  <2> QED BY <2>1, <2>2, <2>3, <2>4, <2>5
<1>3. CASE PopulateClaim
  <2>1. TypeOK'
    BY <1>3 DEF PopulateClaim, KEY_PAIR!PopulateClaim, TypeOK, KEY_PAIR!TypeOK,
       KEY_PAIR!Stages
  <2>2. Lifecycle'
    BY <1>3, ZenonT(60)
       DEF PopulateClaim, KEY_PAIR!PopulateClaim, Lifecycle, TypeOK,
           KEY_PAIR!TypeOK
  <2>3. Files'
    BY <1>3, ZenonT(60)
       DEF PopulateClaim, KEY_PAIR!PopulateClaim, Files, Inside, Lifecycle,
           TypeOK, KEY_PAIR!TypeOK
  <2>4. MeasuredKeys'
    BY <1>3, ZenonT(60)
       DEF PopulateClaim, KEY_PAIR!PopulateClaim, MeasuredKeys, Measured,
           Lifecycle, TypeOK, KEY_PAIR!TypeOK
  <2>5. Calls' /\ EvidenceIsMeasured'
    BY <1>3 DEF PopulateClaim, KEY_PAIR!PopulateClaim, Calls, Files, Inside,
       TypeOK, KEY_PAIR!TypeOK, EvidenceIsMeasured
  <2> QED BY <2>1, <2>2, <2>3, <2>4, <2>5
<1>4. CASE PopulateWrite
  <2>1. TypeOK'
    BY <1>4, ZenonT(60)
       DEF PopulateWrite, KEY_PAIR!PopulateWrite, TypeOK, KEY_PAIR!TypeOK,
           KEY_PAIR!Stages
  <2>2. Lifecycle'
    BY <1>4, ZenonT(60)
       DEF PopulateWrite, KEY_PAIR!PopulateWrite, Lifecycle, TypeOK,
           KEY_PAIR!TypeOK
  <2>3. Files'
    BY <1>4, ZenonT(60)
       DEF PopulateWrite, KEY_PAIR!PopulateWrite, Files, Inside, Lifecycle,
           TypeOK, KEY_PAIR!TypeOK
  <2>4. MeasuredKeys'
    BY <1>4, ZenonT(60)
       DEF PopulateWrite, KEY_PAIR!PopulateWrite, MeasuredKeys, Measured,
           Lifecycle, TypeOK, KEY_PAIR!TypeOK
  <2>5. Calls'
    BY <1>4 DEF PopulateWrite, KEY_PAIR!PopulateWrite, Calls, Files, Inside,
       TypeOK, KEY_PAIR!TypeOK, Lifecycle
  <2>6. EvidenceIsMeasured'
    BY <1>4, ZenonT(60)
       DEF PopulateWrite, KEY_PAIR!PopulateWrite, EvidenceIsMeasured
  <2> QED BY <2>1, <2>2, <2>3, <2>4, <2>5, <2>6, Zenon
<1>5. CASE PopulatePublish
  <2>1. TypeOK'
    BY <1>5 DEF PopulatePublish, KEY_PAIR!PopulatePublish, TypeOK,
       KEY_PAIR!TypeOK, KEY_PAIR!Stages
  <2>2. Lifecycle'
    BY <1>5, ZenonT(60)
       DEF PopulatePublish, KEY_PAIR!PopulatePublish, Lifecycle, TypeOK,
           KEY_PAIR!TypeOK
  <2>3. Files'
    BY <1>5, ZenonT(60)
       DEF PopulatePublish, KEY_PAIR!PopulatePublish, Files, Inside, Lifecycle,
           TypeOK, KEY_PAIR!TypeOK
  <2>4. MeasuredKeys'
    BY <1>5, ZenonT(60)
       DEF PopulatePublish, KEY_PAIR!PopulatePublish, MeasuredKeys, Measured,
           Lifecycle, TypeOK, KEY_PAIR!TypeOK
  <2>5. Calls' /\ EvidenceIsMeasured'
    BY <1>5, ZenonT(60)
       DEF PopulatePublish, KEY_PAIR!PopulatePublish, Calls, Files, Inside,
           TypeOK, KEY_PAIR!TypeOK, EvidenceIsMeasured
  <2> QED BY <2>1, <2>2, <2>3, <2>4, <2>5
<1>6. CASE Deregister
  <2>1. TypeOK'
    BY <1>6, Zenon DEF Deregister, TypeOK, KEY_PAIR!TypeOK
  <2>2. Lifecycle'
    BY <1>6, Zenon DEF Deregister, Lifecycle, TypeOK, KEY_PAIR!TypeOK
  <2>3. Files'
    BY <1>6, ZenonT(60)
       DEF Deregister, Files, Inside, Lifecycle, TypeOK, KEY_PAIR!TypeOK
  <2>4. MeasuredKeys' /\ Calls' /\ EvidenceIsMeasured'
    BY <1>6, ZenonT(60)
       DEF Deregister, MeasuredKeys, Measured, Lifecycle, TypeOK,
           KEY_PAIR!TypeOK, Calls, Files, Inside, EvidenceIsMeasured
  <2> QED BY <2>1, <2>2, <2>3, <2>4
<1>7. CASE ClearClaim
  <2>1. TypeOK'
    BY <1>7 DEF ClearClaim, KEY_PAIR!ClearClaim, TypeOK, KEY_PAIR!TypeOK,
       KEY_PAIR!Stages
  <2>2. Lifecycle'
    BY <1>7, ZenonT(60)
       DEF ClearClaim, KEY_PAIR!ClearClaim, Lifecycle, TypeOK, KEY_PAIR!TypeOK
  <2>3. Files'
    BY <1>7, ZenonT(60)
       DEF ClearClaim, KEY_PAIR!ClearClaim, Files, Inside, Lifecycle, TypeOK,
           KEY_PAIR!TypeOK
  <2>4. MeasuredKeys' /\ Calls' /\ EvidenceIsMeasured'
    BY <1>7, ZenonT(60)
       DEF ClearClaim, KEY_PAIR!ClearClaim, MeasuredKeys, Measured, Lifecycle,
           TypeOK, KEY_PAIR!TypeOK, Calls, Files, Inside, EvidenceIsMeasured
  <2> QED BY <2>1, <2>2, <2>3, <2>4
<1>8. CASE ClearDrop
  <2>1. TypeOK'
    BY <1>8, ZenonT(60)
       DEF ClearDrop, KEY_PAIR!ClearDrop, TypeOK, KEY_PAIR!TypeOK,
           KEY_PAIR!Stages
  <2>2. Lifecycle'
    BY <1>8, ZenonT(60)
       DEF ClearDrop, KEY_PAIR!ClearDrop, Lifecycle, TypeOK, KEY_PAIR!TypeOK
  <2>3. Files'
    BY <1>8, ZenonT(60)
       DEF ClearDrop, KEY_PAIR!ClearDrop, Files, Inside, Lifecycle, TypeOK,
           KEY_PAIR!TypeOK
  <2>4. MeasuredKeys'
    BY <1>8, ZenonT(60)
       DEF ClearDrop, KEY_PAIR!ClearDrop, MeasuredKeys, Measured, Lifecycle,
           TypeOK, KEY_PAIR!TypeOK
  <2>5. Calls'
    BY <1>8 DEF ClearDrop, KEY_PAIR!ClearDrop, Calls, Files, Inside, TypeOK,
       KEY_PAIR!TypeOK
  <2>6. EvidenceIsMeasured'
    BY <1>8, Zenon DEF ClearDrop, KEY_PAIR!ClearDrop, EvidenceIsMeasured
  <2> QED BY <2>1, <2>2, <2>3, <2>4, <2>5, <2>6
<1>9. CASE ClearFinish
  <2>1. TypeOK'
    BY <1>9 DEF ClearFinish, KEY_PAIR!ClearFinish, TypeOK, KEY_PAIR!TypeOK,
       KEY_PAIR!Stages
  <2>2. Lifecycle'
    BY <1>9, ZenonT(60)
       DEF ClearFinish, KEY_PAIR!ClearFinish, Lifecycle, TypeOK, KEY_PAIR!TypeOK
  <2>3. Files'
    BY <1>9, ZenonT(60)
       DEF ClearFinish, KEY_PAIR!ClearFinish, Files, Inside, Lifecycle, TypeOK,
           KEY_PAIR!TypeOK
  <2>4. MeasuredKeys' /\ Calls' /\ EvidenceIsMeasured'
    BY <1>9 DEF ClearFinish, KEY_PAIR!ClearFinish, MeasuredKeys, Measured,
       Lifecycle, TypeOK, KEY_PAIR!TypeOK, Calls, Files, Inside,
       EvidenceIsMeasured
  <2> QED BY <2>1, <2>2, <2>3, <2>4
<1> QED BY <1>1, <1>2, <1>3, <1>4, <1>5, <1>6, <1>7, <1>8, <1>9 DEF LoaderStep

\* Loading, unloading, locking and rebooting preserve the invariant.
LEMMA MachineIInv ==
    ASSUME IInv,
           \/ \E k \in Keys : LoadFails(k) \/ \E m \in BOOLEAN : Load(k, m)
           \/ Unload \/ TestModule \/ LockModules \/ Reboot
    PROVE  IInv'
<1> USE TarakoAssumption DEF IInv, sysVars, taskVars, cell
<1>1. ASSUME NEW k \in Keys, NEW m \in BOOLEAN, Load(k, m) PROVE IInv'
  <2>1. TypeOK'
    <3>1. kp' \in KeyPairs /\ init' \in 0..2 /\ used' \subseteq Keys
      BY <1>1, SMTT(20) DEF Load, KeyPairs, TypeOK
    <3>2. imaLog' \subseteq (0..MaxBoots) \X Keys
      <4>1. <<boot, k>> \in (0..MaxBoots) \X Keys
        BY <1>1, SMTT(20) DEF TypeOK
      <4> QED
        BY <1>1, <4>1, Zenon DEF Load, ima_measure_pubkey, TypeOK
    <3> QED
      BY <1>1, <3>1, <3>2, ZenonT(60) DEF Load, TypeOK, KEY_PAIR!TypeOK
  <2>2. Lifecycle'
    <3>1. /\ mod' = "keyed" /\ kp' # None
          /\ init' = 0 /\ value' \notin KeyPairs
      BY <1>1, SMTT(20) DEF Load, KeyPairs
    <3>2. /\ mod = "absent" /\ pc' = pc /\ local' = local
      BY <1>1, Zenon DEF Load
    <3> QED
      BY <3>1, <3>2, ZenonT(60) DEF Lifecycle
  <2>3. Files'
    BY <1>1, ZenonT(60) DEF Load, Files, Inside, Lifecycle, TypeOK, KEY_PAIR!TypeOK
  <2>4. MeasuredKeys'
    BY <1>1, ZenonT(60)
       DEF Load, ima_measure_pubkey, MeasuredKeys, Measured, Lifecycle, TypeOK,
           KEY_PAIR!TypeOK, KeyPairs
  <2>5. Calls'
    BY <1>1 DEF Load, Calls, Files, Inside, TypeOK, KEY_PAIR!TypeOK
  <2>6. EvidenceIsMeasured'
    BY <1>1, Zenon DEF Load, ima_measure_pubkey, EvidenceIsMeasured
  <2> QED BY <2>1, <2>2, <2>3, <2>4, <2>5, <2>6, ZenonT(60)
<1>2. ASSUME NEW k \in Keys, LoadFails(k) PROVE IInv'
  <2>1. TypeOK'
    BY <1>2, ZenonT(60) DEF LoadFails, TypeOK, KEY_PAIR!TypeOK
  <2>2. Lifecycle' /\ Files' /\ MeasuredKeys' /\ Calls' /\ EvidenceIsMeasured'
    BY <1>2, ZenonT(60)
       DEF LoadFails, Lifecycle, Files, MeasuredKeys, Measured, Calls,
           EvidenceIsMeasured
  <2> QED BY <2>1, <2>2, Zenon
<1>3. CASE Unload
  <2>1. TypeOK'
    BY <1>3, ZenonT(60) DEF Unload, TypeOK, KEY_PAIR!TypeOK
  <2>2. Lifecycle'
    <3>1. /\ mod = "live" /\ mod' = "going" /\ kp' = kp /\ pc' = pc
          /\ local' = local /\ init' = init /\ value' = value
      BY <1>3, Zenon DEF Unload
    <3> QED BY <3>1, ZenonT(60) DEF Lifecycle
  <2>3. Files'
    BY <1>3, ZenonT(60)
       DEF Unload, Files, Inside, Lifecycle, TypeOK, KEY_PAIR!TypeOK
  <2>4. MeasuredKeys' /\ Calls' /\ EvidenceIsMeasured'
    BY <1>3 DEF Unload, MeasuredKeys, Measured, Lifecycle, TypeOK,
       KEY_PAIR!TypeOK, Calls, Files, Inside, EvidenceIsMeasured
  <2> QED BY <2>1, <2>2, <2>3, <2>4, Zenon
<1>4. CASE TestModule \/ LockModules
  <2>1. TypeOK'
    BY <1>4, ZenonT(60) DEF TestModule, LockModules, TypeOK, KEY_PAIR!TypeOK
  <2>2. Lifecycle' /\ Files' /\ MeasuredKeys' /\ Calls' /\ EvidenceIsMeasured'
    BY <1>4, ZenonT(60)
       DEF TestModule, LockModules, Lifecycle, Files, MeasuredKeys, Measured,
           Calls, EvidenceIsMeasured
  <2> QED BY <2>1, <2>2, Zenon
<1>5. CASE Reboot
  <2>1. TypeOK'
    <3>1. boot' \in 0..MaxBoots /\ init' \in 0..2 /\ modules_disabled' \in {0, 1}
      BY <1>5, SMTT(20) DEF Reboot, TypeOK
    <3> QED
      BY <1>5, <3>1, ZenonT(60)
         DEF Reboot, TypeOK, KEY_PAIR!TypeOK, KEY_PAIR!Stages
  <2>2. Lifecycle'
    <3>1. /\ mod' = "absent" /\ kp' = None
          /\ init' = 0 /\ value' \notin KeyPairs
      BY <1>5, SMTT(20) DEF Reboot, KeyPairs
    <3>2. pc'[Loader] = "idle" /\ local'[Loader] = Uninit
      BY <1>5, Zenon DEF Reboot
    <3> QED
      BY <3>1, <3>2, ZenonT(60) DEF Lifecycle
  <2>3. Files'
    BY <1>5, ZenonT(60)
       DEF Reboot, Files, Inside, Lifecycle, TypeOK, KEY_PAIR!TypeOK
  <2>4. MeasuredKeys'
    BY <1>5, ZenonT(60)
       DEF Reboot, MeasuredKeys, Measured, Lifecycle, TypeOK, KEY_PAIR!TypeOK
  <2>5. Calls'
    BY <1>5 DEF Reboot, Calls, Files, Inside, TypeOK, KEY_PAIR!TypeOK
  <2>6. EvidenceIsMeasured'
    BY <1>5, ZenonT(60) DEF Reboot, EvidenceIsMeasured
  <2> QED BY <2>1, <2>2, <2>3, <2>4, <2>5, <2>6, ZenonT(60)
<1> QED BY <1>1, <1>2, <1>3, <1>4, <1>5

\* What a step of task t does to Files: the other tasks keep what they have.
LEMMA FilesKept ==
    ASSUME Files, NEW t \in Tasks, mod' = mod, value' = value,
           \A u \in Tasks : u # t =>
              /\ at'[u] = at[u] /\ pc'[u] = pc[u] /\ local'[u] = local[u]
              /\ ret'[u] = ret[u] /\ pub'[u] = pub[u],
           at'[t] # "closed" => mod \in {"registered", "live"},
           at'[t] \in Inside => /\ mod = "live" /\ pc'[t] = "borrowed"
                                /\ local'[t] = value /\ ret'[t] = "none",
           at'[t] \notin Inside => pc'[t] = "idle" /\ local'[t] = Uninit,
           pub'[t] # NoKey => /\ at'[t] # "closed" /\ mod = "live"
                              /\ value.pubkey = pub'[t]
    PROVE  Files'
<1>1. ASSUME NEW u \in Tasks, u # t
      PROVE  /\ at'[u] # "closed" => mod' \in {"registered", "live"}
             /\ at'[u] \in Inside =>
                  /\ mod' = "live" /\ pc'[u] = "borrowed"
                  /\ local'[u] = value' /\ ret'[u] = "none"
             /\ at'[u] \notin Inside => pc'[u] = "idle" /\ local'[u] = Uninit
             /\ pub'[u] # NoKey =>
                  /\ at'[u] # "closed" /\ mod' = "live"
                  /\ value'.pubkey = pub'[u]
  BY <1>1, ZenonT(60) DEF Files
<1> QED
  BY <1>1, ZenonT(60) DEF Files

\* A call that goes on to a stage inside the ioctl keeps Files, whether it takes
\* its reference in this step or has it already.
LEMMA ContinueFiles ==
    ASSUME IInv, NEW t \in Tasks, NEW to \in Inside, Continue(t, to),
           \/ at[t] = "open" /\ KEY_PAIR!AsRef(t)
           \/ at[t] \in Inside /\ UNCHANGED cell
    PROVE  Files'
<1>0. /\ DOMAIN at = Tasks /\ DOMAIN ret = Tasks
      /\ DOMAIN pc = Tasks \cup {Loader} /\ DOMAIN local = Tasks \cup {Loader}
  BY SMTT(20) DEF IInv, TypeOK, KEY_PAIR!TypeOK
<1>1. /\ at' = [at EXCEPT ![t] = to] /\ ret' = [ret EXCEPT ![t] = "none"]
      /\ mod' = mod /\ pub' = pub /\ value' = value
  BY Zenon DEF Continue, KEY_PAIR!AsRef, cell
<1>2. at'[t] = to /\ ret'[t] = "none"
  BY <1>0, <1>1, Zenon
<1>3. mod = "live" /\ pc'[t] = "borrowed" /\ local'[t] = value
  <2>1. CASE at[t] = "open" /\ KEY_PAIR!AsRef(t)
    <3>1. mod \in {"registered", "live"} /\ init = 2
      BY <2>1, Zenon DEF KEY_PAIR!AsRef, IInv, Files
    <3>2. mod = "registered" => init = 0 \/ init = 1
      BY Zenon DEF IInv, Lifecycle
    <3>3. mod = "live"
      BY <3>1, <3>2, SMTT(20)
    <3> QED
      BY <1>0, <2>1, <3>3, Zenon DEF KEY_PAIR!AsRef
  <2>2. CASE at[t] \in Inside /\ UNCHANGED cell
    BY <2>2, Zenon DEF cell, IInv, Files
  <2> QED
    BY <2>1, <2>2, Zenon
<1>4. ASSUME NEW u \in Tasks, u # t
      PROVE  /\ at'[u] = at[u] /\ pc'[u] = pc[u] /\ local'[u] = local[u]
             /\ ret'[u] = ret[u] /\ pub'[u] = pub[u]
  BY <1>0, <1>1, <1>4, ZenonT(60) DEF KEY_PAIR!AsRef, cell
<1>5. at'[t] # "closed" /\ (pub'[t] # NoKey => value.pubkey = pub'[t])
  BY <1>1, <1>2, ZenonT(60) DEF IInv, Files, Inside
<1> QED
  BY <1>1, <1>2, <1>3, <1>4, <1>5, FilesKept, ZenonT(60) DEF IInv

\* User space, open, close and the start of an ioctl preserve the invariant.
LEMMA CallIInv ==
    ASSUME IInv, NEW t \in Tasks, TaskStep(t), ~IoctlStep(t)
    PROVE  IInv'
<1> USE TarakoAssumption DEF IInv, sysVars, ioctlVars, cell
<1>0. /\ DOMAIN at = Tasks /\ DOMAIN exe = Tasks /\ DOMAIN dig = Tasks
      /\ DOMAIN req = Tasks /\ DOMAIN sig = Tasks
  BY DEF TypeOK
<1>1. ASSUME NEW e \in Digests \cup {NoVerity}, Exec(t, e) PROVE IInv'
  <2>1. TypeOK'
    BY <1>1, Zenon DEF Exec, TypeOK, KEY_PAIR!TypeOK
  <2>2. Calls'
    BY <1>0, <1>1, ZenonT(60) DEF Exec, Calls, Files, Inside
  <2>3. Lifecycle' /\ Files' /\ MeasuredKeys' /\ EvidenceIsMeasured'
    BY <1>1, ZenonT(60)
       DEF Exec, Lifecycle, Files, MeasuredKeys, Measured, EvidenceIsMeasured
  <2> QED BY <2>1, <2>2, <2>3, Zenon
<1>2. ASSUME NEW u \in UserData, WriteBuffer(t, u) PROVE IInv'
  <2>1. TypeOK'
    BY <1>2 DEF WriteBuffer, TypeOK, KEY_PAIR!TypeOK
  <2>2. Files' /\ Calls'
    BY <1>2, ZenonT(60) DEF WriteBuffer, Files, Calls
  <2>3. Lifecycle' /\ MeasuredKeys' /\ EvidenceIsMeasured'
    BY <1>2 DEF WriteBuffer, Lifecycle, MeasuredKeys, Measured,
       EvidenceIsMeasured
  <2> QED BY <2>1, <2>2, <2>3, ZenonT(60)
<1>3. CASE Open(t)
  <2>1. TypeOK'
    BY <1>3, ZenonT(60) DEF Open, TypeOK, KEY_PAIR!TypeOK, Inside
  <2>2. Files'
    <3>0. /\ DOMAIN pc = Tasks \cup {Loader} /\ DOMAIN pub = Tasks
          /\ DOMAIN local = Tasks \cup {Loader} /\ DOMAIN ret = Tasks
      BY SMTT(20) DEF TypeOK, KEY_PAIR!TypeOK
    <3>1. ASSUME NEW u \in Tasks, u # t
          PROVE  /\ at'[u] = at[u] /\ pc'[u] = pc[u] /\ local'[u] = local[u]
                 /\ ret'[u] = ret[u] /\ pub'[u] = pub[u]
      BY <1>0, <1>3, <3>0, <3>1, ZenonT(60) DEF Open
    <3>2. /\ mod' = mod /\ value' = value /\ mod \in {"registered", "live"}
          /\ at'[t] = "open" /\ at'[t] \notin Inside /\ pub'[t] = NoKey
          /\ pc'[t] = "idle" /\ local'[t] = Uninit
      BY <1>0, <1>3, <3>0, ZenonT(60) DEF Open, Files, Inside
    <3> QED
      BY <3>1, <3>2, FilesKept, ZenonT(60)
  <2>3. Calls'
    BY <1>0, <1>3, Zenon DEF Open, Calls
  <2>4. Lifecycle' /\ MeasuredKeys' /\ EvidenceIsMeasured'
    BY <1>3, ZenonT(60)
       DEF Open, Lifecycle, MeasuredKeys, Measured, EvidenceIsMeasured
  <2> QED BY <2>1, <2>2, <2>3, <2>4, Zenon
<1>4. CASE Close(t)
  <2>1. TypeOK'
    BY <1>4, ZenonT(60) DEF Close, TypeOK, KEY_PAIR!TypeOK, Inside
  <2>2. Files'
    <3>0. /\ DOMAIN pc = Tasks \cup {Loader} /\ DOMAIN pub = Tasks
          /\ DOMAIN local = Tasks \cup {Loader} /\ DOMAIN ret = Tasks
      BY SMTT(20) DEF TypeOK, KEY_PAIR!TypeOK
    <3>1. ASSUME NEW u \in Tasks, u # t
          PROVE  /\ at'[u] = at[u] /\ pc'[u] = pc[u] /\ local'[u] = local[u]
                 /\ ret'[u] = ret[u] /\ pub'[u] = pub[u]
      BY <1>0, <1>4, <3>0, <3>1, ZenonT(60) DEF Close
    <3>2. /\ mod' = mod /\ value' = value
          /\ at'[t] = "closed" /\ at'[t] \notin Inside /\ pub'[t] = NoKey
          /\ pc'[t] = "idle" /\ local'[t] = Uninit
      BY <1>0, <1>4, <3>0, ZenonT(60) DEF Close, Files, Inside
    <3> QED
      BY <3>1, <3>2, FilesKept, ZenonT(60)
  <2>3. Calls'
    BY <1>0, <1>4, ZenonT(60) DEF Close, Calls
  <2>4. Lifecycle' /\ MeasuredKeys' /\ EvidenceIsMeasured'
    BY <1>4 DEF Close, Lifecycle, MeasuredKeys, Measured, EvidenceIsMeasured
  <2> QED BY <2>1, <2>2, <2>3, <2>4
<1>5. CASE Hello(t)
  <2>1. TypeOK'
    BY <1>5, Zenon DEF Hello, Reply, TypeOK, KEY_PAIR!TypeOK
  <2>2. Files'
    BY <1>5, ZenonT(60) DEF Hello, Reply, Files, Inside, TypeOK
  <2>3. Lifecycle' /\ MeasuredKeys' /\ Calls' /\ EvidenceIsMeasured'
    BY <1>5, ZenonT(60)
       DEF Hello, Reply, Lifecycle, MeasuredKeys, Measured, Calls,
           EvidenceIsMeasured
  <2> QED BY <2>1, <2>2, <2>3, Zenon
<1>6. CASE UnknownCommand(t)
  <2>1. TypeOK'
    BY <1>6, Zenon DEF UnknownCommand, Reply, TypeOK, KEY_PAIR!TypeOK
  <2>2. Files'
    BY <1>6, ZenonT(60) DEF UnknownCommand, Reply, Files, Inside, TypeOK
  <2>3. Lifecycle' /\ MeasuredKeys' /\ Calls' /\ EvidenceIsMeasured'
    BY <1>6, ZenonT(60)
       DEF UnknownCommand, Reply, Lifecycle, MeasuredKeys, Measured, Calls,
           EvidenceIsMeasured
  <2> QED BY <2>1, <2>2, <2>3
<1>7. CASE NoKeyPair(t)
  <2>1. TypeOK'
    BY <1>7, Zenon DEF NoKeyPair, Reply, TypeOK, KEY_PAIR!TypeOK
  <2>2. Files'
    BY <1>7, ZenonT(60) DEF NoKeyPair, Reply, Files, Inside, TypeOK
  <2>3. Lifecycle' /\ MeasuredKeys' /\ Calls' /\ EvidenceIsMeasured'
    BY <1>7, ZenonT(60)
       DEF NoKeyPair, Reply, Lifecycle, MeasuredKeys, Measured, Calls,
           EvidenceIsMeasured
  <2> QED BY <2>1, <2>2, <2>3
<1>8. CASE SignRefused(t)
  <2>1. TypeOK'
    BY <1>8, Zenon DEF SignRefused, Reply, TypeOK, KEY_PAIR!TypeOK
  <2>2. Files'
    BY <1>8, Zenon DEF SignRefused, Reply, Files, Inside, TypeOK
  <2>3. Lifecycle' /\ MeasuredKeys' /\ Calls' /\ EvidenceIsMeasured'
    BY <1>8, ZenonT(60)
       DEF SignRefused, Reply, Lifecycle, MeasuredKeys, Measured, Calls,
           EvidenceIsMeasured
  <2> QED BY <2>1, <2>2, <2>3
<1>9. CASE GetPubkey(t)
  <2>1. TypeOK'
    BY <1>9, ZenonT(60)
       DEF GetPubkey, Continue, KEY_PAIR!AsRef, TypeOK, KEY_PAIR!TypeOK,
           KEY_PAIR!Stages, Inside
  <2>2. Files'
    <3>1. /\ "pubkey" \in Inside /\ Continue(t, "pubkey")
          /\ at[t] = "open" /\ KEY_PAIR!AsRef(t)
      BY <1>9, Zenon DEF GetPubkey, Inside
    <3> QED
      BY <3>1, ContinueFiles, Zenon
  <2>3. Calls'
    BY <1>0, <1>9, ZenonT(60)
       DEF GetPubkey, Continue, KEY_PAIR!AsRef, Calls, Files, Inside
  <2>4. Lifecycle' /\ MeasuredKeys' /\ EvidenceIsMeasured'
    BY <1>9, ZenonT(60)
       DEF GetPubkey, Continue, KEY_PAIR!AsRef, Lifecycle, TypeOK,
           KEY_PAIR!TypeOK, MeasuredKeys, Measured, EvidenceIsMeasured
  <2> QED BY <2>1, <2>2, <2>3, <2>4
<1>10. CASE SignData(t)
  <2>1. TypeOK'
    BY <1>10, ZenonT(60)
       DEF SignData, Continue, KEY_PAIR!AsRef, TypeOK, KEY_PAIR!TypeOK,
           KEY_PAIR!Stages, Inside
  <2>2. Files'
    <3>1. /\ "sign" \in Inside /\ Continue(t, "sign")
          /\ at[t] = "open" /\ KEY_PAIR!AsRef(t)
      BY <1>10, Zenon DEF SignData, Inside
    <3> QED
      BY <3>1, ContinueFiles, Zenon
  <2>3. Calls'
    BY <1>0, <1>10, ZenonT(60)
       DEF SignData, Continue, KEY_PAIR!AsRef, Calls, Files, Inside, Lifecycle,
           KeyPairs
  <2>4. Lifecycle' /\ MeasuredKeys' /\ EvidenceIsMeasured'
    BY <1>10, ZenonT(60)
       DEF SignData, Continue, KEY_PAIR!AsRef, Lifecycle, TypeOK,
           KEY_PAIR!TypeOK, MeasuredKeys, Measured, EvidenceIsMeasured
  <2> QED BY <2>1, <2>2, <2>3, <2>4
<1> QED
  BY <1>1, <1>2, <1>3, <1>4, <1>5, <1>6, <1>7, <1>8, <1>9, <1>10 DEF TaskStep

\* A call that returns without touching the public key it was told of keeps
\* the invariant, types apart.
LEMMA LeaveIInv ==
    ASSUME IInv, NEW t \in Tasks, NEW r, at[t] \in Inside, Leave(t, r),
           pub' = pub
    PROVE  Lifecycle' /\ Files' /\ MeasuredKeys' /\ Calls' /\ EvidenceIsMeasured'
<1> USE TarakoAssumption
<1>1. /\ mod' = mod /\ kp' = kp /\ boot' = boot /\ imaLog' = imaLog
      /\ modules_disabled' = modules_disabled /\ init' = init
      /\ value' = value /\ exe' = exe /\ issued' = issued
      /\ mod = "live"
  BY Zenon DEF Leave, KEY_PAIR!Release, sysVars, IInv, Files
<1>2. /\ pc' = [pc EXCEPT ![t] = "idle"]
      /\ local' = [local EXCEPT ![t] = Uninit]
      /\ at' = [at EXCEPT ![t] = "open"]
      /\ dig' = [dig EXCEPT ![t] = None]
      /\ req' = [req EXCEPT ![t] = None]
      /\ sig' = [sig EXCEPT ![t] = None]
      /\ ret' = [ret EXCEPT ![t] = r]
  BY Zenon DEF Leave, KEY_PAIR!Release
<1>3. /\ DOMAIN pc = Tasks \cup {Loader} /\ DOMAIN local = Tasks \cup {Loader}
      /\ DOMAIN at = Tasks /\ DOMAIN dig = Tasks /\ DOMAIN req = Tasks
      /\ DOMAIN sig = Tasks /\ DOMAIN ret = Tasks
  BY SMTT(20) DEF IInv, TypeOK, KEY_PAIR!TypeOK
<1>4. at'[t] = "open" /\ pc'[t] = "idle" /\ local'[t] = Uninit
  BY <1>2, <1>3, Zenon
<1>5. ASSUME NEW u \in Tasks \cup {Loader}, u # t
      PROVE  pc'[u] = pc[u] /\ local'[u] = local[u]
  BY <1>2, <1>3, <1>5, Zenon
<1>6. ASSUME NEW u \in Tasks, u # t
      PROVE  /\ at'[u] = at[u] /\ dig'[u] = dig[u] /\ req'[u] = req[u]
             /\ sig'[u] = sig[u] /\ ret'[u] = ret[u]
  BY <1>2, <1>3, <1>6, Zenon
<1>7. pc'[Loader] = pc[Loader] /\ local'[Loader] = local[Loader]
  BY <1>5, Zenon
<1>8. Lifecycle'
  BY <1>1, <1>7, ZenonT(60) DEF IInv, Lifecycle
<1>9. Files'
  <2>1. ASSUME NEW u \in Tasks, u # t
        PROVE  /\ at'[u] = at[u] /\ pc'[u] = pc[u] /\ local'[u] = local[u]
               /\ ret'[u] = ret[u] /\ pub'[u] = pub[u]
    BY <1>5, <1>6, <2>1, ZenonT(60)
  <2>2. /\ at'[t] # "closed" /\ at'[t] \notin Inside
        /\ pub'[t] # NoKey => value.pubkey = pub'[t]
    BY <1>1, <1>4, ZenonT(60) DEF IInv, Files, Inside
  <2> QED
    BY <1>1, <1>4, <2>1, <2>2, FilesKept, ZenonT(60) DEF IInv
<1>10. MeasuredKeys'
  BY <1>1, <1>7, ZenonT(60) DEF IInv, MeasuredKeys, Measured
<1>11. Calls'
  BY <1>1, <1>4, <1>6, ZenonT(60) DEF IInv, Calls
<1>12. EvidenceIsMeasured'
  BY <1>1, ZenonT(60) DEF IInv, EvidenceIsMeasured
<1> QED
  BY <1>8, <1>9, <1>10, <1>11, <1>12, Zenon

\* A step inside an ioctl preserves the invariant.
LEMMA IoctlIInv ==
    ASSUME IInv, NEW t \in Tasks, IoctlStep(t)
    PROVE  IInv'
<1> USE TarakoAssumption DEF IInv, sysVars, ioctlVars, cell
<1>0. /\ DOMAIN at = Tasks /\ DOMAIN exe = Tasks /\ DOMAIN dig = Tasks
      /\ DOMAIN req = Tasks /\ DOMAIN sig = Tasks
  BY DEF TypeOK
<1>1. CASE GetPubkeyDone(t)
  <2>1. TypeOK'
    BY <1>1, ZenonT(60)
       DEF GetPubkeyDone, Leave, KEY_PAIR!Release, TypeOK, KEY_PAIR!TypeOK,
           KEY_PAIR!Stages, Inside, Files, Lifecycle, KeyPairs
  <2>2. Files'
    <3>1. /\ DOMAIN pub = Tasks /\ DOMAIN ret = Tasks
          /\ DOMAIN pc = Tasks \cup {Loader}
          /\ DOMAIN local = Tasks \cup {Loader}
      BY Zenon DEF TypeOK, KEY_PAIR!TypeOK
    <3>2. mod = "live" /\ mod' = mod /\ value' = value
      BY <1>1, Zenon DEF GetPubkeyDone, Leave, KEY_PAIR!Release, Files, Inside
    <3>3. /\ at'[t] = "open" /\ pc'[t] = "idle" /\ local'[t] = Uninit
          /\ pub'[t] = value.pubkey
      BY <1>0, <1>1, <3>1, Zenon DEF GetPubkeyDone, Leave, KEY_PAIR!Release
    <3>4. ASSUME NEW u \in Tasks, u # t
          PROVE  /\ at'[u] = at[u] /\ pc'[u] = pc[u] /\ local'[u] = local[u]
                 /\ pub'[u] = pub[u] /\ ret'[u] = ret[u]
      BY <1>0, <1>1, <3>1, <3>4, ZenonT(60)
         DEF GetPubkeyDone, Leave, KEY_PAIR!Release
    <3> SUFFICES ASSUME NEW u \in Tasks
                 PROVE  /\ at'[u] # "closed" => mod' \in {"registered", "live"}
                        /\ at'[u] \in Inside =>
                             /\ mod' = "live" /\ pc'[u] = "borrowed"
                             /\ local'[u] = value' /\ ret'[u] = "none"
                        /\ at'[u] \notin Inside =>
                             pc'[u] = "idle" /\ local'[u] = Uninit
                        /\ pub'[u] # NoKey =>
                             /\ at'[u] # "closed" /\ mod' = "live"
                             /\ value'.pubkey = pub'[u]
      BY Zenon DEF Files
    <3>5. CASE u = t
      BY <3>2, <3>3, <3>5, Zenon DEF Inside
    <3>6. CASE u # t
      BY <3>2, <3>4, <3>6, Zenon DEF Files
    <3> QED BY <3>5, <3>6, Zenon
  <2>3. Calls'
    BY <1>0, <1>1, ZenonT(60)
       DEF GetPubkeyDone, Leave, KEY_PAIR!Release, Calls, Files, Inside
  <2>4. Lifecycle' /\ MeasuredKeys' /\ EvidenceIsMeasured'
    BY <1>1, ZenonT(60)
       DEF GetPubkeyDone, Leave, KEY_PAIR!Release, Lifecycle, TypeOK,
           KEY_PAIR!TypeOK, MeasuredKeys, Measured, EvidenceIsMeasured
  <2> QED BY <2>1, <2>2, <2>3, <2>4, Zenon
<1>2. CASE GetPubkeyFault(t)
  <2>1. TypeOK'
    BY <1>2, ZenonT(60)
       DEF GetPubkeyFault, Leave, KEY_PAIR!Release, TypeOK, KEY_PAIR!TypeOK,
           KEY_PAIR!Stages, Inside
  <2>2. PICK r : at[t] \in Inside /\ Leave(t, r) /\ pub' = pub
    BY <1>2, Zenon DEF GetPubkeyFault, Inside
  <2> QED BY <2>1, <2>2, LeaveIInv, Zenon
<1>3. CASE SignDigest(t)
  <2>1. TypeOK'
    BY <1>3, ZenonT(60) DEF SignDigest, Continue, TypeOK, KEY_PAIR!TypeOK, Inside
  <2>2. Files'
    <3>1. /\ "digest" \in Inside /\ Continue(t, "digest")
          /\ at[t] \in Inside /\ UNCHANGED cell
      BY <1>3, Zenon DEF SignDigest, Inside
    <3> QED
      BY <3>1, ContinueFiles, Zenon
  <2>3. Calls'
    <3>1. exe[t] \in Digests
      BY <1>3, Zenon DEF SignDigest, TypeOK
    <3> QED BY <1>0, <1>3, <3>1, Zenon
            DEF SignDigest, Continue, Calls, Files, Inside
  <2>4. Lifecycle' /\ MeasuredKeys' /\ EvidenceIsMeasured'
    BY <1>3, ZenonT(60)
       DEF SignDigest, Continue, Lifecycle, TypeOK, KEY_PAIR!TypeOK,
           MeasuredKeys, Measured, EvidenceIsMeasured
  <2> QED BY <2>1, <2>2, <2>3, <2>4
<1>4. CASE SignNoVerity(t)
  <2>1. TypeOK'
    BY <1>4, ZenonT(60)
       DEF SignNoVerity, Leave, KEY_PAIR!Release, TypeOK, KEY_PAIR!TypeOK,
           KEY_PAIR!Stages, Inside
  <2>2. PICK r : at[t] \in Inside /\ Leave(t, r) /\ pub' = pub
    BY <1>4, Zenon DEF SignNoVerity, Inside
  <2> QED BY <2>1, <2>2, LeaveIInv, Zenon
<1>5. CASE SignCopyIn(t)
  <2>1. TypeOK'
    BY <1>5, ZenonT(60) DEF SignCopyIn, Continue, TypeOK, KEY_PAIR!TypeOK, Inside
  <2>2. Files'
    <3>1. /\ "copied" \in Inside /\ Continue(t, "copied")
          /\ at[t] \in Inside /\ UNCHANGED cell
      BY <1>5, Zenon DEF SignCopyIn, Inside
    <3> QED
      BY <3>1, ContinueFiles, Zenon
  <2>3. Calls'
    <3>1. umem[t] \in UserData
      BY Zenon DEF TypeOK
    <3> QED BY <1>0, <1>5, <3>1, ZenonT(60)
            DEF SignCopyIn, Continue, Calls, Files, Inside
  <2>4. Lifecycle' /\ MeasuredKeys' /\ EvidenceIsMeasured'
    BY <1>5 DEF SignCopyIn, Continue, Lifecycle, TypeOK, KEY_PAIR!TypeOK,
       MeasuredKeys, Measured, EvidenceIsMeasured
  <2> QED BY <2>1, <2>2, <2>3, <2>4
<1>6. CASE SignCompute(t)
  <2>1. TypeOK'
    <3>1. value \in KeyPairs /\ dig[t] \in Digests /\ req[t] \in UserData
      BY <1>6, Zenon DEF SignCompute, Files, Lifecycle, Calls, Inside
    <3>2. sig'[t] \in Quotes
      BY <1>6, <3>1, ZenonT(60) DEF SignCompute, TypeOK, KeyPairs, Quotes
    <3> QED
      BY <1>6, <3>2 DEF SignCompute, Continue, TypeOK, KEY_PAIR!TypeOK, Inside
  <2>2. Files'
    <3>1. /\ "signed" \in Inside /\ Continue(t, "signed")
          /\ at[t] \in Inside /\ UNCHANGED cell
      BY <1>6, Zenon DEF SignCompute, Inside
    <3> QED
      BY <3>1, ContinueFiles, Zenon
  <2>3. Calls'
    BY <1>0, <1>6, Zenon DEF SignCompute, Continue, Calls, Files, Inside
  <2>4. EvidenceIsMeasured'
    <3>1. Measured(value) /\ value.ima_measured = TRUE
      BY <1>6, ZenonT(60)
         DEF SignCompute, Files, Lifecycle, Calls, MeasuredKeys, Inside
    <3>2. sig'[t].boot = boot /\ sig'[t].key = value.pubkey
      BY <1>6, Zenon DEF SignCompute, TypeOK
    <3> QED
      BY <1>6, <3>1, <3>2, ZenonT(60)
         DEF SignCompute, Continue, Measured, EvidenceIsMeasured
  <2>5. Lifecycle' /\ MeasuredKeys'
    BY <1>6, ZenonT(60)
       DEF SignCompute, Continue, Lifecycle, TypeOK, KEY_PAIR!TypeOK,
           MeasuredKeys, Measured
  <2> QED BY <2>1, <2>2, <2>3, <2>4, <2>5, ZenonT(60)
<1>7. CASE SignComputeFails(t)
  <2>1. TypeOK'
    BY <1>7, ZenonT(60)
       DEF SignComputeFails, Leave, KEY_PAIR!Release, TypeOK, KEY_PAIR!TypeOK,
           KEY_PAIR!Stages, Inside
  <2>2. PICK r : at[t] \in Inside /\ Leave(t, r) /\ pub' = pub
    BY <1>7, Zenon DEF SignComputeFails, Inside
  <2> QED BY <2>1, <2>2, LeaveIInv, Zenon
<1>8. CASE SignCopyOut(t)
  <2>1. TypeOK'
    BY <1>8, ZenonT(60)
       DEF SignCopyOut, Leave, KEY_PAIR!Release, TypeOK, KEY_PAIR!TypeOK,
           KEY_PAIR!Stages, Inside, Calls
  <2>2. PICK r : at[t] \in Inside /\ Leave(t, r) /\ pub' = pub
    BY <1>8, Zenon DEF SignCopyOut, Inside
  <2> QED BY <2>1, <2>2, LeaveIInv, Zenon
<1>9. CASE SignFault(t)
  <2>1. TypeOK'
    BY <1>9, ZenonT(60)
       DEF SignFault, Leave, KEY_PAIR!Release, TypeOK, KEY_PAIR!TypeOK,
           KEY_PAIR!Stages, Inside
  <2>2. PICK r : at[t] \in Inside /\ Leave(t, r) /\ pub' = pub
    BY <1>9, Zenon DEF SignFault, Inside
  <2> QED BY <2>1, <2>2, LeaveIInv, Zenon
<1> QED
  BY <1>1, <1>2, <1>3, <1>4, <1>5, <1>6, <1>7, <1>8, <1>9, Zenon DEF IoctlStep

\* Every step, and stuttering, preserves the invariant.
LEMMA NextIInv == IInv /\ [Next]_vars => IInv'
<1> SUFFICES ASSUME IInv, [Next]_vars PROVE IInv'
  OBVIOUS
<1>1. CASE Next
  BY <1>1, LoaderIInv, MachineIInv, CallIInv, IoctlIInv, Zenon DEF Next
<1>2. CASE UNCHANGED vars
  <2> USE <1>2 DEF vars, sysVars, cell, taskVars, IInv
  <2>1. TypeOK'
    BY Zenon DEF TypeOK, KEY_PAIR!TypeOK
  <2>2. Lifecycle' /\ MeasuredKeys' /\ EvidenceIsMeasured'
    BY Zenon DEF Lifecycle, MeasuredKeys, Measured, EvidenceIsMeasured
  <2>3. Files' /\ Calls'
    BY Zenon DEF Files, Calls
  <2> QED BY <2>1, <2>2, <2>3, Zenon
<1> QED BY <1>1, <1>2

\* The inductive invariant holds of every execution.
THEOREM Invariance == Spec => []IInv
  BY InitIInv, NextIInv, PTL DEF Spec

\* Type correctness of the driver and of its key cell.
THEOREM TypeCorrect == Spec => []TypeOK
<1>1. IInv => TypeOK
  BY ZenonT(60) DEF IInv
<1> QED BY <1>1, Invariance, PTL

\* KeyPairStable: whatever the tasks and the loader do, a reference to the key
\* pair held by an ioctl reads the initialised key pair it was taken on
\* (the SAFETY comment of KeyCleanup::drop in lib.rs).
THEOREM KeyPairIsStable == Spec => []KeyPairStable
<1>1. IInv => KeyPairStable
  BY TarakoAssumption
  DEF IInv, KeyPairStable, KEY_PAIR!BorrowStable, Lifecycle, Files, TypeOK,
      Inside
<1> QED BY <1>1, Invariance, PTL

\* EvidenceIsMeasured: every quote, over all loads and boots, was made under a
\* key recorded by IMA in the boot that made it (ioctl.rs:111-112).
THEOREM OnlyMeasuredKeysSign == Spec => []EvidenceIsMeasured
<1>1. IInv => EvidenceIsMeasured
  BY Zenon DEF IInv
<1> QED BY <1>1, Invariance, PTL

\* OpenFilePinsKey: the key a file has shown is in service until it is closed
\* (the attester's comparison at main.go:137).
THEOREM FilesPinTheKey == Spec => []OpenFilePinsKey
<1>1. IInv => OpenFilePinsKey
  BY ZenonT(60) DEF IInv, OpenFilePinsKey, InService, Files, Lifecycle
<1> QED BY <1>1, Invariance, PTL

\* StorageZeroized: an absent module has left no key pair in the storage of
\* KEY_PAIR (README.md:68).
THEOREM StorageIsZeroized == Spec => []StorageZeroized
<1>1. IInv => StorageZeroized
  BY TarakoAssumption DEF IInv, StorageZeroized, Lifecycle
<1> QED BY <1>1, Invariance, PTL

\* The populate of module init finds an empty cell: its EBUSY path
\* (lib.rs:89-92), which would free the module under files that are already
\* open, is never taken.
THEOREM PopulateSucceeds ==
    Spec => [](mod = "registered" /\ pc[Loader] = "idle" => init = 0)
<1>1. IInv => (mod = "registered" /\ pc[Loader] = "idle" => init = 0)
  BY Zenon DEF IInv, Lifecycle
<1> QED BY <1>1, Invariance, PTL

-----------------------------------------------------------------------------
(* TarakoModule implements QuoteDevice.                                    *)

\* Module init and exit, seen from outside: the key enters service when it is
\* published and retires when clear takes it, and nothing else shows.
LEMMA LoaderImplements ==
    ASSUME IInv, LoaderStep
    PROVE  [Device!Next]_(Device!vars)
<1> USE DEF IInv, sysVars, taskVars, cell, Device!vars, InService
<1>1. CASE PopulatePublish
  <2>1. value \in KeyPairs /\ init = 1
    BY <1>1 DEF PopulatePublish, KEY_PAIR!PopulatePublish, Lifecycle
  <2>2. value.pubkey \in Keys
    BY <2>1, Zenon DEF KeyPairs
  <2>3. Device!Enter(value.pubkey)
    BY <1>1, <2>1
    DEF PopulatePublish, KEY_PAIR!PopulatePublish, Device!Enter
  <2> QED BY <2>2, <2>3, Zenon DEF Device!Next
<1>2. CASE ClearClaim
  <2>1. value \in KeyPairs /\ init = 2
    BY <1>2 DEF ClearClaim, KEY_PAIR!ClearClaim, Lifecycle
  <2>2. value.pubkey # NoKey
    BY <2>1, TarakoAssumption, Zenon DEF KeyPairs
  <2>3. Device!Retire
    BY <1>2, <2>1, <2>2 DEF ClearClaim, KEY_PAIR!ClearClaim, Device!Retire
  <2> QED BY <2>3, ZenonT(60) DEF Device!Next
<1>3. CASE Register \/ RegisterFails \/ Deregister
  BY <1>3, Zenon DEF Register, RegisterFails, Deregister
<1>4. CASE PopulateClaim
  BY <1>4, SMTT(20) DEF PopulateClaim, KEY_PAIR!PopulateClaim
<1>5. CASE PopulateWrite
  BY <1>5, SMTT(20) DEF PopulateWrite, KEY_PAIR!PopulateWrite, Lifecycle
<1>6. CASE ClearDrop
  BY <1>6, SMTT(20) DEF ClearDrop, KEY_PAIR!ClearDrop, Lifecycle
<1>7. CASE ClearFinish
  BY <1>7 DEF ClearFinish, KEY_PAIR!ClearFinish, Lifecycle
<1> QED BY <1>1, <1>2, <1>3, <1>4, <1>5, <1>6, <1>7, Zenon DEF LoaderStep

\* Loading shows as the measurement of the new key, if there was one.
LEMMA MachineImplements ==
    ASSUME IInv,
           \/ \E k \in Keys : LoadFails(k) \/ \E m \in BOOLEAN : Load(k, m)
           \/ Unload \/ TestModule \/ LockModules \/ Reboot
    PROVE  [Device!Next]_(Device!vars)
<1> USE DEF IInv, sysVars, taskVars, cell, Device!vars, InService
<1>1. ASSUME NEW k \in Keys, NEW m \in BOOLEAN, Load(k, m)
      PROVE  [Device!Next]_(Device!vars)
  <2>1. InService = NoKey /\ InService' = NoKey
    <3>1. init = 0 /\ init' = 0
      BY <1>1, SMTT(20) DEF Load, Lifecycle
    <3> QED BY <3>1, SMTT(20)
  <2>2. CASE m = TRUE
    <3>1. Device!Measure(k)
      BY <1>1, <2>1, <2>2, Zenon DEF Load, ima_measure_pubkey, Device!Measure
    <3> QED BY <3>1 DEF Device!Next
  <2>3. CASE m = FALSE
    BY <1>1, <2>1, <2>3, Zenon DEF Load, ima_measure_pubkey
  <2> QED BY <2>2, <2>3, Zenon
<1>2. ASSUME NEW k \in Keys, LoadFails(k) PROVE [Device!Next]_(Device!vars)
  BY <1>2, Zenon DEF LoadFails
<1>3. CASE Unload \/ TestModule \/ LockModules
  BY <1>3, Zenon DEF Unload, TestModule, LockModules
<1>4. CASE Reboot
  <2>1. Device!Reboot
    BY <1>4 DEF Reboot, Device!Reboot
  <2> QED BY <2>1, ZenonT(60) DEF Device!Next
<1> QED BY <1>1, <1>2, <1>3, <1>4, Zenon

\* Of all that tasks do, only the computation of a signature shows: it is
\* Issue, under the key then in service.
LEMMA TaskImplements ==
    ASSUME IInv, NEW t \in Tasks, TaskStep(t)
    PROVE  [Device!Next]_(Device!vars)
<1> USE DEF IInv, sysVars, ioctlVars, cell, Device!vars, InService, Leave,
            Continue, Reply, KEY_PAIR!Release, KEY_PAIR!AsRef
<1>1. CASE SignCompute(t)
  <2>1. /\ init = 2 /\ value \in KeyPairs /\ value.ima_measured = TRUE
        /\ Measured(value)
        /\ dig[t] \in Digests /\ req[t] \in UserData
    BY <1>1, ZenonT(60)
       DEF SignCompute, Files, Lifecycle, Calls, MeasuredKeys, Inside
  <2>2. value.pubkey # NoKey
    BY <2>1, TarakoAssumption, Zenon DEF KeyPairs
  <2>3. sig'[t] = [boot |-> boot, key |-> value.pubkey,
                   digest |-> dig[t], user_data |-> req[t]]
    BY <1>1, ZenonT(60) DEF SignCompute, TypeOK
  <2>4. Device!Issue(dig[t], req[t])
    BY <1>1, <2>1, <2>2, <2>3 DEF SignCompute, Measured, Device!Issue
  <2> QED BY <2>1, <2>4 DEF Device!Next
<1>2. CASE IoctlStep(t) /\ ~SignCompute(t)
  BY <1>2, Zenon
     DEF IoctlStep, GetPubkeyDone, GetPubkeyFault, SignDigest, SignNoVerity,
         SignCopyIn, SignComputeFails, SignCopyOut, SignFault
<1>3. CASE ~IoctlStep(t)
  BY <1>3, Zenon
     DEF TaskStep, Exec, WriteBuffer, Open, Close, Hello, UnknownCommand,
         NoKeyPair, GetPubkey, SignData, SignRefused
<1> QED BY <1>1, <1>2, <1>3, Zenon

\* Every step of the driver is a step of QuoteDevice, or a stutter.
LEMMA StepImplements == IInv /\ [Next]_vars => [Device!Next]_(Device!vars)
<1> SUFFICES ASSUME IInv, [Next]_vars PROVE [Device!Next]_(Device!vars)
  BY Zenon
<1>1. CASE Next
  BY <1>1, LoaderImplements, MachineImplements, TaskImplements, Zenon DEF Next
<1>2. CASE UNCHANGED vars
  BY <1>2, Zenon DEF vars, sysVars, cell, taskVars, Device!vars, InService
<1> QED BY <1>1, <1>2

\* The driver starts as a QuoteDevice does.
LEMMA InitImplements == Init => Device!Init
BY DEF Init, Device!Init, InService, KEY_PAIR!Init

\* ImplementsQuoteDevice: the driver is a QuoteDevice for every set of tasks,
\* keys and executables and any number of loads and boots.
THEOREM DriverImplementsDevice == Spec => ImplementsQuoteDevice
BY InitImplements, StepImplements, Invariance, PTL
DEF Spec, ImplementsQuoteDevice, Device!Spec

-----------------------------------------------------------------------------
(* Action properties.                                                      *)

\* Of all the steps of t itself or of anyone else while t is about to return
\* from signing, only its own SignCopyOut makes the result "ok".
LEMMA OnlyCopyOutSucceeds ==
    ASSUME IInv, Next, NEW t \in Tasks, at[t] = "signed", ret'[t] = "ok"
    PROVE  SignCopyOut(t)
<1>1. /\ ret[t] = "none" /\ DOMAIN ret = Tasks
      /\ mod = "live" /\ pc[Loader] = "idle"
  BY Zenon DEF IInv, Files, Inside, Lifecycle, TypeOK
<1>2. ASSUME LoaderStep PROVE FALSE
  BY <1>1, <1>2, ZenonT(60)
     DEF LoaderStep, Register, RegisterFails, PopulateClaim, PopulateWrite,
         PopulatePublish, Deregister, ClearClaim, ClearDrop, ClearFinish,
         taskVars
<1>3. ASSUME \/ \E k \in Keys : LoadFails(k) \/ \E m \in BOOLEAN : Load(k, m)
             \/ Unload \/ TestModule \/ LockModules \/ Reboot
      PROVE  FALSE
  BY <1>1, <1>3 DEF LoadFails, Load, Unload, TestModule, LockModules, Reboot,
       taskVars
<1>4. ASSUME NEW o \in Tasks, TaskStep(o), ~SignCopyOut(t) PROVE FALSE
  <2>1. CASE o # t
    BY <1>1, <1>4, <2>1, ZenonT(60)
       DEF TaskStep, IoctlStep, Exec, WriteBuffer, Open, Close, Hello,
           UnknownCommand, NoKeyPair, GetPubkey, SignData, SignRefused,
           GetPubkeyDone, GetPubkeyFault, SignDigest, SignNoVerity, SignCopyIn,
           SignCompute, SignComputeFails, SignCopyOut, SignFault, Reply, Leave,
           Continue
  <2>2. CASE o = t
    BY <1>1, <1>4, <2>2, ZenonT(60)
       DEF TaskStep, IoctlStep, Exec, WriteBuffer, Open, Close, Hello,
           UnknownCommand, NoKeyPair, GetPubkey, SignData, SignRefused,
           GetPubkeyDone, GetPubkeyFault, SignDigest, SignNoVerity, SignCopyIn,
           SignCompute, SignComputeFails, SignFault, Reply, Leave, Continue
  <2> QED BY <2>1, <2>2
<1> QED BY <1>2, <1>3, <1>4, Zenon DEF Next

\* ResponseIsEvidence: what TARAKO_SIGN_DATA returns is the quote it made, for
\* any interleaving of calls and of writes to the callers' buffers
\* (handle_sign_data and write_sign_data_req in ioctl.rs).
THEOREM ResponsesAreEvidence == Spec => ResponseIsEvidence
<1>1. ASSUME IInv, Next, NEW t \in Tasks, at[t] = "signed", ret'[t] = "ok"
      PROVE  /\ sig[t] \in issued
             /\ sig[t].user_data = umem'[t]
             /\ sig[t].digest = exe'[t]
             /\ sig[t].key = InService'
             /\ <<boot, InService'>> \in imaLog
  <2>1. /\ sig[t] \in issued
        /\ sig[t] = [boot |-> boot, key |-> value.pubkey,
                     digest |-> exe[t], user_data |-> req[t]]
        /\ value \in KeyPairs /\ value.ima_measured = TRUE /\ init = 2
    BY <1>1, ZenonT(60) DEF IInv, Calls, Files, Lifecycle, Inside
  <2>2. SignCopyOut(t)
    BY <1>1, OnlyCopyOutSucceeds, ZenonT(60)
  <2>3. umem'[t] = req[t] /\ exe' = exe /\ InService' = value.pubkey
    BY <1>1, <2>1, <2>2, ZenonT(60)
       DEF SignCopyOut, Leave, KEY_PAIR!Release, InService, IInv, TypeOK
  <2>4. <<boot, value.pubkey>> \in imaLog
    BY <1>1, <2>1, Zenon DEF IInv, MeasuredKeys, Measured
  <2>5. /\ sig[t].user_data = req[t] /\ sig[t].digest = exe[t]
        /\ sig[t].key = value.pubkey
    BY <2>1, SMTT(20)
  <2>6. sig[t] \in issued
    BY <2>1, ZenonT(60)
  <2> QED BY <2>3, <2>4, <2>5, <2>6
<1>2. IInv /\ [Next]_vars =>
        [\A t \in Tasks :
            at[t] = "signed" /\ ret'[t] = "ok" =>
               /\ sig[t] \in issued
               /\ sig[t].user_data = umem'[t]
               /\ sig[t].digest = exe'[t]
               /\ sig[t].key = InService'
               /\ <<boot, InService'>> \in imaLog]_vars
  BY <1>1
<1> QED BY <1>2, Invariance, PTL DEF Spec, ResponseIsEvidence

\* EnxioOnlyWhileLoading: an open file is told ENXIO only in the window between
\* registration and populate (lib.rs:88).
THEOREM EnxioIsTransient == Spec => EnxioOnlyWhileLoading
<1> DEFINE Enxio(t) ==
        ret[t] # "ENXIO" /\ ret'[t] = "ENXIO" => mod = "registered"
<1>1. ASSUME IInv, Next, NEW t \in Tasks, ret[t] # "ENXIO", ret'[t] = "ENXIO"
      PROVE  mod = "registered"
  <2>1. DOMAIN ret = Tasks
    BY <1>1, Zenon DEF IInv, TypeOK
  <2>2. ASSUME LoaderStep PROVE FALSE
    BY <1>1, <2>2, ZenonT(60)
       DEF LoaderStep, Register, RegisterFails, PopulateClaim, PopulateWrite,
           PopulatePublish, Deregister, ClearClaim, ClearDrop, ClearFinish,
           taskVars
  <2>3. ASSUME \/ \E k \in Keys : LoadFails(k) \/ \E m \in BOOLEAN : Load(k, m)
               \/ Unload \/ TestModule \/ LockModules \/ Reboot
        PROVE  FALSE
    BY <1>1, <2>3 DEF LoadFails, Load, Unload, TestModule, LockModules, Reboot,
       taskVars
  <2>4. ASSUME NEW o \in Tasks, TaskStep(o) PROVE NoKeyPair(t)
    BY <1>1, <2>1, <2>4, ZenonT(60)
       DEF TaskStep, IoctlStep, Exec, WriteBuffer, Open, Close, Hello,
           UnknownCommand, NoKeyPair, GetPubkey, SignData, SignRefused,
           GetPubkeyDone, GetPubkeyFault, SignDigest, SignNoVerity, SignCopyIn,
           SignCompute, SignComputeFails, SignCopyOut, SignFault, Reply, Leave,
           Continue
  <2>5. NoKeyPair(t)
    BY <1>1, <2>2, <2>3, <2>4, Zenon DEF Next
  <2> QED BY <1>1, <2>5, Zenon DEF NoKeyPair, Reply, IInv, Files, Lifecycle
<1>2. IInv /\ [Next]_vars => [\A t \in Tasks : Enxio(t)]_vars
  BY <1>1
<1> QED BY <1>2, Invariance, PTL DEF Spec, EnxioOnlyWhileLoading
===============================================================================
