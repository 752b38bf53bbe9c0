----------------------------- MODULE TarakoModule -----------------------------
(***************************************************************************)
(* The kernel module (driver/src/lib.rs, ioctl.rs) with its set-once cell  *)
(* (SetOnce): loading, key generation and IMA measurement, the misc device *)
(* and its ioctls called by concurrent tasks, unloading, and reboots of    *)
(* the machine.                                                            *)
(*                                                                         *)
(* An ioctl is one action per point where another task, the loader or the  *)
(* caller's own address space can be seen to change: taking the reference  *)
(* to the key pair, reading the digest, copying the request in, signing,   *)
(* copying it out.  A key is identified with its public half; a hash and   *)
(* the signature over it are the triple they determine.                    *)
(*                                                                         *)
(* External, from how lib.rs uses it: the misc device layer.  open takes a *)
(* reference on the module, the module cannot be removed while one is      *)
(* held, and a removed device cannot be opened.  lib.rs names no owner     *)
(* itself: the comment of KeyCleanup::drop relies on the removed device,   *)
(* and the reference is the kernel's Rust miscdevice abstraction's.        *)
(*                                                                         *)
(* kp and local say who owns the key pair.  The bytes that a move leaves   *)
(* behind on the stack of init or populate (lib.rs:88, set_once.rs:42) are *)
(* not modelled; only the cell's storage, which clear drops in place, is.  *)
(*                                                                         *)
(* populate cannot return false here (lib.rs:89-92): a fresh image starts  *)
(* with an empty cell and only this init populates it.  That the failure   *)
(* path is dead is part of the invariant proved in TarakoModuleProofs.     *)
(*                                                                         *)
(* A definition named Bug... is the definition after it with one plausible *)
(* coding error in it; no specification uses it.                           *)
(***************************************************************************)
EXTENDS Naturals

CONSTANTS Tasks,      \* user-space threads that call the device
          Loader,     \* the thread that runs module init and exit
          Keys,       \* P-256 keys, each generated at most once
          NoKey,
          Digests,    \* fs-verity digests of executables
          NoVerity,   \* the executable has no fs-verity digest
          UserData,   \* contents of the 128-byte user_data field
          None,       \* no value
          Uninit, Dropped,   \* see SetOnce
          MaxBoots    \* bound on the number of reboots

KeyPairs == [pubkey : Keys, ima_measured : BOOLEAN]

ASSUME TarakoAssumption ==
    /\ Loader \notin Tasks
    /\ NoKey \notin Keys
    /\ NoVerity \notin Digests
    /\ Uninit \notin KeyPairs /\ Dropped \notin KeyPairs /\ None \notin KeyPairs
    /\ MaxBoots \in Nat

VARIABLES
    mod,      \* where module loading and unloading is
    kp,       \* init's local key pair, until populate takes it
    modules_disabled,   \* the sysctl, 0 or 1
    locker,   \* where the boot's disable-module-loading service is
    boot,     \* number of this boot
    used,     \* keys that were ever generated
    imaLog,   \* <<boot, key>> pairs that IMA recorded
    init, value, pc, local,   \* KEY_PAIR
    at,       \* where each task is: closed, open, or inside an ioctl
    exe,      \* digest of the executable each task runs
    umem,     \* user_data field of the request in each task's own memory
    dig,      \* digest read by the ioctl in progress
    req,      \* user_data copied in by the ioctl in progress
    sig,      \* quote made by the ioctl in progress
    pub,      \* public key the task has been given on its open file
    ret,      \* result of the last call on the task's open file
    issued    \* every quote ever made

cell == <<init, value, pc, local>>
ioctlVars == <<dig, req, sig>>
taskVars == <<at, exe, umem, dig, req, sig, pub, ret>>
sysVars == <<modules_disabled, locker, boot, used, imaLog>>
vars == <<mod, kp, sysVars, cell, taskVars, issued>>

KEY_PAIR == INSTANCE SetOnce WITH
                Threads <- Tasks \cup {Loader}, Values <- KeyPairs

Init == /\ mod = "absent"
        /\ kp = None
        /\ modules_disabled = 0
        /\ locker = "idle"
        /\ boot = 0
        /\ used = {}
        /\ imaLog = {}
        /\ KEY_PAIR!Init
        /\ at = [t \in Tasks |-> "closed"]
        /\ exe \in [Tasks -> Digests \cup {NoVerity}]
        /\ umem \in [Tasks -> UserData]
        /\ dig = [t \in Tasks |-> None]
        /\ req = [t \in Tasks |-> None]
        /\ sig = [t \in Tasks |-> None]
        /\ pub = [t \in Tasks |-> NoKey]
        /\ ret = [t \in Tasks |-> "none"]
        /\ issued = {}

-----------------------------------------------------------------------------
(* Module init                                                             *)

\* What the log is after ima_measure_pubkey, which may fail.
ima_measure_pubkey(k, ok) ==
    IF ok THEN imaLog \cup {<<boot, k>>} ELSE imaLog

\* ... the IMA result is ignored.
BugLoad(k, measured) ==
    /\ mod = "absent"
    /\ modules_disabled = 0
    /\ k \notin used
    /\ mod' = "keyed"
    /\ kp' = [pubkey |-> k, ima_measured |-> TRUE]
    /\ used' = used \cup {k}
    /\ imaLog' = ima_measure_pubkey(k, measured)
    /\ init' = 0
    /\ value' = Uninit
    /\ UNCHANGED <<modules_disabled, locker, boot, pc, local, taskVars,
                   issued>>

\* insmod of a fresh image; generate_key_pair ends in Ok.  An IMA failure
\* only clears ima_measured.
Load(k, measured) ==
    /\ mod = "absent"
    /\ modules_disabled = 0
    /\ k \notin used
    /\ mod' = "keyed"
    /\ kp' = [pubkey |-> k, ima_measured |-> measured]
    /\ used' = used \cup {k}
    /\ imaLog' = ima_measure_pubkey(k, measured)
    /\ init' = 0
    /\ value' = Uninit
    /\ UNCHANGED <<modules_disabled, locker, boot, pc, local, taskVars,
                   issued>>

\* generate_key_pair returns an error (before it reaches IMA): load fails.
LoadFails(k) ==
    /\ mod = "absent"
    /\ modules_disabled = 0
    /\ k \notin used
    /\ used' = used \cup {k}
    /\ UNCHANGED <<mod, kp, modules_disabled, locker, boot, imaLog, cell,
                   taskVars, issued>>

Register ==
    /\ mod = "keyed"
    /\ mod' = "registered"
    /\ UNCHANGED <<kp, sysVars, cell, taskVars, issued>>

\* MiscDeviceRegistration::register fails: the closure owning kp is dropped.
RegisterFails ==
    /\ mod = "keyed"
    /\ mod' = "absent"
    /\ kp' = None
    /\ UNCHANGED <<sysVars, cell, taskVars, issued>>

\* The pin_chain closure: the device can already be opened.  The closure's
\* key pair moves into populate.
PopulateClaim ==
    /\ mod = "registered"
    /\ kp # None
    /\ KEY_PAIR!PopulateClaim(Loader, kp)
    /\ kp' = None
    /\ UNCHANGED <<mod, sysVars, taskVars, issued>>

PopulateWrite ==
    /\ mod = "registered"
    /\ KEY_PAIR!PopulateWrite(Loader)
    /\ UNCHANGED <<mod, kp, sysVars, taskVars, issued>>

\* ... without the store of 2.
BugPopulatePublish ==
    /\ mod = "registered"
    /\ pc[Loader] = "written"
    /\ pc' = [pc EXCEPT ![Loader] = "idle"]
    /\ local' = [local EXCEPT ![Loader] = Uninit]
    /\ mod' = "live"
    /\ UNCHANGED <<kp, init, value, sysVars, taskVars, issued>>

\* populate returns true, init returns Ok and the module is live.
PopulatePublish ==
    /\ mod = "registered"
    /\ KEY_PAIR!PopulatePublish(Loader)
    /\ mod' = "live"
    /\ UNCHANGED <<kp, sysVars, taskVars, issued>>

-----------------------------------------------------------------------------
(* Module exit: fields are dropped in order, _miscdev then _key_cleanup.   *)

\* ... with files still open.
BugUnload ==
    /\ mod = "live"
    /\ modules_disabled = 0
    /\ mod' = "going"
    /\ UNCHANGED <<kp, sysVars, cell, taskVars, issued>>

\* ... with the module referenced during calls only, and the rest of exit.
BugUnloadOpen ==
    /\ mod = "live"
    /\ modules_disabled = 0
    /\ \A t \in Tasks : at[t] \in {"closed", "open"}
    /\ mod' = "absent"
    /\ init' = 0
    /\ value' = Dropped
    /\ UNCHANGED <<kp, sysVars, pc, local, taskVars, issued>>

\* delete_module succeeds only with no open file (external).
Unload ==
    /\ mod = "live"
    /\ modules_disabled = 0
    /\ \A t \in Tasks : at[t] = "closed"
    /\ mod' = "going"
    /\ UNCHANGED <<kp, sysVars, cell, taskVars, issued>>

Deregister ==
    /\ mod = "going"
    /\ mod' = "cleanup"
    /\ UNCHANGED <<kp, sysVars, cell, taskVars, issued>>

ClearClaim ==
    /\ mod = "cleanup"
    /\ KEY_PAIR!ClearClaim(Loader)
    /\ UNCHANGED <<mod, kp, sysVars, taskVars, issued>>

\* ... with the value forgotten instead of dropped.
BugClearDrop ==
    /\ mod = "cleanup"
    /\ pc[Loader] = "clearing"
    /\ pc' = [pc EXCEPT ![Loader] = "dropped"]
    /\ UNCHANGED <<mod, kp, init, value, local, sysVars, taskVars, issued>>

ClearDrop ==
    /\ mod = "cleanup"
    /\ KEY_PAIR!ClearDrop(Loader)
    /\ UNCHANGED <<mod, kp, sysVars, taskVars, issued>>

ClearFinish ==
    /\ mod = "cleanup"
    /\ KEY_PAIR!ClearFinish(Loader)
    /\ mod' = "absent"
    /\ UNCHANGED <<kp, sysVars, taskVars, issued>>

-----------------------------------------------------------------------------
(* The machine                                                             *)

\* disable-module-loading looks for /sys/module/tarako, which is there from
\* the start of a load to the end of an unload; without it the script fails.
TestModule ==
    /\ locker = "idle"
    /\ mod # "absent"
    /\ locker' = "tested"
    /\ UNCHANGED <<mod, kp, modules_disabled, boot, used, imaLog, cell, taskVars,
                   issued>>

\* ... and then writes the sysctl, wherever the module has got to since.
LockModules ==
    /\ locker = "tested"
    /\ locker' = "done"
    /\ modules_disabled' = 1
    /\ UNCHANGED <<mod, kp, boot, used, imaLog, cell, taskVars, issued>>

\* Every task and the module's memory are gone; the IMA log starts anew
\* (imaLog keeps the earlier boots' records as history).
Reboot ==
    /\ boot < MaxBoots
    /\ boot' = boot + 1
    /\ mod' = "absent"
    /\ kp' = None
    /\ modules_disabled' = 0
    /\ locker' = "idle"
    /\ init' = 0
    /\ value' = Uninit
    /\ pc' = [t \in Tasks \cup {Loader} |-> "idle"]
    /\ local' = [t \in Tasks \cup {Loader} |-> Uninit]
    /\ at' = [t \in Tasks |-> "closed"]
    /\ dig' = [t \in Tasks |-> None]
    /\ req' = [t \in Tasks |-> None]
    /\ sig' = [t \in Tasks |-> None]
    /\ pub' = [t \in Tasks |-> NoKey]
    /\ ret' = [t \in Tasks |-> "none"]
    /\ UNCHANGED <<used, imaLog, exe, umem, issued>>

-----------------------------------------------------------------------------
(* User space, and open and close of /dev/tarako                           *)

\* A task not inside an ioctl replaces its executable; open files stay open.
Exec(t, e) ==
    /\ at[t] \in {"closed", "open"}
    /\ exe' = [exe EXCEPT ![t] = e]
    /\ UNCHANGED <<mod, kp, sysVars, cell, at, umem, ioctlVars, pub, ret,
                   issued>>

\* Another thread of the process writes the request buffer, at any time.
WriteBuffer(t, u) ==
    /\ umem' = [umem EXCEPT ![t] = u]
    /\ UNCHANGED <<mod, kp, sysVars, cell, at, exe, ioctlVars, pub, ret,
                   issued>>

\* It may also fail (no device, a module that is going, no memory for the
\* TarakoDevice); the task is then where it was.
Open(t) ==
    /\ at[t] = "closed"
    /\ mod \in {"registered", "live"}
    /\ at' = [at EXCEPT ![t] = "open"]
    /\ UNCHANGED <<mod, kp, sysVars, cell, exe, umem, ioctlVars, pub, ret,
                   issued>>

Close(t) ==
    /\ at[t] = "open"
    /\ at' = [at EXCEPT ![t] = "closed"]
    /\ pub' = [pub EXCEPT ![t] = NoKey]
    /\ ret' = [ret EXCEPT ![t] = "none"]
    /\ UNCHANGED <<mod, kp, sysVars, cell, exe, umem, ioctlVars, issued>>

-----------------------------------------------------------------------------
(* ioctl                                                                   *)

\* The handler returns r without having taken, or having kept, a reference.
Reply(t, r) ==
    /\ at[t] = "open"
    /\ ret' = [ret EXCEPT ![t] = r]
    /\ UNCHANGED <<mod, kp, sysVars, cell, at, exe, umem, ioctlVars, pub,
                   issued>>

\* The handler, inside the call, returns r and its locals and reference die.
Leave(t, r) ==
    /\ KEY_PAIR!Release(t)
    /\ at' = [at EXCEPT ![t] = "open"]
    /\ dig' = [dig EXCEPT ![t] = None]
    /\ req' = [req EXCEPT ![t] = None]
    /\ sig' = [sig EXCEPT ![t] = None]
    /\ ret' = [ret EXCEPT ![t] = r]
    /\ UNCHANGED <<mod, kp, sysVars, exe, issued>>

\* A further step inside the call.
Continue(t, to) ==
    /\ at' = [at EXCEPT ![t] = to]
    /\ ret' = [ret EXCEPT ![t] = "none"]
    /\ UNCHANGED <<mod, kp, sysVars, exe, umem, pub>>

Hello(t) == Reply(t, "ok")
UnknownCommand(t) == Reply(t, "ENOTTY")

\* KEY_PAIR.as_ref().ok_or(ENXIO) in both handlers.
NoKeyPair(t) == init # 2 /\ Reply(t, "ENXIO")

\* ... with as_ref taking any non-empty cell for a published one.
BugGetPubkey(t) ==
    /\ at[t] = "open"
    /\ init >= 1
    /\ pc' = [pc EXCEPT ![t] = "borrowed"]
    /\ local' = [local EXCEPT ![t] = value]
    /\ Continue(t, "pubkey")
    /\ UNCHANGED <<init, value, ioctlVars, issued>>

GetPubkey(t) ==
    /\ at[t] = "open"
    /\ KEY_PAIR!AsRef(t)
    /\ Continue(t, "pubkey")
    /\ UNCHANGED <<ioctlVars, issued>>

GetPubkeyDone(t) ==
    /\ at[t] = "pubkey"
    /\ pub' = [pub EXCEPT ![t] = value.pubkey]
    /\ Leave(t, "ok")
    /\ UNCHANGED umem

GetPubkeyFault(t) ==
    /\ at[t] = "pubkey"
    /\ Leave(t, "EFAULT")
    /\ UNCHANGED <<umem, pub>>

\* ... without the ima_measured check.
BugSignData(t) ==
    /\ at[t] = "open"
    /\ KEY_PAIR!AsRef(t)
    /\ Continue(t, "sign")
    /\ UNCHANGED <<ioctlVars, issued>>

SignData(t) ==
    /\ at[t] = "open"
    /\ KEY_PAIR!AsRef(t)
    /\ value.ima_measured
    /\ Continue(t, "sign")
    /\ UNCHANGED <<ioctlVars, issued>>

SignRefused(t) ==
    /\ init = 2
    /\ ~value.ima_measured
    /\ Reply(t, "EPERM")

\* current_exe_fsverity_digest
SignDigest(t) ==
    /\ at[t] = "sign"
    /\ exe[t] # NoVerity
    /\ dig' = [dig EXCEPT ![t] = exe[t]]
    /\ Continue(t, "digest")
    /\ UNCHANGED <<cell, req, sig, issued>>

SignNoVerity(t) ==
    /\ at[t] = "sign"
    /\ exe[t] = NoVerity
    /\ Leave(t, "ENODATA")
    /\ UNCHANGED <<umem, pub>>

\* read_sign_data_req
SignCopyIn(t) ==
    /\ at[t] = "digest"
    /\ req' = [req EXCEPT ![t] = umem[t]]
    /\ Continue(t, "copied")
    /\ UNCHANGED <<cell, dig, sig, issued>>

\* hash and kp.sign over digest || user_data; the public key is added.
SignCompute(t) ==
    /\ at[t] = "copied"
    /\ sig' = [sig EXCEPT ![t] = [boot |-> boot, key |-> value.pubkey,
                                  digest |-> dig[t], user_data |-> req[t]]]
    /\ issued' = issued \cup {sig'[t]}
    /\ Continue(t, "signed")
    /\ UNCHANGED <<cell, dig, req>>

\* The RNG, the curve code or 100 unusable nonces: ecdsa_sign fails.
SignComputeFails(t) ==
    /\ at[t] = "copied"
    /\ Leave(t, "EINVAL")
    /\ UNCHANGED <<umem, pub>>

\* ... with only the results written back.
BugSignCopyOut(t) ==
    /\ at[t] = "signed"
    /\ Leave(t, "ok")
    /\ UNCHANGED <<umem, pub>>

\* write_sign_data_req writes the whole struct, user_data included.
SignCopyOut(t) ==
    /\ at[t] = "signed"
    /\ umem' = [umem EXCEPT ![t] = req[t]]
    /\ Leave(t, "ok")
    /\ UNCHANGED pub

\* The buffer cannot be read, or cannot be written back.
SignFault(t) ==
    /\ at[t] \in {"digest", "signed"}
    /\ Leave(t, "EFAULT")
    /\ UNCHANGED <<umem, pub>>

-----------------------------------------------------------------------------
IoctlStep(t) ==
    \/ GetPubkeyDone(t) \/ GetPubkeyFault(t)
    \/ SignDigest(t) \/ SignNoVerity(t) \/ SignCopyIn(t)
    \/ SignCompute(t) \/ SignComputeFails(t)
    \/ SignCopyOut(t) \/ SignFault(t)

LoaderStep ==
    \/ Register \/ RegisterFails
    \/ PopulateClaim \/ PopulateWrite \/ PopulatePublish
    \/ Deregister \/ ClearClaim \/ ClearDrop \/ ClearFinish

TaskStep(t) ==
    \/ \E e \in Digests \cup {NoVerity} : Exec(t, e)
    \/ \E u \in UserData : WriteBuffer(t, u)
    \/ Open(t) \/ Close(t)
    \/ Hello(t) \/ UnknownCommand(t) \/ NoKeyPair(t)
    \/ GetPubkey(t) \/ SignData(t) \/ SignRefused(t)
    \/ IoctlStep(t)

Next ==
    \/ \E k \in Keys : LoadFails(k) \/ \E m \in BOOLEAN : Load(k, m)
    \/ Unload \/ TestModule \/ LockModules \/ Reboot
    \/ LoaderStep
    \/ \E t \in Tasks : TaskStep(t)

\* Kernel code that was entered runs to its end: init, exit and every ioctl
\* body contain no wait for another task.  Nothing obliges user space to act.
Fairness == WF_vars(LoaderStep) /\ \A t \in Tasks : WF_vars(IoctlStep(t))

Spec == Init /\ [][Next]_vars /\ Fairness

-----------------------------------------------------------------------------
(* Properties                                                              *)

Inside == {"pubkey", "sign", "digest", "copied", "signed"}
Quotes == [boot : 0..MaxBoots, key : Keys, digest : Digests,
           user_data : UserData]

\* Every variable keeps its type, the cell's included.
TypeOK ==
    /\ mod \in {"absent", "keyed", "registered", "live", "going", "cleanup"}
    /\ kp \in KeyPairs \cup {None}
    /\ modules_disabled \in {0, 1}
    /\ locker \in {"idle", "tested", "done"}
    /\ boot \in 0..MaxBoots
    /\ used \subseteq Keys
    /\ imaLog \subseteq (0..MaxBoots) \X Keys
    /\ KEY_PAIR!TypeOK
    /\ at \in [Tasks -> Inside \cup {"closed", "open"}]
    /\ exe \in [Tasks -> Digests \cup {NoVerity}]
    /\ umem \in [Tasks -> UserData]
    /\ dig \in [Tasks -> Digests \cup {None}]
    /\ req \in [Tasks -> UserData \cup {None}]
    /\ sig \in [Tasks -> Quotes \cup {None}]
    /\ pub \in [Tasks -> Keys \cup {NoKey}]
    /\ ret \in [Tasks -> {"none", "ok", "ENOTTY", "ENXIO", "EPERM",
                          "ENODATA", "EINVAL", "EFAULT"}]
    /\ issued \subseteq Quotes

\* The key a caller of as_ref would be given.
InService == IF init = 2 THEN value.pubkey ELSE NoKey

\* The comment of KeyCleanup::drop: no ioctl, of any task, ever works on a key
\* pair that is half written, being destroyed or replaced, because the misc
\* device is gone, with its users, before clear runs.
KeyPairStable == KEY_PAIR!BorrowStable

\* "never allow such an unmeasured key to sign evidence": each quote was made
\* under a key that IMA recorded in the same boot, across loads, unloads and
\* reboots in any order.
EvidenceIsMeasured == \A q \in issued : <<q.boot, q.key>> \in imaLog

\* A file that was given a public key pins that key: the attester's check
\* "TAK public key changed between ioctls" can only fail on a broken kernel.
OpenFilePinsKey == \A t \in Tasks : pub[t] # NoKey => InService = pub[t]

\* README: the private key "is zeroized on module unload".  Once the module is
\* gone, after an unload, or after a load that failed before populate, the
\* storage of KEY_PAIR holds no key pair that was not dropped.
StorageZeroized == mod = "absent" => value \notin KeyPairs

\* A successful TARAKO_SIGN_DATA leaves in the caller's buffer exactly the
\* user data that was signed, whatever the caller's other threads did to the
\* buffer meanwhile, signed for the executable the caller runs when the call
\* returns and under the measured key then in service.
ResponseIsEvidence ==
    [][\A t \in Tasks :
         at[t] = "signed" /\ ret'[t] = "ok" =>
            /\ sig[t] \in issued
            /\ sig[t].user_data = umem'[t]
            /\ sig[t].digest = exe'[t]
            /\ sig[t].key = InService'
            /\ <<boot, InService'>> \in imaLog]_vars

\* ENXIO is a transient of loading: an open file sees it only between
\* registration and populate, never once the key has been in service.
EnxioOnlyWhileLoading ==
    [][\A t \in Tasks :
         ret[t] # "ENXIO" /\ ret'[t] = "ENXIO" => mod = "registered"]_vars

\* What a verifier may assume of the device.
Device == INSTANCE QuoteDevice WITH key <- InService

\* The driver, with its windows and interleavings, implements QuoteDevice.
ImplementsQuoteDevice == Device!Spec
===============================================================================
