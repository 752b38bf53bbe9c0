----------------------------- MODULE QuoteDevice -----------------------------
(***************************************************************************)
(* What /dev/tarako promises a verifier, without its code: at any time at  *)
(* most one key is in service, a quote is made in one indivisible step and *)
(* under the key in service at that moment, and only when this boot's IMA  *)
(* log records that key.                                                   *)
(*                                                                         *)
(* TarakoModule (driver/src/lib.rs, ioctl.rs) is shown to implement it.    *)
(***************************************************************************)
EXTENDS Naturals

CONSTANTS Keys, NoKey, Digests, UserData

VARIABLES boot,     \* number of the current boot
          key,      \* the key in service, or NoKey
          imaLog,   \* all <<boot, key>> pairs IMA ever recorded
          issued    \* all quotes ever made

vars == <<boot, key, imaLog, issued>>

Init == /\ boot = 0
        /\ key = NoKey
        /\ imaLog = {}
        /\ issued = {}

Measure(k) == /\ imaLog' = imaLog \cup {<<boot, k>>}
              /\ UNCHANGED <<boot, key, issued>>

Enter(k) == /\ key = NoKey
            /\ key' = k
            /\ UNCHANGED <<boot, imaLog, issued>>

Retire == /\ key # NoKey
          /\ key' = NoKey
          /\ UNCHANGED <<boot, imaLog, issued>>

Issue(d, u) ==
    /\ key # NoKey
    /\ <<boot, key>> \in imaLog
    /\ issued' = issued \cup
                 {[boot |-> boot, key |-> key, digest |-> d, user_data |-> u]}
    /\ UNCHANGED <<boot, key, imaLog>>

Reboot == /\ boot' = boot + 1
          /\ key' = NoKey
          /\ UNCHANGED <<imaLog, issued>>

Next == \/ \E k \in Keys : Measure(k) \/ Enter(k)
        \/ Retire
        \/ \E d \in Digests, u \in UserData : Issue(d, u)
        \/ Reboot

Spec == Init /\ [][Next]_vars
==============================================================================
