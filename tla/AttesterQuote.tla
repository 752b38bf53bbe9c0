---------------------------- MODULE AttesterQuote ----------------------------
(***************************************************************************)
(* attester/main.go on top of the driver: quoteHandler and tarakoQuote.    *)
(* Each task of TarakoModule is a goroutine that serves one request at a   *)
(* time; its system calls are TarakoModule's actions, in the order of the  *)
(* code, while other handlers, the module loader and reboots go on between *)
(* them.  All handlers run the attester's one executable, and each fills a *)
(* request struct of its own, new for each request: no step reads umem     *)
(* between the request's start and GoFill.                                 *)
(*                                                                         *)
(* A request is the user data that requestBinding makes of it, or Rejected *)
(* if quoteHandler answers it without asking the device.                   *)
(*                                                                         *)
(* A definition named Bug... is the definition after it with one plausible *)
(* coding error in it; no specification uses it.                           *)
(***************************************************************************)
EXTENDS TarakoModule

CONSTANTS Zero,         \* what the user_data of a new request struct holds
          Rejected,     \* wrong method, malformed JSON, nonce or request
          MaxRequests   \* bound on the number of requests for a quote

ASSUME AttesterAssumption ==
    Zero \in UserData /\ Rejected \notin UserData /\ MaxRequests \in Nat

\* What requestBinding makes of a request: a hash, never all zeros.
Bindings == UserData \ {Zero}

VARIABLES stage,    \* where each handler is in tarakoQuote
          input,    \* the binding that it was called with
          got,      \* hash, signature and key in its request struct
          served,   \* number of requests for a quote so far
          answers   \* every quoteResponse sent with status 200

goVars == <<stage, input, got, served, answers>>
allVars == <<vars, goVars>>

SInit == /\ Init
         /\ \E d \in Digests \cup {NoVerity} : exe = [t \in Tasks |-> d]
         /\ umem = [t \in Tasks |-> Zero]
         /\ stage = [t \in Tasks |-> "idle"]
         /\ input = [t \in Tasks |-> None]
         /\ got = [t \in Tasks |-> None]
         /\ served = 0
         /\ answers = {}

GoTo(t, to) == /\ stage' = [stage EXCEPT ![t] = to]
               /\ UNCHANGED <<input, got, served, answers>>

\* The handler has answered and its locals are gone.
Finish(t) == /\ stage' = [stage EXCEPT ![t] = "idle"]
             /\ input' = [input EXCEPT ![t] = None]
             /\ got' = [got EXCEPT ![t] = None]
             /\ UNCHANGED served

-----------------------------------------------------------------------------
(* quoteHandler, then tarakoQuote up to TARAKO_SIGN_DATA                   *)

\* A rejected request is answered with 400 or 405 at once.
quoteHandler(t, r) ==
    /\ stage[t] = "idle"
    /\ IF r = Rejected THEN UNCHANGED goVars
       ELSE /\ served < MaxRequests
            /\ served' = served + 1
            /\ stage' = [stage EXCEPT ![t] = "open"]
            /\ input' = [input EXCEPT ![t] = r]
            /\ UNCHANGED <<got, answers>>
    /\ UNCHANGED vars

GoOpen(t) == stage[t] = "open" /\ Open(t) /\ GoTo(t, "hello")

\* OpenFile fails; it may do so at any time (see Open).
GoOpenFails(t) == /\ stage[t] = "open"
                  /\ Finish(t)
                  /\ UNCHANGED <<vars, answers>>

GoHello(t) == stage[t] = "hello" /\ Hello(t) /\ GoTo(t, "getPubkey")

GoGetPubkey(t) == /\ stage[t] = "getPubkey"
                  /\ GetPubkey(t) \/ NoKeyPair(t)
                  /\ GoTo(t, "pubkey")

\* ... with signingRequest not filled.
BugGoFill(t) == /\ stage[t] = "pubkey" /\ at[t] = "open" /\ ret[t] = "ok"
                /\ GoTo(t, "signData")
                /\ UNCHANGED vars

\* copy(signingRequest.UserData[:], userData)
GoFill(t) == /\ stage[t] = "pubkey" /\ at[t] = "open" /\ ret[t] = "ok"
             /\ WriteBuffer(t, input[t])
             /\ GoTo(t, "signData")

GoSignData(t) == /\ stage[t] = "signData"
                 /\ SignData(t) \/ SignRefused(t) \/ NoKeyPair(t)
                 /\ GoTo(t, "signed")

\* Inside an ioctl.  SignCopyOut fills the caller's struct.
GoIoctl(t) == /\ IoctlStep(t)
              /\ got' = IF at[t] = "signed" /\ ret'[t] = "ok"
                        THEN [got EXCEPT ![t] = sig[t]] ELSE got
              /\ UNCHANGED <<stage, input, served, answers>>

-----------------------------------------------------------------------------
(* The returns of tarakoQuote; the deferred Close runs in each             *)

\* ... with the deferred Close missing.
BugGoFails(t) == /\ stage[t] \in {"pubkey", "signed"} /\ at[t] = "open"
                 /\ ret[t] # "ok"
                 /\ Finish(t)
                 /\ UNCHANGED <<vars, answers>>

\* ... with the call begun again when the device has an error.
BugGoRetry(t) == /\ stage[t] \in {"pubkey", "signed"} /\ at[t] = "open"
                 /\ ret[t] # "ok"
                 /\ Close(t)
                 /\ GoTo(t, "open")

\* An ioctl returned an error: status 500.
GoFails(t) == /\ stage[t] \in {"pubkey", "signed"} /\ at[t] = "open"
              /\ ret[t] # "ok"
              /\ Close(t)
              /\ Finish(t)
              /\ UNCHANGED answers

KeyChanged(t) == got[t].key # pub[t]

\* "TAK public key changed between ioctls", or the quoteResponse.
GoReturn(t) ==
    /\ stage[t] = "signed" /\ at[t] = "open" /\ ret[t] = "ok"
    /\ Close(t)
    /\ Finish(t)
    /\ answers' = IF KeyChanged(t) THEN answers
                  ELSE answers \cup {[input |-> input[t], quote |-> got[t],
                                      public_key |-> pub[t],
                                      user_data |-> umem[t]]}

-----------------------------------------------------------------------------

Handler(t) ==
    \/ GoOpen(t) \/ GoOpenFails(t) \/ GoHello(t) \/ GoGetPubkey(t) \/ GoFill(t)
    \/ GoSignData(t) \/ GoIoctl(t) \/ GoFails(t) \/ GoReturn(t)

Loading == \/ \E k \in Keys : LoadFails(k) \/ \E m \in BOOLEAN : Load(k, m)
           \/ Unload \/ TestModule \/ LockModules \/ LoaderStep

SReboot == /\ Reboot
           /\ stage' = [t \in Tasks |-> "idle"]
           /\ input' = [t \in Tasks |-> None]
           /\ got' = [t \in Tasks |-> None]
           /\ UNCHANGED <<served, answers>>

SNext == \/ \E t \in Tasks :
              \/ Handler(t)
              \/ \E r \in Bindings \cup {Rejected} : quoteHandler(t, r)
         \/ Loading /\ UNCHANGED goVars
         \/ SReboot

\* A handler is a goroutine that only waits in system calls, and these end.
SSpec == /\ SInit /\ [][SNext]_allVars
         /\ WF_allVars(LoaderStep /\ UNCHANGED goVars)
         /\ \A t \in Tasks : WF_allVars(Handler(t))

-----------------------------------------------------------------------------
(* Properties                                                              *)

\* Every quoteResponse answers the request it was made for: the user data it
\* shows is the request's binding and is what was signed, for the attester's
\* own digest, under the public key it shows, which IMA recorded in the boot
\* of the signature; the other handlers' requests, reloads of the module and
\* reboots do not mix into it.
AnswerIsEvidence ==
    \A a \in answers :
        /\ a.quote \in issued
        /\ a.user_data = a.input
        /\ a.quote.user_data = a.input
        /\ a.quote.key = a.public_key
        /\ \A t \in Tasks : a.quote.digest = exe[t]
        /\ <<a.quote.boot, a.public_key>> \in imaLog

\* tarakoQuote's check "TAK public key changed between ioctls" never fails:
\* the open file keeps the module, and with it the key, in place.
KeyNeverChanges ==
    \A t \in Tasks : stage[t] = "signed" /\ at[t] = "open" /\ ret[t] = "ok"
                        => ~KeyChanged(t)

\* A handler that is not serving a request has no file open, whichever error
\* ended its last one: it does not keep the module from being unloaded.
HandlerClosesFile ==
    \A t \in Tasks : stage[t] \in {"idle", "open"} => at[t] = "closed"

\* Every request gets its answer, with or without a quote: each of the ioctls
\* made for it returns, and an error ends the handler.
HandlerAnswers == \A t \in Tasks : stage[t] # "idle" ~> stage[t] = "idle"
==============================================================================
