---------------------------- MODULE RequestBinding ----------------------------
(***************************************************************************)
(* The user data that ties a quote to a request and a nonce, as the        *)
(* attester computes it (attester/main.go, requestBinding) and as the      *)
(* verifier does (test/attestation/verifier.py, make_request_binding).     *)
(* Both hash a domain prefix and the JSON text of the object               *)
(* {"nonce": ..., "request": ...}; the hash is taken to be injective, so   *)
(* a binding is the text.                                                  *)
(*                                                                         *)
(* A request is a sequence of characters, and a character is its class,    *)
(* one for each way the two JSON encoders treat it:                        *)
(*   plain    printable ASCII that both copy                               *)
(*   control  quote, backslash, controls, U+2028 and U+2029, that both     *)
(*            escape alike                                                 *)
(*   html     < > &: Go's json.Marshal escapes them, Python copies them    *)
(*   wide     other non-ASCII and DEL: Python (ensure_ascii) escapes them, *)
(*            Go copies them                                               *)
(***************************************************************************)
EXTENDS Naturals, Sequences

Chars == {"plain", "control", "html", "wide"}

\* Bug...: one coding error in the definition of that name.

\* A character as it appears in the JSON text: itself, and whether escaped.
BugPyChar(c) == <<c, c = "wide">>
GoChar(c) == <<c, c \in {"control", "html"}>>
PyChar(c) == <<c, c \in {"control", "wide"}>>

BugGoBinding(request, nonce) == [nonce |-> nonce, text |-> << >>]

\* json.Marshal(bindingContext{...}), main.go
GoBinding(request, nonce) ==
    [nonce |-> nonce, text |-> [i \in DOMAIN request |-> GoChar(request[i])]]

\* json.dumps({...}, sort_keys=True, separators=(",", ":")), verifier.py
make_request_binding(request, nonce) ==
    [nonce |-> nonce, text |-> [i \in DOMAIN request |-> PyChar(request[i])]]
===============================================================================
