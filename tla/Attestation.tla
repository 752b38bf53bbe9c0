----------------------------- MODULE Attestation -----------------------------
(***************************************************************************)
(* The background-check protocol of the repository: the client             *)
(* (test/attestation/client.py), the verifier service (verifier.py) with   *)
(* its concurrent request threads, and the attester web server             *)
(* (attester/main.go), over HTTP.                                          *)
(*                                                                         *)
(* A request travels on a connection, named by the client and the number   *)
(* of its request; it is handled at most once, perhaps after the client    *)
(* gave up, perhaps never; a response reaches the client only while it     *)
(* waits on that connection.  Beyond that the environment may do           *)
(* MaxEvents of the things the code has to stand: other programs use the   *)
(* device and the services, responses are delivered to the wrong client or *)
(* a second time, the attester reboots, the verifier restarts, the policy  *)
(* is provisioned again.                                                   *)
(*                                                                         *)
(* The device is used through what it promises (QuoteDevice, which         *)
(* TarakoModule implements): a quote is one step, under the key in service.*)
(* Hash and signature are the data they determine; only the device makes   *)
(* the second, only the verifier signs results.                            *)
(*                                                                         *)
(* A definition named Bug... is the definition after it with one plausible *)
(* coding error in it; no specification uses it.                           *)
(***************************************************************************)
EXTENDS Naturals, FiniteSets, RequestBinding

CONSTANTS
    Clients,       \* client processes
    Threads,       \* request threads of the verifier
    Ids,           \* challenge identifiers
    Nonces,        \* what os.urandom(32) may return
    BadNonce,      \* text that is not 32 bytes of hexadecimal
    Requests,      \* application requests, sequences of Chars
    Keys,          \* TAK public keys, a new one for each boot
    Digests,       \* executables that can use the device
    Approved,      \* the ones an operator puts into the policy
    AttesterApp,   \* the executable of the attester service
    Missing,       \* a policy file that does not exist
    None,
    Foreign,       \* a connection of some other program
    MaxAttempts,   \* 5 in request_challenge
    MaxEvents      \* bound on environment events

ASSUME AttestationAssumption ==
    /\ Requests \subseteq Seq(Chars)
    /\ Approved \subseteq Digests
    /\ AttesterApp \in Digests
    /\ BadNonce \notin Nonces
    /\ Missing \notin Digests /\ Missing \notin Keys
    /\ None \notin Ids
    /\ Foreign \notin Clients \X Nat
    /\ MaxAttempts \in Nat \ {0}
    /\ MaxEvents \in Nat

VARIABLES
    \* client.py
    args,          \* args.request of each client
    at,            \* where each client is
    conn,          \* number of requests each client has sent
    challenge,     \* the challenge each client works on
    \* HTTP
    challengeReqs, quoteReqs, verifyReqs,            \* not yet handled
    challengeResps, quoteResps, verifyResps, errors, \* sent
    \* verifier.py
    outstanding,   \* outstanding_challenges
    thread,        \* what each /verify thread is doing
    approvedDigest, trustedTak,   \* the two policy files
    usedIds, usedNonces,          \* random values drawn so far
    \* history of the verifier
    verdicts,      \* how many /verify calls each challenge has decided
    held,          \* the keys in trusted-tak.bin since each thread's pop
    accepted,      \* the evidence that was accepted
    \* attester machine
    tak,           \* the device's key in this boot
    usedKeys,      \* keys of this and earlier boots
    issued,        \* every signature the device ever made
    events         \* environment events so far

clientVars == <<args, at, conn, challenge>>
reqVars == <<challengeReqs, quoteReqs, verifyReqs>>
respVars == <<challengeResps, quoteResps, verifyResps, errors>>
policyVars == <<approvedDigest, trustedTak>>
randomVars == <<usedIds, usedNonces>>
historyVars == <<verdicts, held, accepted>>
verifierVars == <<outstanding, thread, policyVars, randomVars, historyVars>>
attesterVars == <<tak, usedKeys, issued>>
vars == <<clientVars, reqVars, respVars, verifierVars, attesterVars, events>>

Conn(c) == <<c, conn[c]>>
NoChallenge == [challenge_id |-> None, nonce |-> None, request |-> None]
Idle == [at |-> "idle"]

Init ==
    /\ args \in [Clients -> Requests]
    /\ at = [c \in Clients |-> "start"]
    /\ conn = [c \in Clients |-> 0]
    /\ challenge = [c \in Clients |-> NoChallenge]
    /\ challengeReqs = {} /\ quoteReqs = {} /\ verifyReqs = {}
    /\ challengeResps = {} /\ quoteResps = {} /\ verifyResps = {}
    /\ errors = {}
    /\ outstanding = {}
    /\ thread = [w \in Threads |-> Idle]
    /\ approvedDigest \in Approved \cup {Missing}
    /\ tak \in Keys
    /\ trustedTak \in {tak, Missing}
    /\ usedIds = {} /\ usedNonces = {}
    /\ verdicts = [i \in Ids |-> 0]
    /\ held = [w \in Threads |-> {}]
    /\ accepted = {}
    /\ usedKeys = {tak}
    /\ issued = {}
    /\ events = 0

-----------------------------------------------------------------------------
(* client.py                                                               *)

\* ... with the attempt not counted.
BugRequestChallenge(c) ==
    /\ at[c] = "start"
    /\ challengeReqs' = challengeReqs \cup
                        {[conn |-> Conn(c), request |-> args[c]]}
    /\ at' = [at EXCEPT ![c] = "challenge"]
    /\ UNCHANGED <<args, conn, challenge, quoteReqs, verifyReqs, respVars,
                   verifierVars, attesterVars, events>>

\* One attempt of request_challenge.
RequestChallenge(c) ==
    /\ at[c] = "start"
    /\ conn' = [conn EXCEPT ![c] = @ + 1]
    /\ challengeReqs' = challengeReqs \cup
                        {[conn |-> Conn(c)', request |-> args[c]]}
    /\ at' = [at EXCEPT ![c] = "challenge"]
    /\ UNCHANGED <<args, challenge, quoteReqs, verifyReqs, respVars,
                   verifierVars, attesterVars, events>>

\* The attempt failed: sleep and retry, or raise after the last one.
ChallengeFails(c) ==
    /\ at[c] = "challenge"
    /\ at' = [at EXCEPT ![c] = IF conn[c] = MaxAttempts
                               THEN "failed" ELSE "start"]
    /\ UNCHANGED <<args, conn, challenge, reqVars, respVars, verifierVars,
                   attesterVars, events>>

RequestQuote(c) ==
    /\ at[c] = "challenge"
    /\ \E m \in challengeResps :
        /\ m.conn = Conn(c)
        /\ challenge' = [challenge EXCEPT ![c] = m.challenge]
        /\ conn' = [conn EXCEPT ![c] = @ + 1]
        /\ quoteReqs' = quoteReqs \cup
             {[conn |-> Conn(c)', nonce |-> m.challenge.nonce,
               request |-> m.challenge.request]}
    /\ at' = [at EXCEPT ![c] = "quote"]
    /\ UNCHANGED <<args, challengeReqs, verifyReqs, respVars, verifierVars,
                   attesterVars, events>>

RequestVerify(c) ==
    /\ at[c] = "quote"
    /\ \E m \in quoteResps :
        /\ m.conn = Conn(c)
        /\ conn' = [conn EXCEPT ![c] = @ + 1]
        /\ verifyReqs' = verifyReqs \cup
             {[conn |-> Conn(c)', challenge |-> challenge[c], tq |-> m.tq]}
    /\ at' = [at EXCEPT ![c] = "verify"]
    /\ UNCHANGED <<args, challenge, challengeReqs, quoteReqs, respVars,
                   verifierVars, attesterVars, events>>

\* ... with only the request compared.
BugAccepts(c, result) == result.challenge.request = args[c]

\* The result's certificate and signature are good (verifyResps holds only
\* signed results) and it answers this challenge and this request.
Accepts(c, result) ==
    /\ result.challenge.challenge_id = challenge[c].challenge_id
    /\ result.challenge.nonce = challenge[c].nonce
    /\ result.challenge.request = args[c]

ReceiveResult(c) ==
    /\ at[c] = "verify"
    /\ \E m \in verifyResps :
        /\ m.conn = Conn(c)
        /\ at' = [at EXCEPT ![c] = IF Accepts(c, m.result)
                                   THEN "accepted" ELSE "failed"]
    /\ UNCHANGED <<args, conn, challenge, reqVars, respVars, verifierVars,
                   attesterVars, events>>

\* A timeout, an HTTP error or a bad signature ends the client.
QuoteOrVerifyFails(c) ==
    /\ at[c] \in {"quote", "verify"}
    /\ at' = [at EXCEPT ![c] = "failed"]
    /\ UNCHANGED <<args, conn, challenge, reqVars, respVars, verifierVars,
                   attesterVars, events>>

-----------------------------------------------------------------------------
(* attester/main.go: quoteHandler                                          *)

TQ(q) == [user_data |-> q.user_data, public_key |-> q.key,
          hash |-> <<q.digest, q.user_data>>, signature |-> q]

Quote(d, u) == [key |-> tak, digest |-> d, user_data |-> u]

\* requestBinding's checks.
Bindable(m) == m.nonce # BadNonce /\ m.request # << >>

QuoteHandler(m) ==
    /\ m \in quoteReqs
    /\ Bindable(m)
    /\ quoteReqs' = quoteReqs \ {m}
    /\ LET q == Quote(AttesterApp, GoBinding(m.request, m.nonce))
       IN  /\ issued' = issued \cup {q}
           /\ quoteResps' = quoteResps \cup
                {[conn |-> m.conn, nonce |-> m.nonce, request |-> m.request,
                  tq |-> TQ(q)]}
    /\ UNCHANGED <<clientVars, challengeReqs, verifyReqs, challengeResps,
                   verifyResps, errors, verifierVars, tak, usedKeys, events>>

\* 400 for a request that cannot be bound.
QuoteBadRequest(m) ==
    /\ m \in quoteReqs
    /\ ~Bindable(m)
    /\ quoteReqs' = quoteReqs \ {m}
    /\ errors' = errors \cup {m.conn}
    /\ UNCHANGED <<clientVars, challengeReqs, verifyReqs, challengeResps,
                   quoteResps, verifyResps, verifierVars, attesterVars, events>>

\* 500: the device could not be opened, or an ioctl failed.
QuoteFails(m) ==
    /\ m \in quoteReqs
    /\ Bindable(m)
    /\ quoteReqs' = quoteReqs \ {m}
    /\ errors' = errors \cup {m.conn}
    /\ UNCHANGED <<clientVars, challengeReqs, verifyReqs, challengeResps,
                   quoteResps, verifyResps, verifierVars, attesterVars, events>>

-----------------------------------------------------------------------------
(* verifier.py: challenge()                                                *)

ChallengeHandler(m, i, n) ==
    /\ m \in challengeReqs
    /\ m.request # << >>
    /\ i \notin usedIds /\ n \notin usedNonces
    /\ usedIds' = usedIds \cup {i}
    /\ usedNonces' = usedNonces \cup {n}
    /\ challengeReqs' = challengeReqs \ {m}
    /\ LET ch == [challenge_id |-> i, nonce |-> n, request |-> m.request]
       IN  /\ outstanding' = outstanding \cup {ch}
           /\ challengeResps' = challengeResps \cup
                                {[conn |-> m.conn, challenge |-> ch]}
    /\ UNCHANGED <<clientVars, quoteReqs, verifyReqs, quoteResps, verifyResps,
                   errors, thread, policyVars, historyVars, attesterVars, events>>

\* 400: json_request_value refuses an empty request.
ChallengeBadRequest(m) ==
    /\ m \in challengeReqs
    /\ m.request = << >>
    /\ challengeReqs' = challengeReqs \ {m}
    /\ errors' = errors \cup {m.conn}
    /\ UNCHANGED <<clientVars, quoteReqs, verifyReqs, challengeResps,
                   quoteResps, verifyResps, verifierVars, attesterVars, events>>

-----------------------------------------------------------------------------
(* verifier.py: verify(), one thread per request                           *)

\* Taking the entry without removing it, as get() instead of pop() would.
BugConsume(m, w, e) ==
    /\ m \in verifyReqs
    /\ thread[w] = Idle
    /\ e \in outstanding
    /\ e.challenge_id = m.challenge.challenge_id
    /\ verifyReqs' = verifyReqs \ {m}
    /\ thread' = [thread EXCEPT ![w] =
                    [at |-> "consumed", expected |-> e, body |-> m]]
    /\ held' = [held EXCEPT ![w] = {trustedTak} \ {Missing}]
    /\ UNCHANGED <<clientVars, challengeReqs, quoteReqs, respVars, outstanding,
                   policyVars, randomVars, verdicts, accepted, attesterVars,
                   events>>

\* The pop under challenge_lock.
Consume(m, w, e) ==
    /\ m \in verifyReqs
    /\ thread[w] = Idle
    /\ e \in outstanding
    /\ e.challenge_id = m.challenge.challenge_id
    /\ verifyReqs' = verifyReqs \ {m}
    /\ outstanding' = outstanding \ {e}
    /\ thread' = [thread EXCEPT ![w] =
                    [at |-> "consumed", expected |-> e, body |-> m]]
    /\ held' = [held EXCEPT ![w] = {trustedTak} \ {Missing}]
    /\ UNCHANGED <<clientVars, challengeReqs, quoteReqs, respVars, policyVars,
                   randomVars, verdicts, accepted, attesterVars, events>>

\* 409: unknown or consumed challenge.
UnknownChallenge(m) ==
    /\ m \in verifyReqs
    /\ \A e \in outstanding : e.challenge_id # m.challenge.challenge_id
    /\ verifyReqs' = verifyReqs \ {m}
    /\ errors' = errors \cup {m.conn}
    /\ UNCHANGED <<clientVars, challengeReqs, quoteReqs, challengeResps,
                   quoteResps, verifyResps, verifierVars, attesterVars, events>>

\* The thread has decided its challenge.
Decide(w) ==
    /\ thread' = [thread EXCEPT ![w] = Idle]
    /\ verdicts' = [verdicts EXCEPT ![thread[w].expected.challenge_id] = @ + 1]
    /\ held' = [held EXCEPT ![w] = {}]
    /\ UNCHANGED <<clientVars, reqVars, challengeResps, quoteResps,
                   outstanding, policyVars, randomVars, attesterVars, events>>

\* 400: any exception.
Reject(w) == /\ errors' = errors \cup {thread[w].body.conn}
             /\ UNCHANGED <<verifyResps, accepted>>
             /\ Decide(w)

\* body.request and body.nonce are those of the challenge.
AnswersChallenge(w) ==
    /\ thread[w].body.challenge.request = thread[w].expected.request
    /\ thread[w].body.challenge.nonce = thread[w].expected.nonce

WrongChallenge(w) == /\ thread[w].at = "consumed"
                     /\ ~AnswersChallenge(w)
                     /\ Reject(w)

\* load_appraisal_policy reads approved-digest and then trusted-tak.bin; a
\* missing or malformed file raises.
LoadDigest(w) ==
    /\ thread[w].at = "consumed"
    /\ AnswersChallenge(w)
    /\ approvedDigest # Missing
    /\ thread' = [thread EXCEPT ![w] =
                    [at |-> "digest", expected |-> thread[w].expected,
                     body |-> thread[w].body, digest |-> approvedDigest]]
    /\ UNCHANGED <<clientVars, reqVars, respVars, outstanding, policyVars,
                   randomVars, historyVars, attesterVars, events>>

NoDigest(w) == /\ thread[w].at = "consumed"
               /\ AnswersChallenge(w)
               /\ approvedDigest = Missing
               /\ Reject(w)

LoadTak(w) ==
    /\ thread[w].at = "digest"
    /\ trustedTak # Missing
    /\ thread' = [thread EXCEPT ![w] =
                    [at |-> "policy", expected |-> thread[w].expected,
                     body |-> thread[w].body, digest |-> thread[w].digest,
                     key |-> trustedTak]]
    /\ UNCHANGED <<clientVars, reqVars, respVars, outstanding, policyVars,
                   randomVars, historyVars, attesterVars, events>>

NoTak(w) == /\ thread[w].at = "digest"
            /\ trustedTak = Missing
            /\ Reject(w)

\* ... with the user data taken from the quote instead of the binding.
Bugverify_tarako_quote(tq, binding, digest, key) ==
    /\ tq.public_key = key
    /\ tq.hash = <<digest, tq.user_data>>
    /\ tq.signature = [key |-> key, digest |-> digest,
                       user_data |-> tq.user_data]

verify_tarako_quote(tq, binding, digest, key) ==
    /\ tq.user_data = binding
    /\ tq.public_key = key
    /\ tq.hash = <<digest, binding>>
    /\ tq.signature = [key |-> key, digest |-> digest, user_data |-> binding]

Expected(w) ==
    make_request_binding(thread[w].expected.request, thread[w].expected.nonce)

\* ... with the key taken from the quote.
BugGenuine(w) ==
    verify_tarako_quote(thread[w].body.tq, Expected(w), thread[w].digest,
                        thread[w].body.tq.public_key)

Genuine(w) == verify_tarako_quote(thread[w].body.tq, Expected(w),
                                  thread[w].digest, thread[w].key)

Accept(w) ==
    /\ thread[w].at = "policy"
    /\ Genuine(w)
    /\ verifyResps' = verifyResps \cup
         {[conn |-> thread[w].body.conn,
           result |-> [challenge |-> thread[w].expected,
                       digest |-> thread[w].digest,
                       request_binding |-> Expected(w)]]}
    /\ accepted' = accepted \cup
         {[challenge |-> thread[w].expected,
           signature |-> thread[w].body.tq.signature, keys |-> held[w]]}
    /\ errors' = errors
    /\ Decide(w)

BadQuote(w) == /\ thread[w].at = "policy"
               /\ ~Genuine(w)
               /\ Reject(w)

-----------------------------------------------------------------------------
(* The environment, MaxEvents times                                        *)

Event == events < MaxEvents /\ events' = events + 1

\* Another program, or the attester's own `quote` command, has the device sign
\* user data that may well be a binding it has seen.
LocalQuote(d, u) ==
    /\ Event
    /\ issued' = issued \cup {Quote(d, u)}
    /\ UNCHANGED <<clientVars, reqVars, respVars, verifierVars, tak, usedKeys>>

ForeignChallenge(r) ==
    /\ Event
    /\ challengeReqs' = challengeReqs \cup {[conn |-> Foreign, request |-> r]}
    /\ UNCHANGED <<clientVars, quoteReqs, verifyReqs, respVars, verifierVars,
                   attesterVars>>

ForeignQuote(n, r) ==
    /\ Event
    /\ quoteReqs' = quoteReqs \cup
                    {[conn |-> Foreign, nonce |-> n, request |-> r]}
    /\ UNCHANGED <<clientVars, challengeReqs, verifyReqs, respVars,
                   verifierVars, attesterVars>>

\* Evidence put together from parts of different quotes and challenges.
ForeignVerify(i, n, r, q, s) ==
    /\ Event
    /\ verifyReqs' = verifyReqs \cup
         {[conn |-> Foreign,
           challenge |-> [challenge_id |-> i, nonce |-> n, request |-> r],
           tq |-> [TQ(q) EXCEPT !.signature = s]]}
    /\ UNCHANGED <<clientVars, challengeReqs, quoteReqs, respVars,
                   verifierVars, attesterVars>>

\* A response reaches a client it was not meant for, or an old one comes again.
Misdeliver(c) ==
    /\ Event
    /\ \/ \E m \in challengeResps :
            /\ challengeResps' = challengeResps \cup
                                 {[m EXCEPT !.conn = Conn(c)]}
            /\ UNCHANGED <<quoteResps, verifyResps>>
       \/ \E m \in quoteResps :
            /\ quoteResps' = quoteResps \cup {[m EXCEPT !.conn = Conn(c)]}
            /\ UNCHANGED <<challengeResps, verifyResps>>
       \/ \E m \in verifyResps :
            /\ verifyResps' = verifyResps \cup {[m EXCEPT !.conn = Conn(c)]}
            /\ UNCHANGED <<challengeResps, quoteResps>>
    /\ UNCHANGED <<clientVars, reqVars, errors, verifierVars, attesterVars>>

RebootAttester(k) ==
    /\ Event
    /\ k \notin usedKeys
    /\ tak' = k
    /\ usedKeys' = usedKeys \cup {k}
    /\ quoteReqs' = {}
    /\ UNCHANGED <<clientVars, challengeReqs, verifyReqs, respVars,
                   verifierVars, issued>>

\* outstanding_challenges and the threads live in the process only.
RestartVerifier ==
    /\ Event
    /\ outstanding' = {}
    /\ thread' = [w \in Threads |-> Idle]
    /\ held' = [w \in Threads |-> {}]
    /\ challengeReqs' = {} /\ verifyReqs' = {}
    /\ UNCHANGED <<clientVars, quoteReqs, respVars, policyVars, randomVars,
                   verdicts, accepted, attesterVars>>

\* The operator writes one of the two files (Missing: caught half written).
ProvisionTak ==
    /\ Event
    /\ trustedTak' \in {tak, Missing}
    /\ held' = [w \in Threads |->
                  IF thread[w] = Idle THEN {}
                  ELSE held[w] \cup ({trustedTak'} \ {Missing})]
    /\ UNCHANGED <<clientVars, reqVars, respVars, outstanding, thread,
                   approvedDigest, randomVars, verdicts, accepted,
                   attesterVars>>

ProvisionDigest ==
    /\ Event
    /\ approvedDigest' \in Approved \cup {Missing}
    /\ UNCHANGED <<clientVars, reqVars, respVars, outstanding, thread,
                   trustedTak, randomVars, historyVars, attesterVars>>

-----------------------------------------------------------------------------
ClientReceives(c) == RequestQuote(c) \/ RequestVerify(c) \/ ReceiveResult(c)
ClientFails(c) == ChallengeFails(c) \/ QuoteOrVerifyFails(c)

AttesterStep == \E m \in quoteReqs : QuoteHandler(m) \/ QuoteBadRequest(m)

ThreadStep(w) == \/ WrongChallenge(w) \/ LoadDigest(w) \/ NoDigest(w)
                 \/ LoadTak(w) \/ NoTak(w) \/ Accept(w) \/ BadQuote(w)

VerifierStep ==
    \/ \E m \in challengeReqs, i \in Ids, n \in Nonces :
         ChallengeHandler(m, i, n)
    \/ \E m \in challengeReqs : ChallengeBadRequest(m)
    \/ \E m \in verifyReqs :
         \/ UnknownChallenge(m)
         \/ \E w \in Threads, e \in outstanding : Consume(m, w, e)
    \/ \E w \in Threads : ThreadStep(w)

Environment ==
    \/ \E d \in Digests, r \in Requests, n \in usedNonces :
         \/ LocalQuote(d, GoBinding(r, n))
         \/ LocalQuote(d, make_request_binding(r, n))
    \/ \E r \in Requests : ForeignChallenge(r)
    \/ \E n \in usedNonces \cup {BadNonce}, r \in Requests : ForeignQuote(n, r)
    \/ \E i \in usedIds, n \in usedNonces, r \in Requests, q, s \in issued :
         ForeignVerify(i, n, r, q, s)
    \/ \E c \in Clients : Misdeliver(c)
    \/ \E k \in Keys : RebootAttester(k)
    \/ RestartVerifier \/ ProvisionTak \/ ProvisionDigest

Next ==
    \/ \E c \in Clients :
         RequestChallenge(c) \/ ClientReceives(c) \/ ClientFails(c)
    \/ AttesterStep
    \/ \E m \in quoteReqs : QuoteFails(m)
    \/ VerifierStep
    \/ Environment

\* The client's own steps are bounded by its timeouts and its sleep.
Spec == /\ Init /\ [][Next]_vars
        /\ \A c \in Clients :
             /\ WF_vars(RequestChallenge(c))
             /\ WF_vars(ClientReceives(c) \/ ClientFails(c))

\* The services answer before any timeout, nothing fails, nobody interferes,
\* and the policy has been provisioned.
GoodInit == Init /\ approvedDigest = AttesterApp /\ trustedTak = tak

GoodNext ==
    \/ \E c \in Clients : \/ RequestChallenge(c) \/ ClientReceives(c)
                          \/ Conn(c) \in errors /\ ClientFails(c)
    \/ AttesterStep
    \/ VerifierStep

GoodSpec == GoodInit /\ [][GoodNext]_vars /\ WF_vars(GoodNext)

-----------------------------------------------------------------------------
(* Properties                                                              *)

ConnSet == (Clients \X Nat) \cup {Foreign}
ChallengeSet == [challenge_id : Ids, nonce : Nonces, request : Requests]
Bindings == {GoBinding(r, n) : r \in Requests, n \in Nonces} \cup
            {make_request_binding(r, n) : r \in Requests, n \in Nonces}
QuoteSet == [key : Keys, digest : Digests, user_data : Bindings]
TQSet == [user_data : Bindings, public_key : Keys, hash : Digests \X Bindings,
          signature : QuoteSet]
ChallengeReqSet == [conn : ConnSet, request : Requests]
QuoteReqSet ==
    [conn : ConnSet, nonce : Nonces \cup {BadNonce}, request : Requests]
VerifyReqSet == [conn : ConnSet, challenge : ChallengeSet, tq : TQSet]
ResultSet ==
    [challenge : ChallengeSet, digest : Digests, request_binding : Bindings]
ThreadSet ==
    {Idle} \cup
    [at : {"consumed"}, expected : ChallengeSet, body : VerifyReqSet] \cup
    [at : {"digest"}, expected : ChallengeSet, body : VerifyReqSet,
     digest : Digests] \cup
    [at : {"policy"}, expected : ChallengeSet, body : VerifyReqSet,
     digest : Digests, key : Keys]
EvidenceSet ==
    [challenge : ChallengeSet, signature : QuoteSet, keys : SUBSET Keys]

\* Every variable keeps its type; a client past its challenge request works
\* on a challenge.
TypeOK ==
    /\ args \in [Clients -> Requests]
    /\ at \in [Clients -> {"start", "challenge", "quote", "verify",
                           "accepted", "failed"}]
    /\ conn \in [Clients -> Nat]
    /\ challenge \in [Clients -> ChallengeSet \cup {NoChallenge}]
    /\ \A c \in Clients : at[c] \in {"quote", "verify", "accepted"} =>
                              challenge[c] \in ChallengeSet
    /\ \A m \in challengeReqs : m \in ChallengeReqSet
    /\ \A m \in quoteReqs : m \in QuoteReqSet
    /\ \A m \in verifyReqs : m \in VerifyReqSet
    /\ \A m \in challengeResps :
         m \in [conn : ConnSet, challenge : ChallengeSet]
    /\ \A m \in quoteResps :
         m \in [conn : ConnSet, nonce : Nonces, request : Requests, tq : TQSet]
    /\ \A m \in verifyResps : m \in [conn : ConnSet, result : ResultSet]
    /\ \A m \in errors : m \in ConnSet
    /\ outstanding \subseteq ChallengeSet
    /\ thread \in [Threads -> ThreadSet]
    /\ approvedDigest \in Approved \cup {Missing}
    /\ trustedTak \in usedKeys \cup {Missing}
    /\ usedIds \subseteq Ids /\ usedNonces \subseteq Nonces
    /\ verdicts \in [Ids -> Nat]
    /\ held \in [Threads -> SUBSET Keys]
    /\ \A a \in accepted : a \in EvidenceSet
    /\ tak \in usedKeys
    /\ usedKeys \subseteq Keys
    /\ issued \subseteq QuoteSet
    /\ events \in 0..MaxEvents

\* "each challenge can produce at most one Attestation Result, including
\* after failed Evidence" (verifier.py:113-114), with concurrent threads,
\* repeated submissions and restarts of the service; the types are kept.
OneVerdictPerChallenge == TypeOK /\ \A i \in Ids : verdicts[i] <= 1

\* A signature made by an approved executable for this challenge and request.
Attested(ch, digest) ==
    /\ digest \in Approved
    /\ \E q \in issued :
         /\ q.digest = digest
         /\ q.key \in usedKeys
         /\ q.user_data = make_request_binding(ch.request, ch.nonce)

\* A signed result names a challenge the verifier issued and an approved
\* executable that had the device sign that challenge's own binding, however
\* evidence was mixed, replayed or delayed on the way.
ResultIsAttested ==
    \A m \in verifyResps :
        /\ \E x \in challengeResps : x.challenge = m.result.challenge
        /\ Attested(m.result.challenge, m.result.digest)

\* No signature is accepted for two challenges, whoever submits it again and
\* however long after: "identical requests are bound to distinct nonces"
\* (test.py:197-200), and the verifier accepts a signature only for its own.
EvidenceUsedOnce ==
    \A a, b \in accepted : a.signature = b.signature =>
                             a.challenge = b.challenge

\* When client.py prints a result, an approved executable signed for the
\* client's own request and the nonce the client relayed, and the verifier
\* had issued that challenge for that request, even if responses of other
\* sessions were delivered to it.
AcceptedIsAttested ==
    \A c \in Clients : at[c] = "accepted" =>
        /\ challenge[c].request = args[c]
        /\ \E m \in verifyResps : /\ m.result.challenge = challenge[c]
                                  /\ Attested(challenge[c], m.result.digest)

\* Accepted evidence is signed by a key that trusted-tak.bin held at some time
\* between the pop of the challenge and the verdict: a thread may still use a
\* key that was replaced after it read the file, but never one that was gone
\* before the challenge was taken up, as after a reboot of the attester.
EvidenceUnderTrustedKey == \A a \in accepted : a.signature.key \in a.keys

\* TestRequestBindingMatchesVerifierProfile (attester/main_test.go:10): the
\* binding the attester signs is the one the verifier expects, so a thread
\* never turns down what quoteHandler made for exactly its challenge, by the
\* approved executable under the trusted key.
GenuineEvidenceAccepted ==
    \A w \in Threads, m \in quoteResps :
        /\ thread[w].at = "policy"
        /\ thread[w].digest = AttesterApp
        /\ thread[w].body.tq = m.tq
        /\ m.tq.public_key = thread[w].key
        /\ m.nonce = thread[w].expected.nonce
        /\ m.request = thread[w].expected.request
        => Genuine(w)

\* A client that was started comes to an end: five attempts, then timeouts.
ClientsFinish == \A c \in Clients : <>(at[c] \in {"accepted", "failed"})

\* When nothing fails, every client gets its result accepted, however the
\* clients and the verifier's threads interleave; only an empty request, which
\* challenge() refuses at each attempt, does not.
ClientsAccepted ==
    \A c \in Clients : args[c] # << >> => <>(at[c] = "accepted")
==============================================================================
