-------------------------- MODULE AttestationTypes --------------------------
(***************************************************************************)
(* Proofs about RequestBinding and Attestation: when the two bindings of a *)
(* request agree, which steps change which variables, and that every step  *)
(* keeps the types.  AttestationProofs builds on them.                     *)
(***************************************************************************)
EXTENDS Attestation, TLAPS

-----------------------------------------------------------------------------
(* Bindings                                                                *)

\* The attester and the verifier compute the same binding of a request exactly
\* when it has no character that only one of the two JSON encoders escapes
\* (requestBinding of main.go, make_request_binding of verifier.py).
THEOREM BindingsAgree ==
    ASSUME NEW r \in Seq(Chars), NEW n
    PROVE  GoBinding(r, n) = make_request_binding(r, n)
             <=> \A i \in DOMAIN r : r[i] \in {"plain", "control"}
<1>1. ASSUME NEW c \in Chars
      PROVE  GoChar(c) = PyChar(c) <=> c \in {"plain", "control"}
  BY DEF Chars, GoChar, PyChar
<1>2. \A i \in DOMAIN r : r[i] \in Chars
  OBVIOUS
<1> DEFINE go == [i \in DOMAIN r |-> GoChar(r[i])]
           py == [i \in DOMAIN r |-> PyChar(r[i])]
<1>3. GoBinding(r, n) = make_request_binding(r, n) <=> go = py
  BY DEF GoBinding, make_request_binding
<1>4. go = py <=> \A i \in DOMAIN r : GoChar(r[i]) = PyChar(r[i])
  <2>1. ASSUME go = py, NEW i \in DOMAIN r PROVE GoChar(r[i]) = PyChar(r[i])
    <3>1. go[i] = py[i]
      BY <2>1
    <3> QED BY <3>1
  <2> QED BY <2>1
<1> HIDE DEF go, py
<1> QED BY <1>1, <1>2, <1>3, <1>4

\* A binding names its nonce.
LEMMA BindingNonce ==
    ASSUME NEW r, NEW n
    PROVE  make_request_binding(r, n).nonce = n
BY DEF make_request_binding

\* Both sides' bindings of requests and nonces are among Bindings.
LEMMA BindingType ==
    ASSUME NEW r \in Requests, NEW n \in Nonces
    PROVE  GoBinding(r, n) \in Bindings /\ make_request_binding(r, n) \in Bindings
BY DEF Bindings

-----------------------------------------------------------------------------
(* Who writes what                                                         *)

ClientStep == \E c \in Clients :
                 RequestChallenge(c) \/ ClientReceives(c) \/ ClientFails(c)
IssueStep == \E m \in challengeReqs, i \in Ids, n \in Nonces :
                 ChallengeHandler(m, i, n)
ConsumeStep == \E m \in verifyReqs, w \in Threads, e \in outstanding :
                 Consume(m, w, e)
AnyThreadStep == \E w \in Threads : ThreadStep(w)
AcceptStep == \E w \in Threads : Accept(w)
QuoteStep == \E m \in quoteReqs : QuoteHandler(m)
LocalQuoteStep == \E d \in Digests, r \in Requests, n \in usedNonces :
                    \/ LocalQuote(d, GoBinding(r, n))
                    \/ LocalQuote(d, make_request_binding(r, n))
MisdeliverStep == \E c \in Clients : Misdeliver(c)
ForeignChallengeStep == \E r \in Requests : ForeignChallenge(r)
ForeignQuoteStep == \E n \in usedNonces \cup {BadNonce}, r \in Requests :
                      ForeignQuote(n, r)
ForeignVerifyStep ==
    \E i \in usedIds, n \in usedNonces, r \in Requests, q, s \in issued :
         ForeignVerify(i, n, r, q, s)
RebootStep == \E k \in Keys : RebootAttester(k)

\* For each group of variables, the steps that change it; a request is added
\* only by who sends it.
Footprint ==
    /\ UNCHANGED clientVars \/ ClientStep
    /\ challengeReqs' \subseteq challengeReqs \/ ClientStep \/ ForeignChallengeStep
    /\ quoteReqs' \subseteq quoteReqs \/ ClientStep \/ ForeignQuoteStep
    /\ verifyReqs' \subseteq verifyReqs \/ ClientStep \/ ForeignVerifyStep
    /\ UNCHANGED challengeResps \/ IssueStep \/ MisdeliverStep
    /\ UNCHANGED quoteResps \/ QuoteStep \/ MisdeliverStep
    /\ UNCHANGED verifyResps \/ AcceptStep \/ MisdeliverStep
    /\ UNCHANGED randomVars \/ IssueStep
    /\ \/ UNCHANGED <<outstanding, thread, verdicts>>
       \/ IssueStep \/ ConsumeStep \/ AnyThreadStep \/ RestartVerifier
    /\ \/ UNCHANGED held
       \/ ConsumeStep \/ AnyThreadStep \/ RestartVerifier \/ ProvisionTak
    /\ UNCHANGED accepted \/ AcceptStep
    /\ UNCHANGED issued \/ QuoteStep \/ LocalQuoteStep
    /\ UNCHANGED <<tak, usedKeys>> \/ RebootStep
    /\ UNCHANGED policyVars \/ ProvisionTak \/ ProvisionDigest
    /\ UNCHANGED events \/ Event

\* Every step keeps to its footprint.
LEMMA Footprints == Next => Footprint
<1> SUFFICES ASSUME Next PROVE Footprint
  BY ZenonT(60)
<1> USE DEF Footprint, reqVars, respVars, verifierVars, historyVars,
            attesterVars
<1>1. CASE ClientStep
  <2> PICK c \in Clients : \/ RequestChallenge(c) \/ ClientReceives(c)
                           \/ ClientFails(c)
    BY <1>1, Zenon DEF ClientStep
  <2> QED BY <1>1 DEF RequestChallenge, ClientReceives, ClientFails, RequestQuote,
             RequestVerify, ReceiveResult, ChallengeFails, QuoteOrVerifyFails
<1>2. CASE \E m \in quoteReqs : \/ QuoteHandler(m) \/ QuoteBadRequest(m)
                                \/ QuoteFails(m)
  BY <1>2, Zenon DEF QuoteStep, QuoteHandler, QuoteBadRequest, QuoteFails
<1>3. CASE IssueStep
  BY <1>3, ZenonT(60) DEF IssueStep, ChallengeHandler
<1>4. CASE \E m \in challengeReqs : ChallengeBadRequest(m)
  BY <1>4 DEF ChallengeBadRequest
<1>5. CASE \E m \in verifyReqs : UnknownChallenge(m)
  BY <1>5, Zenon DEF UnknownChallenge
<1>6. CASE ConsumeStep
  BY <1>6, Zenon DEF ConsumeStep, Consume
<1>7. CASE AnyThreadStep
  BY <1>7, Zenon
     DEF AnyThreadStep, ThreadStep, WrongChallenge, LoadDigest, NoDigest,
         LoadTak, NoTak, Accept, BadQuote, Reject, Decide, AcceptStep
<1>8. CASE LocalQuoteStep
  BY <1>8, Zenon DEF LocalQuoteStep, LocalQuote
<1>9. CASE ForeignChallengeStep
  BY <1>9 DEF ForeignChallengeStep, ForeignChallenge
<1>10. CASE ForeignQuoteStep
  BY <1>10 DEF ForeignQuoteStep, ForeignQuote
<1>11. CASE ForeignVerifyStep
  BY <1>11 DEF ForeignVerifyStep, ForeignVerify
<1>12. CASE MisdeliverStep
  BY <1>12 DEF MisdeliverStep, Misdeliver
<1>13. CASE RebootStep
  BY <1>13 DEF RebootStep, RebootAttester
<1>14. CASE RestartVerifier
  BY <1>14, Zenon DEF RestartVerifier
<1>15. CASE ProvisionTak \/ ProvisionDigest
  BY <1>15 DEF ProvisionTak, ProvisionDigest, policyVars
<1> QED BY <1>1, <1>2, <1>3, <1>4, <1>5, <1>6, <1>7, <1>8, <1>9, <1>10, <1>11,
           <1>12, <1>13, <1>14, <1>15, Zenon
        DEF Next, AttesterStep, VerifierStep, Environment, ClientStep,
            IssueStep, ConsumeStep, AnyThreadStep, LocalQuoteStep,
            ForeignChallengeStep, ForeignQuoteStep, ForeignVerifyStep,
            MisdeliverStep, RebootStep

-----------------------------------------------------------------------------
(* Types                                                                   *)

Busy(w) == thread[w].at # "idle"

\* What a busy thread holds.
LEMMA ThreadTypes ==
    ASSUME TypeOK, NEW w \in Threads
    PROVE  /\ thread[w].at \in {"idle", "consumed", "digest", "policy"}
           /\ thread[w].at = "idle" <=> thread[w] = Idle
           /\ Busy(w) => /\ thread[w].expected \in ChallengeSet
                         /\ thread[w].body \in VerifyReqSet
           /\ thread[w].at \in {"digest", "policy"} =>
                  thread[w].digest \in Digests
           /\ thread[w].at = "policy" => thread[w].key \in Keys
<1>1. thread[w] \in ThreadSet
  BY DEF TypeOK
<1>2. CASE thread[w] = Idle
  BY <1>2 DEF Idle, Busy
<1>3. CASE thread[w] \in [at : {"consumed"}, expected : ChallengeSet,
                          body : VerifyReqSet]
  <2>1. /\ thread[w].at = "consumed" /\ thread[w].expected \in ChallengeSet
        /\ thread[w].body \in VerifyReqSet
    BY <1>3
  <2>2. thread[w] # Idle
    BY <2>1 DEF Idle
  <2> QED BY <2>1, <2>2
<1>4. CASE thread[w] \in [at : {"digest"}, expected : ChallengeSet,
                          body : VerifyReqSet, digest : Digests]
  <2>1. /\ thread[w].at = "digest" /\ thread[w].expected \in ChallengeSet
        /\ thread[w].body \in VerifyReqSet /\ thread[w].digest \in Digests
    BY <1>4
  <2>2. thread[w] # Idle
    BY <2>1 DEF Idle
  <2> QED BY <2>1, <2>2
<1>5. CASE thread[w] \in [at : {"policy"}, expected : ChallengeSet,
                          body : VerifyReqSet, digest : Digests, key : Keys]
  <2>1. /\ thread[w].at = "policy" /\ thread[w].expected \in ChallengeSet
        /\ thread[w].body \in VerifyReqSet /\ thread[w].digest \in Digests
        /\ thread[w].key \in Keys
    BY <1>5
  <2>2. thread[w] # Idle
    BY <2>1 DEF Idle
  <2> QED BY <2>1, <2>2
<1> QED BY <1>1, <1>2, <1>3, <1>4, <1>5 DEF ThreadSet

\* The client's variables keep their types, and so does what it sends.
LEMMA ClientTypes ==
    ASSUME TypeOK, ClientStep
    PROVE  TypeOK'
<1> PICK c \in Clients : \/ RequestChallenge(c) \/ ClientReceives(c)
                         \/ ClientFails(c)
  BY DEF ClientStep
<1>0. /\ args[c] \in Requests /\ conn[c] + 1 \in Nat
      /\ Conn(c) \in ConnSet
      /\ DOMAIN conn = Clients
  BY DEF TypeOK, ConnSet, Conn
<1>1. ASSUME conn' = [conn EXCEPT ![c] = @ + 1]
      PROVE  Conn(c)' \in ConnSet /\ conn' \in [Clients -> Nat]
  BY <1>0, <1>1, Zenon DEF TypeOK, ConnSet, Conn
<1>2. CASE RequestChallenge(c)
  <2>1. [conn |-> Conn(c)', request |-> args[c]] \in ChallengeReqSet
    BY <1>0, <1>1, <1>2, Zenon DEF RequestChallenge, ChallengeReqSet
  <2>2. conn' \in [Clients -> Nat]
    BY <1>1, <1>2, Zenon DEF RequestChallenge
  <2>3. \A m \in challengeReqs' : m \in ChallengeReqSet
    BY <1>2, <2>1, Zenon DEF RequestChallenge, TypeOK
  <2> QED BY <1>2, <2>2, <2>3, Zenon
          DEF RequestChallenge, TypeOK, respVars, verifierVars,
              historyVars, policyVars, randomVars, attesterVars
<1>3. CASE ClientFails(c)
  <2>1. at' \in [Clients -> {"start", "challenge", "quote", "verify",
                             "accepted", "failed"}]
    BY <1>3, Zenon DEF ClientFails, ChallengeFails, QuoteOrVerifyFails, TypeOK
  <2>2. \A d \in Clients : at'[d] \in {"quote", "verify", "accepted"} =>
                               at'[d] = at[d]
    BY <1>3 DEF ClientFails, ChallengeFails, QuoteOrVerifyFails, TypeOK
  <2>3. UNCHANGED <<args, conn, challenge, reqVars, respVars, verifierVars,
                    attesterVars, events>>
    BY <1>3, Zenon DEF ClientFails, ChallengeFails, QuoteOrVerifyFails
  <2> QED BY <2>1, <2>2, <2>3, Zenon
          DEF TypeOK, reqVars, respVars, verifierVars,
              historyVars, policyVars, randomVars, attesterVars
<1>4. CASE ReceiveResult(c)
  <2>1. at' \in [Clients -> {"start", "challenge", "quote", "verify",
                             "accepted", "failed"}]
    BY <1>4, Zenon DEF ReceiveResult, TypeOK
  <2>2. \A d \in Clients \ {c} : at'[d] = at[d]
    BY <1>4 DEF ReceiveResult, TypeOK
  <2>3. UNCHANGED <<args, conn, challenge, reqVars, respVars, verifierVars,
                    attesterVars, events>>
    BY <1>4 DEF ReceiveResult
  <2>4. challenge[c] \in ChallengeSet
    BY <1>4, Zenon DEF ReceiveResult, TypeOK
  <2> QED BY <2>1, <2>2, <2>3, <2>4, Zenon
          DEF TypeOK, reqVars, respVars, verifierVars,
              historyVars, policyVars, randomVars, attesterVars
<1>5. CASE RequestQuote(c)
  <2> PICK m \in challengeResps :
        /\ challenge' = [challenge EXCEPT ![c] = m.challenge]
        /\ conn' = [conn EXCEPT ![c] = @ + 1]
        /\ quoteReqs' = quoteReqs \cup
             {[conn |-> Conn(c)', nonce |-> m.challenge.nonce,
               request |-> m.challenge.request]}
    BY <1>5, Zenon DEF RequestQuote
  <2>1. m.challenge \in ChallengeSet
    BY ZenonT(60) DEF TypeOK
  <2>2. [conn |-> Conn(c)', nonce |-> m.challenge.nonce,
         request |-> m.challenge.request] \in QuoteReqSet
    BY <1>1, <2>1 DEF ChallengeSet, QuoteReqSet
  <2>3. conn' \in [Clients -> Nat]
    BY <1>1
  <2>4. \A x \in quoteReqs' : x \in QuoteReqSet
    BY <2>2, Zenon DEF TypeOK
  <2>5. /\ challenge' \in [Clients -> ChallengeSet \cup {NoChallenge}]
        /\ challenge'[c] \in ChallengeSet
        /\ \A d \in Clients \ {c} : challenge'[d] = challenge[d]
    BY <2>1, Zenon DEF TypeOK
  <2>6. /\ at' = [at EXCEPT ![c] = "quote"]
        /\ UNCHANGED <<args, challengeReqs, verifyReqs, respVars, verifierVars,
                       attesterVars, events>>
    BY <1>5, Zenon DEF RequestQuote
  <2> QED BY <2>3, <2>4, <2>5, <2>6, Zenon
          DEF TypeOK, respVars, verifierVars,
              historyVars, policyVars, randomVars, attesterVars
<1>6. CASE RequestVerify(c)
  <2> PICK m \in quoteResps :
        /\ conn' = [conn EXCEPT ![c] = @ + 1]
        /\ verifyReqs' = verifyReqs \cup
             {[conn |-> Conn(c)', challenge |-> challenge[c], tq |-> m.tq]}
    BY <1>6, ZenonT(60) DEF RequestVerify
  <2>1. m.tq \in TQSet /\ challenge[c] \in ChallengeSet
    BY <1>6 DEF TypeOK, RequestVerify
  <2>2. [conn |-> Conn(c)', challenge |-> challenge[c], tq |-> m.tq]
          \in VerifyReqSet
    BY <1>1, <2>1 DEF VerifyReqSet
  <2>3. conn' \in [Clients -> Nat]
    BY <1>1, Zenon
  <2>4. \A x \in verifyReqs' : x \in VerifyReqSet
    BY <2>2, Zenon DEF TypeOK
  <2>5. /\ at' = [at EXCEPT ![c] = "verify"] /\ at[c] = "quote"
        /\ UNCHANGED <<args, challenge, challengeReqs, quoteReqs, respVars,
                       verifierVars, attesterVars, events>>
    BY <1>6 DEF RequestVerify
  <2> QED BY <2>1, <2>3, <2>4, <2>5, Zenon
          DEF TypeOK, respVars, verifierVars,
              historyVars, policyVars, randomVars, attesterVars
<1> QED BY <1>2, <1>3, <1>4, <1>5, <1>6 DEF ClientReceives

\* The attester keeps the types.
LEMMA AttesterTypes ==
    ASSUME TypeOK, NEW m \in quoteReqs,
           QuoteHandler(m) \/ QuoteBadRequest(m) \/ QuoteFails(m)
    PROVE  TypeOK'
<1>0. /\ m \in QuoteReqSet /\ m.conn \in ConnSet /\ m.request \in Requests
      /\ m.nonce \in Nonces \cup {BadNonce}
      /\ tak \in Keys /\ AttesterApp \in Digests
  BY AttestationAssumption, Zenon DEF TypeOK, QuoteReqSet
<1>1. CASE QuoteHandler(m)
  <2> DEFINE u == GoBinding(m.request, m.nonce)
             q == Quote(AttesterApp, u)
             resp == [conn |-> m.conn, nonce |-> m.nonce,
                      request |-> m.request, tq |-> TQ(q)]
  <2>1. /\ issued' = issued \cup {q} /\ quoteResps' = quoteResps \cup {resp}
        /\ quoteReqs' \subseteq quoteReqs /\ m.nonce \in Nonces
        /\ UNCHANGED <<clientVars, challengeReqs, verifyReqs, challengeResps,
                       verifyResps, errors, verifierVars, tak, usedKeys, events>>
    BY <1>0, <1>1, Zenon DEF QuoteHandler, Bindable
  <2>2. u \in Bindings
    BY <1>0, <2>1, BindingType, Zenon
  <2> HIDE DEF u
  <2>3. q \in QuoteSet /\ TQ(q) \in TQSet
    BY <1>0, <2>2, Zenon DEF Quote, QuoteSet, TQ, TQSet
  <2> HIDE DEF q
  <2>4. resp \in [conn : ConnSet, nonce : Nonces, request : Requests, tq : TQSet]
    BY <1>0, <2>1, <2>3, Zenon
  <2> HIDE DEF resp
  <2> QED BY <2>1, <2>3, <2>4 DEF TypeOK, clientVars, verifierVars,
                                  historyVars, policyVars, randomVars
<1>2. CASE QuoteBadRequest(m) \/ QuoteFails(m)
  <2>1. /\ errors' = errors \cup {m.conn} /\ quoteReqs' \subseteq quoteReqs
        /\ UNCHANGED <<clientVars, challengeReqs, verifyReqs, challengeResps,
                       quoteResps, verifyResps, verifierVars, attesterVars, events>>
    BY <1>2 DEF QuoteBadRequest, QuoteFails
  <2> QED BY <1>0, <2>1, Zenon
          DEF TypeOK, clientVars, verifierVars,
              historyVars, policyVars, randomVars, attesterVars
<1> QED BY <1>1, <1>2, Zenon

\* The verifier keeps the types when it issues a challenge, takes up a request
\* or turns it down.
LEMMA RequestTypes ==
    ASSUME TypeOK,
           \/ IssueStep \/ ConsumeStep
           \/ \E m \in challengeReqs : ChallengeBadRequest(m)
           \/ \E m \in verifyReqs : UnknownChallenge(m)
    PROVE  TypeOK'
<1>1. CASE IssueStep
  <2> PICK m \in challengeReqs, i \in Ids, n \in Nonces : ChallengeHandler(m, i, n)
    BY <1>1, Zenon DEF IssueStep
  <2> DEFINE ch == [challenge_id |-> i, nonce |-> n, request |-> m.request]
             resp == [conn |-> m.conn, challenge |-> ch]
  <2>1. /\ usedIds' = usedIds \cup {i} /\ usedNonces' = usedNonces \cup {n}
        /\ challengeReqs' \subseteq challengeReqs
        /\ outstanding' = outstanding \cup {ch}
        /\ challengeResps' = challengeResps \cup {resp}
        /\ UNCHANGED <<clientVars, quoteReqs, verifyReqs, quoteResps, verifyResps,
                       errors, thread, policyVars, historyVars, attesterVars,
                       events>>
    BY Zenon DEF ChallengeHandler
  <2>2. m.request \in Requests /\ m.conn \in ConnSet
    BY Zenon DEF TypeOK, ChallengeReqSet
  <2>3. ch \in ChallengeSet
    BY <2>2, Zenon DEF ChallengeSet
  <2> HIDE DEF ch
  <2>4. resp \in [conn : ConnSet, challenge : ChallengeSet]
    BY <2>2, <2>3, ZenonT(60)
  <2> HIDE DEF resp
  <2> QED BY <2>1, <2>3, <2>4 DEF TypeOK, clientVars, policyVars,
                                  historyVars, attesterVars
<1>2. CASE ConsumeStep
  <2> PICK m \in verifyReqs, w \in Threads, e \in outstanding : Consume(m, w, e)
    BY <1>2, Zenon DEF ConsumeStep
  <2> DEFINE t == [at |-> "consumed", expected |-> e, body |-> m]
  <2>1. /\ verifyReqs' \subseteq verifyReqs /\ outstanding' \subseteq outstanding
        /\ thread' = [thread EXCEPT ![w] = t]
        /\ held' = [held EXCEPT ![w] = {trustedTak} \ {Missing}]
        /\ UNCHANGED <<clientVars, challengeReqs, quoteReqs, respVars, policyVars,
                       randomVars, verdicts, accepted, attesterVars, events>>
    BY Zenon DEF Consume
  <2>2. e \in ChallengeSet /\ m \in VerifyReqSet
    BY Zenon DEF TypeOK
  <2>3. t \in ThreadSet
    BY <2>2, Zenon DEF ThreadSet
  <2> HIDE DEF t
  <2>4. held' \in [Threads -> SUBSET Keys]
    BY <2>1 DEF TypeOK
  <2> QED BY <2>1, <2>3, <2>4 DEF TypeOK, clientVars, respVars, policyVars,
                                  randomVars, attesterVars
<1>3. CASE \/ \E m \in challengeReqs : ChallengeBadRequest(m)
           \/ \E m \in verifyReqs : UnknownChallenge(m)
  <2>1. PICK k \in ConnSet : errors' = errors \cup {k}
    BY <1>3, Zenon
       DEF ChallengeBadRequest, UnknownChallenge, TypeOK, ChallengeReqSet,
           VerifyReqSet
  <2>2. /\ challengeReqs' \subseteq challengeReqs /\ verifyReqs' \subseteq verifyReqs
        /\ UNCHANGED <<clientVars, quoteReqs, challengeResps, quoteResps,
                       verifyResps, verifierVars, attesterVars, events>>
    BY <1>3, ZenonT(60) DEF ChallengeBadRequest, UnknownChallenge
  <2> QED BY <2>1, <2>2, Zenon
          DEF TypeOK, clientVars, verifierVars,
              historyVars, policyVars, randomVars, attesterVars
<1> QED BY <1>1, <1>2, <1>3, Zenon

\* The result that Accept signs has its type, and so has what is recorded of
\* the evidence.
LEMMA ResultType ==
    ASSUME TypeOK, NEW w \in Threads, thread[w].at = "policy"
    PROVE  /\ [conn |-> thread[w].body.conn,
               result |-> [challenge |-> thread[w].expected,
                           digest |-> thread[w].digest,
                           request_binding |-> Expected(w)]]
                \in [conn : ConnSet, result : ResultSet]
           /\ [challenge |-> thread[w].expected,
               signature |-> thread[w].body.tq.signature, keys |-> held[w]]
                \in EvidenceSet
<1>1. /\ thread[w].body.conn \in ConnSet /\ thread[w].expected \in ChallengeSet
      /\ thread[w].digest \in Digests
  BY ThreadTypes DEF Busy, VerifyReqSet
<1>2. Expected(w) \in Bindings
  BY <1>1, BindingType DEF Expected, ChallengeSet
<1>3. [challenge |-> thread[w].expected, digest |-> thread[w].digest,
       request_binding |-> Expected(w)] \in ResultSet
  BY <1>1, <1>2 DEF ResultSet
<1>4. thread[w].body.tq.signature \in QuoteSet
  BY ThreadTypes DEF Busy, VerifyReqSet, TQSet
<1>5. held[w] \in SUBSET Keys
  BY DEF TypeOK
<1> QED BY <1>1, <1>3, <1>4, <1>5 DEF EvidenceSet

\* A thread's verdict keeps the types, and so does its way there.
LEMMA VerdictTypes ==
    ASSUME TypeOK, NEW w \in Threads, ThreadStep(w)
    PROVE  TypeOK'
<1>0. Busy(w)
  BY DEF ThreadStep, WrongChallenge, LoadDigest, NoDigest, LoadTak, NoTak,
         Accept, BadQuote, Busy
<1>1. /\ thread[w].expected \in ChallengeSet /\ thread[w].body \in VerifyReqSet
      /\ thread[w].body.conn \in ConnSet
      /\ thread[w].expected.challenge_id \in Ids
  BY <1>0, ThreadTypes, ZenonT(60) DEF VerifyReqSet, ChallengeSet
<1>2. CASE LoadDigest(w)
  <2> DEFINE t == [at |-> "digest", expected |-> thread[w].expected,
                   body |-> thread[w].body, digest |-> approvedDigest]
  <2>1. /\ thread' = [thread EXCEPT ![w] = t]
        /\ UNCHANGED <<clientVars, reqVars, respVars, outstanding, policyVars,
                       randomVars, historyVars, attesterVars, events>>
    BY <1>2, ZenonT(60) DEF LoadDigest
  <2>2. approvedDigest \in Digests
    BY <1>2, AttestationAssumption DEF LoadDigest, TypeOK
  <2>3. t \in ThreadSet
    BY <1>1, <2>2, ZenonT(60) DEF ThreadSet
  <2> HIDE DEF t
  <2> QED BY <2>1, <2>3 DEF TypeOK, clientVars, reqVars, respVars, policyVars,
                            randomVars, historyVars, attesterVars
<1>3. CASE LoadTak(w)
  <2> DEFINE t == [at |-> "policy", expected |-> thread[w].expected,
                   body |-> thread[w].body, digest |-> thread[w].digest,
                   key |-> trustedTak]
  <2>1. /\ thread' = [thread EXCEPT ![w] = t]
        /\ UNCHANGED <<clientVars, reqVars, respVars, outstanding, policyVars,
                       randomVars, historyVars, attesterVars, events>>
    BY <1>3, ZenonT(60) DEF LoadTak
  <2>2. thread[w].digest \in Digests /\ trustedTak \in Keys
    BY <1>3, ThreadTypes DEF LoadTak, TypeOK
  <2>3. t \in ThreadSet
    BY <1>1, <2>2, ZenonT(60) DEF ThreadSet
  <2> HIDE DEF t
  <2> QED BY <2>1, <2>3 DEF TypeOK, clientVars, reqVars, respVars, policyVars,
                            randomVars, historyVars, attesterVars
<1>4. ASSUME Decide(w),
             \A a \in accepted' : a \in EvidenceSet,
             \A k \in errors' : k \in ConnSet,
             \A m \in verifyResps' : m \in [conn : ConnSet, result : ResultSet]
      PROVE  TypeOK'
  <2>1. /\ thread' = [thread EXCEPT ![w] = Idle]
        /\ verdicts' = [verdicts EXCEPT ![thread[w].expected.challenge_id] = @ + 1]
        /\ held' = [held EXCEPT ![w] = {}]
        /\ UNCHANGED <<clientVars, reqVars, challengeResps, quoteResps,
                       outstanding, policyVars, randomVars, attesterVars, events>>
    BY <1>4, Zenon DEF Decide
  <2>2. verdicts' \in [Ids -> Nat]
    BY <1>1, <2>1, SMTT(20) DEF TypeOK
  <2>3. thread' \in [Threads -> ThreadSet]
    BY <2>1 DEF TypeOK, ThreadSet
  <2>4. held' \in [Threads -> SUBSET Keys]
    BY <2>1 DEF TypeOK
  <2> QED BY <1>4, <2>1, <2>2, <2>3, <2>4
          DEF TypeOK, clientVars, reqVars, policyVars, randomVars, attesterVars
<1>5. CASE Reject(w)
  <2>1. \A k \in errors' : k \in ConnSet
    BY <1>1, <1>5 DEF Reject, TypeOK
  <2>2. \A m \in verifyResps' : m \in [conn : ConnSet, result : ResultSet]
    BY <1>5, Zenon DEF Reject, TypeOK
  <2>3. \A a \in accepted' : a \in EvidenceSet
    BY <1>5, Zenon DEF Reject, TypeOK
  <2> QED BY <1>4, <1>5, <2>1, <2>2, <2>3, Zenon DEF Reject
<1>6. CASE Accept(w)
  <2>1. \A k \in errors' : k \in ConnSet
    BY <1>6, ZenonT(60) DEF Accept, TypeOK
  <2>2. \A m \in verifyResps' : m \in [conn : ConnSet, result : ResultSet]
    BY <1>6, ResultType DEF Accept, TypeOK
  <2>3. \A a \in accepted' : a \in EvidenceSet
    BY <1>6, ResultType DEF Accept, TypeOK
  <2> QED BY <1>4, <1>6, <2>1, <2>2, <2>3, Zenon DEF Accept
<1> QED BY <1>2, <1>5, <1>6, <1>3, Zenon
        DEF ThreadStep, WrongChallenge, NoDigest, NoTak, BadQuote

\* Another program's request keeps the types.
LEMMA ForeignTypes ==
    ASSUME TypeOK,
           \/ LocalQuoteStep \/ ForeignChallengeStep \/ ForeignQuoteStep
           \/ ForeignVerifyStep
    PROVE  TypeOK'
<1>0. /\ Foreign \in ConnSet /\ usedNonces \subseteq Nonces /\ usedIds \subseteq Ids
      /\ tak \in Keys
  BY Zenon DEF ConnSet, TypeOK
<1>1. Event => events' \in 0..MaxEvents
  BY AttestationAssumption, SMTT(20) DEF Event, TypeOK
<1>2. CASE LocalQuoteStep
  <2>1. PICK d \in Digests, u \in Bindings : LocalQuote(d, u)
    BY <1>0, <1>2, BindingType DEF LocalQuoteStep
  <2>2. Quote(d, u) \in QuoteSet
    BY <1>0 DEF Quote, QuoteSet
  <2>3. /\ issued' = issued \cup {Quote(d, u)} /\ events' \in 0..MaxEvents
        /\ UNCHANGED <<clientVars, reqVars, respVars, verifierVars, tak, usedKeys>>
    BY <1>1, <2>1, ZenonT(60) DEF LocalQuote
  <2> QED BY <2>2, <2>3 DEF TypeOK, clientVars, reqVars, respVars, verifierVars,
                            historyVars, policyVars, randomVars
<1>3. CASE ForeignChallengeStep
  <2> PICK r \in Requests : ForeignChallenge(r)
    BY <1>3 DEF ForeignChallengeStep
  <2>1. [conn |-> Foreign, request |-> r] \in ChallengeReqSet
    BY <1>0, Zenon DEF ChallengeReqSet
  <2>2. /\ events' \in 0..MaxEvents
        /\ \A m \in challengeReqs' : m \in ChallengeReqSet
        /\ UNCHANGED <<clientVars, quoteReqs, verifyReqs, respVars, verifierVars,
                       attesterVars>>
    BY <1>1, <2>1, ZenonT(60) DEF ForeignChallenge, TypeOK
  <2> QED BY <2>2 DEF TypeOK, clientVars, respVars, verifierVars,
                      historyVars, policyVars, randomVars, attesterVars
<1>4. CASE ForeignQuoteStep
  <2> PICK n \in usedNonces \cup {BadNonce}, r \in Requests : ForeignQuote(n, r)
    BY <1>4 DEF ForeignQuoteStep
  <2>1. [conn |-> Foreign, nonce |-> n, request |-> r] \in QuoteReqSet
    BY <1>0, Zenon DEF QuoteReqSet
  <2>2. /\ events' \in 0..MaxEvents
        /\ \A m \in quoteReqs' : m \in QuoteReqSet
        /\ UNCHANGED <<clientVars, challengeReqs, verifyReqs, respVars,
                       verifierVars, attesterVars>>
    BY <1>1, <2>1, ZenonT(60) DEF ForeignQuote, TypeOK
  <2> QED BY <2>2 DEF TypeOK, clientVars, respVars, verifierVars,
                      historyVars, policyVars, randomVars, attesterVars
<1>5. CASE ForeignVerifyStep
  <2> PICK i \in usedIds, n \in usedNonces, r \in Requests, q \in issued,
           s \in issued : ForeignVerify(i, n, r, q, s)
    BY <1>5, SMTT(20) DEF ForeignVerifyStep
  <2>1. q \in QuoteSet /\ s \in QuoteSet
    BY DEF TypeOK
  <2>2. [TQ(q) EXCEPT !.signature = s] \in TQSet
    BY <2>1 DEF TQ, TQSet, QuoteSet
  <2>3. [challenge_id |-> i, nonce |-> n, request |-> r] \in ChallengeSet
    BY <1>0 DEF ChallengeSet
  <2>4. \A m \in verifyReqs' : m \in VerifyReqSet
    BY <1>0, <2>2, <2>3 DEF ForeignVerify, VerifyReqSet, TypeOK
  <2>5. /\ events' \in 0..MaxEvents
        /\ UNCHANGED <<clientVars, challengeReqs, quoteReqs, respVars,
                       verifierVars, attesterVars>>
    BY <1>1 DEF ForeignVerify
  <2> QED BY <2>4, <2>5 DEF TypeOK, clientVars, respVars, verifierVars,
                            historyVars, policyVars, randomVars, attesterVars
<1> QED BY <1>2, <1>3, <1>4, <1>5, Zenon

\* The other environment events keep the types.
LEMMA EventTypes ==
    ASSUME TypeOK,
           MisdeliverStep \/ RebootStep \/ RestartVerifier
             \/ ProvisionTak \/ ProvisionDigest
    PROVE  TypeOK'
<1>1. Event => events' \in 0..MaxEvents
  BY AttestationAssumption, SMTT(20) DEF Event, TypeOK
<1>2. CASE MisdeliverStep
  <2> PICK c \in Clients : Misdeliver(c)
    BY <1>2, ZenonT(60) DEF MisdeliverStep
  <2>1. Conn(c) \in ConnSet
    BY DEF Conn, ConnSet, TypeOK
  <2>2. /\ events' \in 0..MaxEvents
        /\ UNCHANGED <<clientVars, reqVars, errors, verifierVars, attesterVars>>
    BY <1>1 DEF Misdeliver
  <2>3. \A m \in challengeResps' : m \in [conn : ConnSet, challenge : ChallengeSet]
    BY <2>1 DEF Misdeliver, TypeOK
  <2>4. \A m \in quoteResps' : m \in [conn : ConnSet, nonce : Nonces,
                                      request : Requests, tq : TQSet]
    BY <2>1 DEF Misdeliver, TypeOK
  <2>5. \A m \in verifyResps' : m \in [conn : ConnSet, result : ResultSet]
    BY <2>1 DEF Misdeliver, TypeOK
  <2> QED BY <2>2, <2>3, <2>4, <2>5
          DEF TypeOK, clientVars, reqVars, verifierVars,
              historyVars, policyVars, randomVars, attesterVars
<1>3. CASE RebootStep
  BY <1>1, <1>3, Zenon
     DEF RebootStep, RebootAttester, TypeOK, clientVars, respVars, verifierVars,
         historyVars, policyVars, randomVars
<1>4. CASE RestartVerifier
  <2>1. /\ outstanding' = {} /\ challengeReqs' = {} /\ verifyReqs' = {}
        /\ thread' \in [Threads -> ThreadSet]
        /\ held' \in [Threads -> SUBSET Keys]
        /\ events' \in 0..MaxEvents
        /\ UNCHANGED <<clientVars, quoteReqs, respVars, policyVars, randomVars,
                       verdicts, accepted, attesterVars>>
    BY <1>1, <1>4, Zenon DEF RestartVerifier, ThreadSet
  <2> QED BY <2>1, Zenon
          DEF TypeOK, clientVars, respVars, policyVars, randomVars,
              attesterVars
<1>5. CASE ProvisionTak
  <2>1. held' \in [Threads -> SUBSET Keys]
    BY <1>5 DEF ProvisionTak, TypeOK
  <2> QED BY <1>1, <1>5, <2>1, Zenon
     DEF ProvisionTak, TypeOK, clientVars, reqVars, respVars, randomVars,
         attesterVars
<1>6. CASE ProvisionDigest
  BY <1>1, <1>6, ZenonT(60)
     DEF ProvisionDigest, TypeOK, clientVars, reqVars, respVars, randomVars,
         historyVars, attesterVars
<1> QED BY <1>2, <1>3, <1>4, <1>5, <1>6, ZenonT(60)

\* Every step keeps the types.
LEMMA NextTypes == TypeOK /\ Next => TypeOK'
<1> SUFFICES ASSUME TypeOK, Next PROVE TypeOK'
  OBVIOUS
<1>1. CASE ClientStep
  BY <1>1, ClientTypes
<1>2. CASE \E m \in quoteReqs : \/ QuoteHandler(m) \/ QuoteBadRequest(m)
                                \/ QuoteFails(m)
  BY <1>2, AttesterTypes
<1>3. CASE \/ IssueStep \/ ConsumeStep
           \/ \E m \in challengeReqs : ChallengeBadRequest(m)
           \/ \E m \in verifyReqs : UnknownChallenge(m)
  BY <1>3, RequestTypes
<1>4. CASE AnyThreadStep
  BY <1>4, VerdictTypes DEF AnyThreadStep
<1>5. CASE \/ LocalQuoteStep \/ ForeignChallengeStep \/ ForeignQuoteStep
           \/ ForeignVerifyStep
  BY <1>5, ForeignTypes
<1>6. CASE MisdeliverStep \/ RebootStep \/ RestartVerifier
             \/ ProvisionTak \/ ProvisionDigest
  BY <1>6, EventTypes
<1> QED BY <1>1, <1>2, <1>3, <1>4, <1>5, <1>6
        DEF Next, AttesterStep, VerifierStep, Environment, ClientStep,
            IssueStep, ConsumeStep, AnyThreadStep, LocalQuoteStep,
            ForeignChallengeStep, ForeignQuoteStep, ForeignVerifyStep,
            MisdeliverStep, RebootStep
==============================================================================
