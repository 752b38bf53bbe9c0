-------------------------- MODULE AttestationProofs --------------------------
(***************************************************************************)
(* Proofs of the safety properties of Attestation, for any number of       *)
(* clients, verifier threads, challenges, requests, boots and environment  *)
(* events.                                                                 *)
(***************************************************************************)
EXTENDS AttestationTypes

\* The verifier has issued the challenge.
Known(ch) == \E x \in challengeResps : x.challenge = ch

\* The identifier of a challenge determines it, and so does its nonce.
Fresh == /\ \A x \in challengeResps : /\ x.challenge.challenge_id \in usedIds
                                      /\ x.challenge.nonce \in usedNonces
         /\ \A x, y \in challengeResps :
              \/ x.challenge.challenge_id = y.challenge.challenge_id
              \/ x.challenge.nonce = y.challenge.nonce
              => x.challenge = y.challenge

\* A challenge that is outstanding, or that a thread has consumed, has no
\* verdict yet, and no two of them have the same challenge.
Undecided ==
    /\ \A e \in outstanding : Known(e) /\ verdicts[e.challenge_id] = 0
    /\ \A w \in Threads : Busy(w) =>
         /\ Known(thread[w].expected)
         /\ verdicts[thread[w].expected.challenge_id] = 0
         /\ thread[w].expected \notin outstanding
    /\ \A v, w \in Threads :
         Busy(v) /\ Busy(w) /\ thread[v].expected = thread[w].expected => v = w
    /\ \A i \in Ids : verdicts[i] <= 1
    /\ \A i \in Ids \ usedIds : verdicts[i] = 0

\* What quoteHandler answered.
FromHandler(m) ==
    /\ m.tq.public_key = m.tq.signature.key
    /\ m.tq.user_data = GoBinding(m.request, m.nonce)
    /\ m.tq.hash = <<AttesterApp, m.tq.user_data>>
    /\ m.tq.signature.digest = AttesterApp
    /\ m.tq.signature.user_data = m.tq.user_data

\* The signatures that travel are the device's.
Evidence ==
    /\ \A m \in verifyReqs : m.tq.signature \in issued
    /\ \A m \in quoteResps : m.tq.signature \in issued /\ FromHandler(m)
    /\ \A w \in Threads : /\ Busy(w) => thread[w].body.tq.signature \in issued
                          /\ thread[w].at \in {"digest", "policy"} =>
                                 thread[w].digest \in Approved
                          /\ thread[w].at = "policy" =>
                                 thread[w].key \in usedKeys

\* The keys that count for a thread, and what is recorded of the evidence it
\* accepts.
Trusted ==
    /\ \A w \in Threads :
         /\ Busy(w) => trustedTak \in held[w] \cup {Missing}
         /\ thread[w].at = "policy" => thread[w].key \in held[w]
    /\ \A a \in accepted :
         /\ Known(a.challenge)
         /\ a.signature.user_data =
              make_request_binding(a.challenge.request, a.challenge.nonce)
         /\ a.signature.key \in a.keys

\* What a client relays, and what it has accepted.
Relays == /\ \A c \in Clients :
               at[c] \in {"quote", "verify"} => Known(challenge[c])
          /\ AcceptedIsAttested

\* The inductive invariant.
IInv == /\ TypeOK /\ Fresh /\ Undecided /\ Evidence /\ Trusted
        /\ ResultIsAttested /\ Relays

-----------------------------------------------------------------------------
(* The protocol                                                            *)

\* A misdelivered response says what the original said.
LEMMA MisdeliverCopies ==
    ASSUME TypeOK, MisdeliverStep
    PROVE  /\ \A m \in challengeResps' :
                \E x \in challengeResps : m.challenge = x.challenge
           /\ \A m \in quoteResps' : \E x \in quoteResps :
                m.tq = x.tq /\ m.nonce = x.nonce /\ m.request = x.request
           /\ \A m \in verifyResps' : \E x \in verifyResps : m.result = x.result
<1> PICK c \in Clients : Misdeliver(c)
  BY DEF MisdeliverStep
<1>1. ASSUME NEW m \in challengeResps
      PROVE  [m EXCEPT !.conn = Conn(c)].challenge = m.challenge
  BY DEF TypeOK
<1>2. ASSUME NEW m \in quoteResps
      PROVE  /\ [m EXCEPT !.conn = Conn(c)].tq = m.tq
             /\ [m EXCEPT !.conn = Conn(c)].nonce = m.nonce
             /\ [m EXCEPT !.conn = Conn(c)].request = m.request
  BY DEF TypeOK
<1>3. ASSUME NEW m \in verifyResps
      PROVE  [m EXCEPT !.conn = Conn(c)].result = m.result
  BY DEF TypeOK
<1>4. \A m \in challengeResps' :
         \E x \in challengeResps : m.challenge = x.challenge
  BY <1>1, Zenon DEF Misdeliver
<1>5. \A m \in quoteResps' : \E x \in quoteResps :
         m.tq = x.tq /\ m.nonce = x.nonce /\ m.request = x.request
  BY <1>2, Zenon DEF Misdeliver
<1>6. \A m \in verifyResps' : \E x \in verifyResps : m.result = x.result
  BY <1>3, Zenon DEF Misdeliver
<1> QED BY <1>4, <1>5, <1>6

\* Responses, signatures and keys are never taken back.
LEMMA Growth ==
    ASSUME Next
    PROVE  /\ challengeResps \subseteq challengeResps'
           /\ verifyResps \subseteq verifyResps'
           /\ issued \subseteq issued'
           /\ usedKeys \subseteq usedKeys'
<1>1. challengeResps \subseteq challengeResps'
  <2>1. IssueStep => challengeResps \subseteq challengeResps'
    BY DEF IssueStep, ChallengeHandler
  <2>2. MisdeliverStep => challengeResps \subseteq challengeResps'
    BY DEF MisdeliverStep, Misdeliver
  <2> QED BY <2>1, <2>2, Footprints DEF Footprint
<1>2. verifyResps \subseteq verifyResps'
  <2>1. AcceptStep => verifyResps \subseteq verifyResps'
    BY DEF AcceptStep, Accept
  <2>2. MisdeliverStep => verifyResps \subseteq verifyResps'
    BY DEF MisdeliverStep, Misdeliver
  <2> QED BY <2>1, <2>2, Footprints DEF Footprint
<1>3. issued \subseteq issued'
  <2>1. QuoteStep => issued \subseteq issued'
    BY DEF QuoteStep, QuoteHandler
  <2>2. LocalQuoteStep => issued \subseteq issued'
    BY DEF LocalQuoteStep, LocalQuote
  <2> QED BY <2>1, <2>2, Footprints DEF Footprint
<1>4. usedKeys \subseteq usedKeys'
  <2>1. RebootStep => usedKeys \subseteq usedKeys'
    BY DEF RebootStep, RebootAttester
  <2> QED BY <2>1, Footprints DEF Footprint
<1> QED BY <1>1, <1>2, <1>3, <1>4

\* A challenge stays known, and an attested one stays attested.
LEMMA KnownStays ==
    ASSUME Next, NEW ch, NEW digest
    PROVE  /\ Known(ch) => Known(ch)'
           /\ Attested(ch, digest) => Attested(ch, digest)'
BY Growth DEF Known, Attested

\* Every step keeps identifiers and nonces unique.
LEMMA NextFresh ==
    ASSUME TypeOK, Fresh, Next
    PROVE  Fresh'
<1>1. CASE IssueStep
  <2> PICK m \in challengeReqs, i \in Ids, n \in Nonces : ChallengeHandler(m, i, n)
    BY <1>1 DEF IssueStep
  <2> DEFINE ch == [challenge_id |-> i, nonce |-> n, request |-> m.request]
             resp == [conn |-> m.conn, challenge |-> ch]
  <2>1. /\ usedIds' = usedIds \cup {i} /\ usedNonces' = usedNonces \cup {n}
        /\ i \notin usedIds /\ n \notin usedNonces
        /\ challengeResps' = challengeResps \cup {resp}
    BY Zenon DEF ChallengeHandler
  <2>2. resp.challenge = ch /\ ch.challenge_id = i /\ ch.nonce = n
    OBVIOUS
  <2> HIDE DEF resp, ch
  <2> QED BY <2>1, <2>2 DEF Fresh
<1>2. CASE MisdeliverStep
  <2>1. \A x \in challengeResps' :
          \E y \in challengeResps : x.challenge = y.challenge
    BY <1>2, MisdeliverCopies
  <2>2. UNCHANGED randomVars
    BY <1>2 DEF MisdeliverStep, Misdeliver, verifierVars
  <2> QED BY <2>1, <2>2 DEF Fresh, randomVars
<1>3. CASE ~IssueStep /\ ~MisdeliverStep
  <2>1. UNCHANGED <<challengeResps, randomVars>>
    BY <1>3, Footprints DEF Footprint
  <2> QED BY <2>1 DEF Fresh, randomVars
<1> QED BY <1>1, <1>2, <1>3

\* Every step keeps the challenges in hand undecided and apart.
LEMMA NextUndecided ==
    ASSUME TypeOK, Fresh, Undecided, Next
    PROVE  Undecided'
<1>0. /\ \A ch : Known(ch) => Known(ch)'
      /\ \A ch : Known(ch) => ch.challenge_id \in usedIds
      /\ \A c1, c2 : Known(c1) /\ Known(c2) /\ c1.challenge_id = c2.challenge_id
                       => c1 = c2
  BY KnownStays DEF Known, Fresh
<1>1. ASSUME NEW w \in Threads
      PROVE  /\ Busy(w) => thread[w].expected \in ChallengeSet
             /\ Busy(w) => thread[w].expected.challenge_id \in Ids
             /\ ~Busy(w) <=> thread[w] = Idle
  BY ThreadTypes, Zenon DEF Busy, ChallengeSet
<1>2. /\ DOMAIN thread = Threads /\ DOMAIN verdicts = Ids
      /\ verdicts \in [Ids -> Nat] /\ usedIds \subseteq Ids
      /\ \A e \in outstanding : e.challenge_id \in Ids
  BY Zenon DEF TypeOK, ChallengeSet
<1>3. CASE IssueStep
  <2> PICK m \in challengeReqs, i \in Ids, n \in Nonces : ChallengeHandler(m, i, n)
    BY <1>3, Zenon DEF IssueStep
  <2> DEFINE ch == [challenge_id |-> i, nonce |-> n, request |-> m.request]
             resp == [conn |-> m.conn, challenge |-> ch]
  <2>1. /\ usedIds' = usedIds \cup {i} /\ i \notin usedIds
        /\ outstanding' = outstanding \cup {ch}
        /\ challengeResps' = challengeResps \cup {resp}
        /\ UNCHANGED <<thread, verdicts>>
    BY DEF ChallengeHandler, historyVars
  <2>2. resp.challenge = ch /\ ch.challenge_id = i
    BY Zenon
  <2> HIDE DEF resp, ch
  <2>3. Known(ch)' /\ verdicts'[ch.challenge_id] = 0
    BY <2>1, <2>2 DEF Known, Undecided
  <2>4. \A w \in Threads : Busy(w)' <=> Busy(w)
    BY <2>1, Zenon DEF Busy
  <2>5. \A w \in Threads : Busy(w) => thread[w].expected # ch
    BY <1>0, <2>1, <2>2, Zenon DEF Undecided
  <2> QED BY <1>0, <2>1, <2>3, <2>4, <2>5 DEF Undecided
<1>4. CASE ConsumeStep
  <2> PICK m \in verifyReqs, w \in Threads, e \in outstanding : Consume(m, w, e)
    BY <1>4, Zenon DEF ConsumeStep
  <2> DEFINE t == [at |-> "consumed", expected |-> e, body |-> m]
  <2>1. /\ outstanding' = outstanding \ {e}
        /\ thread' = [thread EXCEPT ![w] = t] /\ thread[w] = Idle
        /\ UNCHANGED <<verdicts, usedIds>>
    BY DEF Consume, randomVars
  <2>2. t.at # "idle" /\ t.expected = e
    OBVIOUS
  <2> HIDE DEF t
  <2>3. /\ Busy(w)' /\ thread'[w].expected = e
        /\ \A v \in Threads \ {w} : thread'[v] = thread[v]
        /\ \A v \in Threads \ {w} : Busy(v)' <=> Busy(v)
    BY <1>2, <2>1, <2>2, ZenonT(60) DEF Busy
  <2> QED BY <1>0, <2>1, <2>3 DEF Undecided
<1>5. ASSUME NEW w \in Threads, LoadDigest(w) \/ LoadTak(w) PROVE Undecided'
  <2>1. /\ thread[w].at # "idle"
        /\ thread'[w].at # "idle" /\ thread'[w].expected = thread[w].expected
        /\ \A v \in Threads \ {w} : thread'[v] = thread[v]
        /\ UNCHANGED <<outstanding, verdicts, usedIds>>
    <3>1. CASE LoadDigest(w)
      BY <1>2, <3>1, Zenon DEF LoadDigest, randomVars, historyVars
    <3>2. CASE LoadTak(w)
      BY <1>2, <3>2, Zenon DEF LoadTak, randomVars, historyVars
    <3> QED BY <1>5, <3>1, <3>2
  <2>2. \A v \in Threads : /\ Busy(v)' <=> Busy(v)
                           /\ thread'[v].expected = thread[v].expected
    BY <2>1, Zenon DEF Busy
  <2>3. \A e \in outstanding' : Known(e)' /\ verdicts'[e.challenge_id] = 0
    BY <1>0, <2>1, Zenon DEF Undecided
  <2>4. \A v \in Threads : Busy(v)' =>
          /\ Known(thread[v].expected)'
          /\ verdicts'[thread'[v].expected.challenge_id] = 0
          /\ thread'[v].expected \notin outstanding'
    <3> SUFFICES ASSUME NEW v \in Threads, Busy(v)'
                 PROVE  /\ Known(thread[v].expected)'
                        /\ verdicts'[thread'[v].expected.challenge_id] = 0
                        /\ thread'[v].expected \notin outstanding'
      BY Zenon
    <3>1. Busy(v) /\ thread'[v].expected = thread[v].expected
      BY <2>2, Zenon
    <3>2. /\ verdicts[thread[v].expected.challenge_id] = 0
          /\ thread[v].expected \notin outstanding
          /\ \E x \in challengeResps' : x.challenge = thread[v].expected
      BY <1>0, <3>1, Zenon DEF Undecided, Known
    <3> QED BY <2>1, <3>1, <3>2, Zenon DEF Known
  <2>5. \A v, x \in Threads :
          Busy(v)' /\ Busy(x)' /\ thread'[v].expected = thread'[x].expected
            => v = x
    BY <2>2, Zenon DEF Undecided
  <2>6. /\ \A i \in Ids : verdicts'[i] <= 1
        /\ \A i \in Ids \ usedIds' : verdicts'[i] = 0
    BY <2>1, Zenon DEF Undecided
  <2> QED BY <2>3, <2>4, <2>5, <2>6, Zenon DEF Undecided
<1>6. ASSUME NEW w \in Threads, Busy(w), Decide(w) PROVE Undecided'
  <2> DEFINE i == thread[w].expected.challenge_id
  <2>1. /\ thread' = [thread EXCEPT ![w] = Idle]
        /\ verdicts' = [verdicts EXCEPT ![i] = @ + 1]
        /\ UNCHANGED <<outstanding, usedIds>>
    BY <1>6, Zenon DEF Decide, randomVars
  <2>2. i \in Ids /\ i \in usedIds /\ verdicts[i] = 0
    BY <1>0, <1>1, <1>6, Zenon DEF Undecided
  <2>3. /\ verdicts'[i] = 1 /\ \A j \in Ids \ {i} : verdicts'[j] = verdicts[j]
    BY <1>2, <2>1, <2>2
  <2>4. \A e \in outstanding : e.challenge_id # i
    BY <1>0, <1>6, Zenon DEF Undecided
  <2>5. \A v \in Threads : Busy(v) /\ v # w => thread[v].expected.challenge_id # i
    BY <1>0, <1>6, Zenon DEF Undecided
  <2>6. /\ ~Busy(w)'
        /\ \A v \in Threads \ {w} : thread'[v] = thread[v]
        /\ \A v \in Threads \ {w} : Busy(v)' <=> Busy(v)
    BY <1>2, <2>1, Zenon DEF Busy, Idle
  <2> HIDE DEF i
  <2>7. \A e \in outstanding' : Known(e)' /\ verdicts'[e.challenge_id] = 0
    BY <1>0, <1>2, <2>1, <2>3, <2>4, Zenon DEF Undecided
  <2>8. \A v \in Threads : Busy(v)' =>
          /\ Known(thread[v].expected)'
          /\ verdicts'[thread'[v].expected.challenge_id] = 0
          /\ thread'[v].expected \notin outstanding'
    BY <1>0, <1>1, <2>1, <2>3, <2>5, <2>6 DEF Undecided
  <2>9. /\ \A j \in Ids : verdicts'[j] <= 1
        /\ \A j \in Ids \ usedIds' : verdicts'[j] = 0
    BY <2>1, <2>2, <2>3 DEF Undecided
  <2> QED BY <2>6, <2>7, <2>8, <2>9, Zenon DEF Undecided
<1>7. CASE AnyThreadStep
  <2> PICK w \in Threads : ThreadStep(w)
    BY <1>7, Zenon DEF AnyThreadStep
  <2>1. Busy(w) /\ (LoadDigest(w) \/ LoadTak(w) \/ Decide(w))
    BY Zenon
       DEF ThreadStep, WrongChallenge, LoadDigest, NoDigest, LoadTak, NoTak,
           Accept, BadQuote, Reject, Busy
  <2> QED BY <1>5, <1>6, <2>1
<1>8. CASE RestartVerifier
  <2>1. /\ outstanding' = {} /\ UNCHANGED <<verdicts, usedIds>>
        /\ \A w \in Threads : ~Busy(w)'
    BY <1>8, Zenon DEF RestartVerifier, randomVars, Busy, Idle
  <2> QED BY <2>1, Zenon DEF Undecided
<1>9. CASE ~IssueStep /\ ~ConsumeStep /\ ~AnyThreadStep /\ ~RestartVerifier
  <2>1. UNCHANGED <<outstanding, thread, verdicts, randomVars>>
    BY <1>9, Footprints DEF Footprint
  <2>2. \A w \in Threads : Busy(w)' <=> Busy(w)
    BY <2>1, Zenon DEF Busy
  <2> QED BY <1>0, <2>1, <2>2, Zenon DEF Undecided, randomVars
<1> QED BY <1>3, <1>4, <1>7, <1>8, <1>9

\* Every step passes on only signatures that the device made.
LEMMA NextEvidence ==
    ASSUME TypeOK, Evidence, Next
    PROVE  Evidence'
<1>0. issued \subseteq issued'
  BY Growth, Zenon
<1>1. \A m \in verifyReqs' : m.tq.signature \in issued'
  <2>1. CASE ClientStep
    <3> SUFFICES ASSUME NEW c \in Clients, RequestVerify(c)
                 PROVE  \A m \in verifyReqs' : m.tq.signature \in issued'
      <4>1. UNCHANGED verifyReqs \/ \E c \in Clients : RequestVerify(c)
        BY <2>1, Zenon
           DEF ClientStep, ClientReceives, ClientFails, RequestChallenge,
               RequestQuote, ReceiveResult, ChallengeFails, QuoteOrVerifyFails,
               reqVars
      <4> QED BY <1>0, <4>1, Zenon DEF Evidence
    <3> PICK x \in quoteResps :
          verifyReqs' = verifyReqs \cup
             {[conn |-> Conn(c)', challenge |-> challenge[c], tq |-> x.tq]}
      BY ZenonT(60) DEF RequestVerify
    <3> QED BY <1>0 DEF Evidence
  <2>2. CASE ForeignVerifyStep
    <3> PICK i \in usedIds, n \in usedNonces, r \in Requests, q \in issued,
             s \in issued : ForeignVerify(i, n, r, q, s)
      BY <2>2 DEF ForeignVerifyStep
    <3> DEFINE tq == [TQ(q) EXCEPT !.signature = s]
               ch == [challenge_id |-> i, nonce |-> n, request |-> r]
               req == [conn |-> Foreign, challenge |-> ch, tq |-> tq]
    <3>1. tq.signature = s
      BY DEF TQ
    <3>2. verifyReqs' = verifyReqs \cup {req}
      BY Zenon DEF ForeignVerify
    <3> HIDE DEF tq
    <3>3. req.tq = tq
      BY Zenon
    <3> HIDE DEF req
    <3> QED BY <1>0, <3>1, <3>2, <3>3, Zenon DEF Evidence
  <2>3. CASE verifyReqs' \subseteq verifyReqs
    BY <1>0, <2>3, Zenon DEF Evidence
  <2> QED BY <2>1, <2>2, <2>3, Footprints, Zenon DEF Footprint
<1>2. ASSUME NEW m \in quoteResps' PROVE m.tq.signature \in issued' /\ FromHandler(m)
  <2>1. CASE QuoteStep
    <3> PICK x \in quoteReqs : QuoteHandler(x)
      BY <2>1, Zenon DEF QuoteStep
    <3> DEFINE u == GoBinding(x.request, x.nonce)
               q == Quote(AttesterApp, u)
    <3>1. /\ issued' = issued \cup {q}
          /\ quoteResps' = quoteResps \cup
               {[conn |-> x.conn, nonce |-> x.nonce, request |-> x.request,
                 tq |-> TQ(q)]}
      BY Zenon DEF QuoteHandler
    <3>2. CASE m \in quoteResps
      BY <1>0, <3>2, Zenon DEF Evidence
    <3>3. CASE m \notin quoteResps
      <4>1. m.tq = TQ(q) /\ m.request = x.request /\ m.nonce = x.nonce
        BY <3>1, <3>3
      <4>2. /\ TQ(q).signature = q /\ TQ(q).user_data = u
            /\ TQ(q).public_key = q.key /\ TQ(q).hash = <<AttesterApp, u>>
            /\ q.digest = AttesterApp /\ q.user_data = u
        BY Zenon DEF TQ, Quote
      <4> HIDE DEF q
      <4> QED BY <3>1, <4>1, <4>2, Zenon DEF FromHandler
    <3> QED BY <3>2, <3>3
  <2>2. CASE MisdeliverStep
    <3>1. PICK x \in quoteResps :
             m.tq = x.tq /\ m.nonce = x.nonce /\ m.request = x.request
      BY <2>2, MisdeliverCopies, Zenon
    <3> QED BY <1>0, <3>1, Zenon DEF Evidence, FromHandler
  <2>3. CASE UNCHANGED quoteResps
    BY <1>0, <2>3, Zenon DEF Evidence
  <2> QED BY <2>1, <2>2, <2>3, Footprints DEF Footprint
<1>3. ASSUME NEW v \in Threads
      PROVE  /\ Busy(v)' => thread'[v].body.tq.signature \in issued'
             /\ thread'[v].at \in {"digest", "policy"} =>
                    thread'[v].digest \in Approved
             /\ thread'[v].at = "policy" => thread'[v].key \in usedKeys'
  <2>0. /\ DOMAIN thread = Threads
        /\ Busy(v) => thread[v].body.tq.signature \in issued
        /\ thread[v].at \in {"digest", "policy"} => thread[v].digest \in Approved
        /\ thread[v].at = "policy" => thread[v].key \in usedKeys
        /\ usedKeys \subseteq usedKeys'
    BY Growth, Zenon DEF TypeOK, Evidence
  <2>1. CASE thread'[v] = thread[v]
    BY <1>0, <2>0, <2>1, Zenon DEF Busy
  <2>2. CASE thread'[v] = Idle
    BY <2>2, SMTT(20) DEF Idle, Busy
  <2>3. CASE ConsumeStep
    <3> PICK m \in verifyReqs, w \in Threads, e \in outstanding : Consume(m, w, e)
      BY <2>3, Zenon DEF ConsumeStep
    <3>1. thread' = [thread EXCEPT ![w] =
                       [at |-> "consumed", expected |-> e, body |-> m]]
      BY Zenon DEF Consume
    <3>2. CASE v = w
      <4>1. thread'[v].at = "consumed" /\ thread'[v].body = m
        BY <2>0, <3>1, <3>2, ZenonT(60)
      <4> QED BY <1>0, <4>1, Zenon DEF Evidence
    <3> QED BY <2>0, <2>1, <3>1, <3>2
  <2>4. CASE AnyThreadStep
    <3> PICK w \in Threads : ThreadStep(w)
      BY <2>4, Zenon DEF AnyThreadStep
    <3>1. CASE LoadDigest(w)
      <4>1. /\ thread' = [thread EXCEPT ![w] =
                 [at |-> "digest", expected |-> thread[w].expected,
                  body |-> thread[w].body, digest |-> approvedDigest]]
            /\ approvedDigest \in Approved /\ thread[w].at = "consumed"
        BY <3>1, Zenon DEF LoadDigest, TypeOK
      <4>2. CASE v = w
        <5>1. /\ thread'[v].at = "digest" /\ thread'[v].body = thread[v].body
              /\ thread'[v].digest = approvedDigest
          BY <2>0, <4>1, <4>2, Zenon
        <5> QED BY <1>0, <2>0, <4>1, <4>2, <5>1, Zenon DEF Busy
      <4> QED BY <2>0, <2>1, <4>1, <4>2, Zenon
    <3>2. CASE LoadTak(w)
      <4>1. /\ thread' = [thread EXCEPT ![w] =
                 [at |-> "policy", expected |-> thread[w].expected,
                  body |-> thread[w].body, digest |-> thread[w].digest,
                  key |-> trustedTak]]
            /\ trustedTak \in usedKeys /\ thread[w].at = "digest"
        BY <3>2, Zenon DEF LoadTak, TypeOK
      <4>2. CASE v = w
        <5>1. /\ thread'[v].at = "policy" /\ thread'[v].body = thread[v].body
              /\ thread'[v].digest = thread[v].digest
              /\ thread'[v].key = trustedTak
          BY <2>0, <4>1, <4>2, Zenon
        <5> QED BY <1>0, <2>0, <4>1, <4>2, <5>1, Zenon DEF Busy
      <4> QED BY <2>0, <2>1, <4>1, <4>2, Zenon
    <3>3. CASE Decide(w)
      BY <2>0, <2>1, <2>2, <3>3, Zenon DEF Decide
    <3> QED BY <3>1, <3>2, <3>3 DEF ThreadStep, WrongChallenge, NoDigest, NoTak,
                                    Accept, BadQuote, Reject
  <2>5. CASE IssueStep
    BY <2>1, <2>5, Zenon DEF IssueStep, ChallengeHandler
  <2>6. CASE RestartVerifier
    BY <2>2, <2>6, Zenon DEF RestartVerifier
  <2> QED BY <2>1, <2>3, <2>4, <2>5, <2>6, Footprints, Zenon DEF Footprint
<1> QED BY <1>1, <1>2, <1>3 DEF Evidence

\* What Genuine establishes: the device signed the binding of this challenge
\* for an approved executable under the key that the thread read.
LEMMA GenuineEvidence ==
    ASSUME TypeOK, Evidence, NEW w \in Threads, thread[w].at = "policy", Genuine(w)
    PROVE  /\ thread[w].body.tq.signature \in issued
           /\ thread[w].body.tq.signature.key = thread[w].key
           /\ thread[w].body.tq.signature.digest = thread[w].digest
           /\ thread[w].body.tq.signature.user_data = Expected(w)
           /\ thread[w].key \in usedKeys /\ thread[w].digest \in Approved
<1>1. /\ thread[w].body.tq.signature \in issued /\ thread[w].digest \in Approved
      /\ thread[w].key \in usedKeys
  BY DEF Evidence, Busy
<1>2. thread[w].body.tq.signature =
        [key |-> thread[w].key, digest |-> thread[w].digest,
         user_data |-> Expected(w)]
  BY Zenon DEF Genuine, verify_tarako_quote
<1> QED BY <1>1, <1>2

\* Every step keeps count of the keys that a thread may have read, and accepts
\* evidence only under one of them and for the thread's own challenge.
LEMMA NextTrusted ==
    ASSUME TypeOK, Undecided, Evidence, Trusted, Next
    PROVE  Trusted'
<1>0. /\ DOMAIN thread = Threads /\ DOMAIN held = Threads
      /\ \A ch : Known(ch) => Known(ch)'
  BY KnownStays DEF TypeOK
<1>1. ASSUME NEW a \in accepted'
      PROVE  /\ Known(a.challenge)'
             /\ a.signature.user_data =
                  make_request_binding(a.challenge.request, a.challenge.nonce)
             /\ a.signature.key \in a.keys
  <2>1. CASE a \in accepted
    BY <1>0, <2>1, Zenon DEF Trusted
  <2>2. CASE a \notin accepted
    <3>1. PICK w \in Threads : Accept(w)
      BY <2>2, Footprints, ZenonT(60) DEF Footprint, AcceptStep
    <3>2. /\ a.challenge = thread[w].expected
          /\ a.signature = thread[w].body.tq.signature /\ a.keys = held[w]
      BY <2>2, <3>1 DEF Accept
    <3>3. thread[w].at = "policy" /\ Genuine(w) /\ Busy(w)
      BY <3>1 DEF Accept, Busy
    <3>4. Known(thread[w].expected)
      BY <3>3, Zenon DEF Undecided
    <3>5. thread[w].key \in held[w]
      BY <3>3, Zenon DEF Trusted
    <3>6. /\ thread[w].body.tq.signature.key = thread[w].key
          /\ thread[w].body.tq.signature.user_data = Expected(w)
      BY <3>3, GenuineEvidence, Zenon
    <3> QED BY <1>0, <3>2, <3>4, <3>5, <3>6, Zenon DEF Expected
  <2> QED BY <2>1, <2>2
<1>2. ASSUME NEW v \in Threads
      PROVE  /\ Busy(v)' => trustedTak' \in held'[v] \cup {Missing}
             /\ thread'[v].at = "policy" => thread'[v].key \in held'[v]
  <2>0. /\ Busy(v) => trustedTak \in held[v] \cup {Missing}
        /\ thread[v].at = "policy" => thread[v].key \in held[v]
    BY Zenon DEF Trusted
  <2>1. CASE UNCHANGED <<thread[v], held[v], trustedTak>>
    BY <2>0, <2>1, Zenon DEF Busy
  <2>2. CASE thread'[v] = Idle
    BY <2>2, SMTT(20) DEF Idle, Busy
  <2>3. CASE ConsumeStep
    <3> PICK m \in verifyReqs, w \in Threads, e \in outstanding : Consume(m, w, e)
      BY <2>3, Zenon DEF ConsumeStep
    <3>1. /\ thread' = [thread EXCEPT ![w] =
                          [at |-> "consumed", expected |-> e, body |-> m]]
          /\ held' = [held EXCEPT ![w] = {trustedTak} \ {Missing}]
          /\ UNCHANGED trustedTak
      BY Zenon DEF Consume, policyVars
    <3>2. CASE v = w
      <4>1. /\ thread'[v].at = "consumed"
            /\ held'[v] = {trustedTak} \ {Missing}
        BY <1>0, <3>1, <3>2, Zenon
      <4> QED BY <3>1, <4>1
    <3> QED BY <1>0, <2>1, <3>1, <3>2, Zenon
  <2>4. CASE AnyThreadStep
    <3> PICK w \in Threads : ThreadStep(w)
      BY <2>4, Zenon DEF AnyThreadStep
    <3>1. CASE LoadDigest(w)
      <4>1. /\ thread' = [thread EXCEPT ![w] =
                 [at |-> "digest", expected |-> thread[w].expected,
                  body |-> thread[w].body, digest |-> approvedDigest]]
            /\ thread[w].at = "consumed" /\ UNCHANGED <<held, trustedTak>>
        BY <3>1, Zenon DEF LoadDigest, historyVars, policyVars
      <4>2. CASE v = w
        <5>1. thread'[v].at = "digest" /\ Busy(v)
          BY <1>0, <4>1, <4>2 DEF Busy
        <5> QED BY <2>0, <4>1, <5>1
      <4> QED BY <1>0, <2>1, <4>1, <4>2, Zenon
    <3>2. CASE LoadTak(w)
      <4>1. /\ thread' = [thread EXCEPT ![w] =
                 [at |-> "policy", expected |-> thread[w].expected,
                  body |-> thread[w].body, digest |-> thread[w].digest,
                  key |-> trustedTak]]
            /\ thread[w].at = "digest" /\ trustedTak # Missing
            /\ UNCHANGED <<held, trustedTak>>
        BY <3>2, Zenon DEF LoadTak, historyVars, policyVars
      <4>2. CASE v = w
        <5>1. thread'[v].key = trustedTak /\ Busy(v)
          BY <1>0, <4>1, <4>2 DEF Busy
        <5> QED BY <2>0, <4>1, <5>1
      <4> QED BY <1>0, <2>1, <4>1, <4>2, Zenon
    <3>3. CASE Decide(w)
      <4>1. /\ thread' = [thread EXCEPT ![w] = Idle]
            /\ held' = [held EXCEPT ![w] = {}] /\ UNCHANGED trustedTak
        BY <3>3, Zenon DEF Decide, policyVars
      <4> QED BY <1>0, <2>1, <2>2, <4>1, Zenon
    <3> QED BY <3>1, <3>2, <3>3 DEF ThreadStep, WrongChallenge, NoDigest, NoTak,
                                    Accept, BadQuote, Reject
  <2>5. CASE IssueStep
    BY <2>1, <2>5, Zenon DEF IssueStep, ChallengeHandler, historyVars, policyVars
  <2>6. CASE RestartVerifier
    BY <2>2, <2>6, Zenon DEF RestartVerifier
  <2>7. CASE ProvisionTak
    <3>1. CASE thread[v] = Idle
      BY <2>2, <2>7, <3>1, Zenon DEF ProvisionTak
    <3>2. CASE thread[v] # Idle
      <4>1. /\ UNCHANGED thread
            /\ held'[v] = held[v] \cup ({trustedTak'} \ {Missing})
        BY <2>7, <3>2 DEF ProvisionTak
      <4> QED BY <2>0, <4>1
    <3> QED BY <3>1, <3>2
  <2>8. CASE ProvisionDigest
    BY <2>1, <2>8, Zenon DEF ProvisionDigest, historyVars
  <2>9. \/ ConsumeStep \/ AnyThreadStep \/ IssueStep \/ RestartVerifier
        \/ ProvisionTak \/ ProvisionDigest
        \/ UNCHANGED <<thread, held, trustedTak>>
    BY Footprints, ZenonT(60) DEF Footprint, policyVars
  <2> QED BY <2>1, <2>3, <2>4, <2>5, <2>6, <2>7, <2>8, <2>9, Zenon
<1> QED BY <1>1, <1>2, Zenon DEF Trusted

\* Every step leaves every result attested.
LEMMA NextResults ==
    ASSUME TypeOK, Undecided, Evidence, ResultIsAttested, Next
    PROVE  ResultIsAttested'
<1> SUFFICES ASSUME NEW m \in verifyResps'
             PROVE  /\ \E x \in challengeResps' : x.challenge = m.result.challenge
                    /\ Attested(m.result.challenge, m.result.digest)'
  BY SMTT(20) DEF ResultIsAttested, Attested
<1>1. ASSUME NEW x \in verifyResps, m.result = x.result
      PROVE  /\ \E y \in challengeResps' : y.challenge = m.result.challenge
             /\ Attested(m.result.challenge, m.result.digest)'
  <2>1. /\ \E y \in challengeResps : y.challenge = m.result.challenge
        /\ Attested(m.result.challenge, m.result.digest)
    BY <1>1, SMTT(20) DEF ResultIsAttested
  <2> QED BY <2>1, Growth, KnownStays
<1>2. CASE AcceptStep
  <2> PICK w \in Threads : Accept(w)
    BY <1>2, SMTT(20) DEF AcceptStep
  <2> DEFINE res == [challenge |-> thread[w].expected, digest |-> thread[w].digest,
                     request_binding |-> Expected(w)]
  <2>1. /\ thread[w].at = "policy" /\ Genuine(w)
        /\ verifyResps' = verifyResps \cup
             {[conn |-> thread[w].body.conn, result |-> res]}
    BY Zenon DEF Accept
  <2>2. CASE m \in verifyResps
    BY <1>1, <2>2, ZenonT(60)
  <2>3. CASE m \notin verifyResps
    <3>0. m = [conn |-> thread[w].body.conn, result |-> res]
      BY <2>1, <2>3, Zenon
    <3>1. m.result = res
      BY <3>0, Zenon
    <3>2. /\ m.result.challenge = thread[w].expected
          /\ m.result.digest = thread[w].digest
      BY <3>1
    <3>3. \E y \in challengeResps' : y.challenge = thread[w].expected
      BY <2>1, Growth, ZenonT(60) DEF Undecided, Known, Busy
    <3>4. Attested(thread[w].expected, thread[w].digest)
      BY <2>1, GenuineEvidence DEF Attested, Expected
    <3>5. Attested(m.result.challenge, m.result.digest)'
      BY <3>2, <3>4, KnownStays, Zenon
    <3> QED BY <3>2, <3>3, <3>5, SMTT(20)
  <2> QED BY <2>2, <2>3
<1>3. CASE MisdeliverStep
  BY <1>1, <1>3, MisdeliverCopies, SMTT(20)
<1>4. CASE UNCHANGED verifyResps
  BY <1>1, <1>4, ZenonT(60)
<1>5. AcceptStep \/ MisdeliverStep \/ UNCHANGED verifyResps
  BY Footprints, ZenonT(60) DEF Footprint
<1> QED BY <1>2, <1>3, <1>4, <1>5, Zenon

\* Every step leaves the clients with challenges that were issued, and with
\* results that are theirs.
LEMMA NextRelays ==
    ASSUME TypeOK, Fresh, ResultIsAttested, Relays, Next
    PROVE  Relays'
<1> DEFINE Good(c) == /\ at[c] \in {"quote", "verify"} => Known(challenge[c])
                      /\ at[c] = "accepted" =>
                           /\ challenge[c].request = args[c]
                           /\ \E m \in verifyResps :
                                /\ m.result.challenge = challenge[c]
                                /\ Attested(challenge[c], m.result.digest)
<1>1. ASSUME NEW d \in Clients, UNCHANGED <<args[d], challenge[d]>>,
             \/ at'[d] = at[d]
             \/ at'[d] \notin {"quote", "verify", "accepted"}
             \/ at[d] = "quote" /\ at'[d] = "verify"
      PROVE  Good(d)'
  <2>1. Good(d)
    BY DEF Relays, AcceptedIsAttested
  <2>2. /\ \A ch : Known(ch) => Known(ch)'
        /\ \A ch, digest : Attested(ch, digest) => Attested(ch, digest)'
        /\ verifyResps \subseteq verifyResps'
    BY KnownStays, Growth
  <2>3. at'[d] \in {"quote", "verify"} => Known(challenge[d])'
    BY <1>1, <2>1, <2>2, ZenonT(60)
  <2>4. ASSUME at'[d] = "accepted"
        PROVE  /\ challenge'[d].request = args'[d]
               /\ \E m \in verifyResps' :
                    /\ m.result.challenge = challenge'[d]
                    /\ Attested(challenge[d], m.result.digest)'
    <3>1. at[d] = "accepted"
      BY <1>1, <2>4, SMTT(20)
    <3>2. PICK m \in verifyResps : /\ m.result.challenge = challenge[d]
                                   /\ Attested(challenge[d], m.result.digest)
      BY <2>1, <3>1
    <3>3. Attested(challenge[d], m.result.digest)'
      BY <1>1, <2>2, <3>2, Zenon
    <3> QED BY <1>1, <2>1, <2>2, <3>1, <3>2, <3>3
  <2> QED BY <2>3, <2>4, SMTT(20)
<1>2. CASE UNCHANGED clientVars
  BY <1>1, <1>2, ZenonT(60) DEF clientVars, Relays, AcceptedIsAttested
<1>3. CASE ClientStep
  <2> PICK c \in Clients : \/ RequestChallenge(c) \/ ClientReceives(c)
                           \/ ClientFails(c)
    BY <1>3, Zenon DEF ClientStep
  <2>1. /\ DOMAIN at = Clients /\ DOMAIN challenge = Clients
        /\ UNCHANGED args
        /\ \A d \in Clients \ {c} : UNCHANGED <<at[d], challenge[d]>>
    BY Zenon
       DEF RequestChallenge, ClientReceives, ClientFails, RequestQuote,
           RequestVerify, ReceiveResult, ChallengeFails, QuoteOrVerifyFails,
           TypeOK
  <2>2. \A d \in Clients \ {c} : Good(d)'
    BY <1>1, <2>1, Zenon
  <2>3. Good(c)'
    <3>1. CASE RequestChallenge(c) \/ ClientFails(c) \/ RequestVerify(c)
      <4>1. /\ UNCHANGED <<args[c], challenge[c]>>
            /\ \/ at'[c] \in {"challenge", "failed", "start"}
               \/ at[c] = "quote" /\ at'[c] = "verify"
        BY <2>1, <3>1, Zenon
           DEF RequestChallenge, ClientFails, ChallengeFails, QuoteOrVerifyFails,
               RequestVerify
      <4> QED BY <1>1, <4>1, Zenon
    <3>2. CASE RequestQuote(c)
      <4>1. PICK m \in challengeResps : challenge'[c] = m.challenge
        BY <2>1, <3>2, Zenon DEF RequestQuote
      <4>2. at'[c] = "quote" /\ UNCHANGED challengeResps
        BY <2>1, <3>2, ZenonT(60) DEF RequestQuote, respVars
      <4> QED BY <4>1, <4>2, Zenon DEF Known
    <3>3. CASE ReceiveResult(c)
      <4>1. PICK m \in verifyResps :
              at' = [at EXCEPT ![c] = IF Accepts(c, m.result)
                                      THEN "accepted" ELSE "failed"]
        BY <3>3, Zenon DEF ReceiveResult
      <4>2. /\ at[c] = "verify" /\ UNCHANGED <<args, challenge>>
            /\ UNCHANGED verifyResps
        BY <3>3 DEF ReceiveResult, respVars
      <4>3. CASE ~Accepts(c, m.result)
        BY <1>1, <2>1, <4>1, <4>2, <4>3, ZenonT(60)
      <4>4. CASE Accepts(c, m.result)
        <5>1. Known(challenge[c]) /\ Known(m.result.challenge)
          BY <4>2, ZenonT(60) DEF Relays, ResultIsAttested, Known
        <5>2. m.result.challenge = challenge[c]
          BY <4>4, <5>1 DEF Accepts, Known, Fresh
        <5>3. challenge[c].request = args[c]
          BY <4>4, <5>2, Zenon DEF Accepts
        <5>4. Attested(challenge[c], m.result.digest)
          BY <5>2, Zenon DEF ResultIsAttested
        <5>5. Attested(challenge[c], m.result.digest)'
          BY <4>2, <5>4, KnownStays, ZenonT(60)
        <5>6. at'[c] = "accepted"
          BY <2>1, <4>1, <4>4
        <5> QED BY <4>2, <5>2, <5>3, <5>5, <5>6
      <4> QED BY <4>3, <4>4
    <3> QED BY <3>1, <3>2, <3>3, Zenon DEF ClientReceives
  <2> QED BY <2>2, <2>3 DEF Relays, AcceptedIsAttested
<1> QED BY <1>2, <1>3, Footprints, SMTT(20) DEF Footprint

-----------------------------------------------------------------------------
(* What the protocol promises                                              *)

\* The initial states satisfy the inductive invariant.
LEMMA InitIInv == Init => IInv
<1> SUFFICES ASSUME Init PROVE IInv
  BY SMTT(20)
<1> USE DEF Init
<1>1. TypeOK
  <2>1. 0 \in 0..MaxEvents
    BY AttestationAssumption, SMTT(20)
  <2>2. Idle \in ThreadSet
    BY Zenon DEF ThreadSet
  <2>3. thread \in [Threads -> ThreadSet] /\ held \in [Threads -> SUBSET Keys]
    BY <2>2
  <2> QED BY <2>1, <2>3 DEF TypeOK
<1>2. Fresh /\ ResultIsAttested
  BY SMTT(20) DEF Fresh, ResultIsAttested
<1>3. \A w \in Threads : thread[w].at = "idle"
  BY SMTT(20) DEF Idle
<1>4. Undecided /\ Evidence /\ Trusted
  BY <1>3, SMTT(20) DEF Undecided, Evidence, Trusted, Busy
<1>5. Relays
  BY DEF Relays, AcceptedIsAttested
<1> QED BY <1>1, <1>2, <1>4, <1>5 DEF IInv

\* Every step preserves the inductive invariant.
LEMMA NextIInv == IInv /\ [Next]_vars => IInv'
<1>1. IInv /\ Next => IInv'
  BY NextTypes, NextFresh, NextUndecided, NextEvidence, NextTrusted,
     NextResults, NextRelays DEF IInv
<1>2. ASSUME IInv, UNCHANGED vars PROVE IInv'
  <2> USE <1>2 DEF vars, clientVars, reqVars, respVars, verifierVars, policyVars,
                   randomVars, historyVars, attesterVars
  <2>1. TypeOK'
    BY Zenon DEF IInv, TypeOK
  <2>2. Fresh' /\ Undecided'
    BY ZenonT(60) DEF IInv, Fresh, Undecided, Known, Busy
  <2>3. Evidence'
    BY Zenon DEF IInv, Evidence, Busy
  <2>4. Trusted'
    BY Zenon DEF IInv, Trusted, Known, Busy
  <2>5. ResultIsAttested' /\ Relays'
    BY DEF IInv, ResultIsAttested, Relays, AcceptedIsAttested, Attested, Known
  <2> QED BY <2>1, <2>2, <2>3, <2>4, <2>5, Zenon DEF IInv
<1> QED BY <1>1, <1>2

\* The inductive invariant holds throughout.
LEMMA Invariance == Spec => []IInv
BY InitIInv, NextIInv, PTL DEF Spec

\* Each challenge is decided at most once, with any number of threads, repeated
\* submissions and restarts, and the types are kept (OneVerdictPerChallenge;
\* the pop under challenge_lock of verifier.py).
THEOREM ChallengesDecidedOnce == Spec => []OneVerdictPerChallenge
<1>1. IInv => OneVerdictPerChallenge
  BY DEF IInv, Undecided, OneVerdictPerChallenge
<1> QED BY <1>1, Invariance, PTL

\* Every signed result names an issued challenge and an approved executable that
\* had the device sign the binding of that challenge (ResultIsAttested; verify
\* and verify_tarako_quote of verifier.py).
THEOREM ResultsAreAttested == Spec => []ResultIsAttested
<1>1. IInv => ResultIsAttested
  BY ZenonT(60) DEF IInv
<1> QED BY <1>1, Invariance, PTL

\* No signature is accepted for two challenges: it is accepted only for the
\* challenge whose binding it signs, and nonces are not repeated
\* (EvidenceUsedOnce; verify_tarako_quote and challenge of verifier.py).
THEOREM EvidenceIsUsedOnce == Spec => []EvidenceUsedOnce
<1>1. IInv => EvidenceUsedOnce
  <2> SUFFICES ASSUME IInv, NEW a \in accepted, NEW b \in accepted,
                      a.signature = b.signature
               PROVE  a.challenge = b.challenge
    BY SMTT(20) DEF EvidenceUsedOnce
  <2>1. /\ a.signature.user_data.nonce = a.challenge.nonce
        /\ b.signature.user_data.nonce = b.challenge.nonce
    BY BindingNonce DEF IInv, Trusted
  <2>2. PICK x \in challengeResps : x.challenge = a.challenge
    BY Zenon DEF IInv, Trusted, Known
  <2>3. PICK y \in challengeResps : y.challenge = b.challenge
    BY Zenon DEF IInv, Trusted, Known
  <2>4. x.challenge.nonce = y.challenge.nonce => x.challenge = y.challenge
    BY Zenon DEF IInv, Fresh
  <2> QED BY <2>1, <2>2, <2>3, <2>4, Zenon
<1> QED BY <1>1, Invariance, PTL

\* A client that prints a result has one for its own request and for the
\* challenge it relayed (AcceptedIsAttested; the checks of client.py's main).
THEOREM AcceptedResultsAreAttested == Spec => []AcceptedIsAttested
<1>1. IInv => AcceptedIsAttested
  BY DEF IInv, Relays
<1> QED BY <1>1, Invariance, PTL

\* Accepted evidence is signed by a key that trusted-tak.bin held while the
\* thread worked on the challenge, whenever the operator replaces the file
\* (EvidenceUnderTrustedKey; load_appraisal_policy and verify_tarako_quote).
THEOREM EvidenceIsUnderTrustedKey == Spec => []EvidenceUnderTrustedKey
<1>1. IInv => EvidenceUnderTrustedKey
  BY DEF IInv, Trusted, EvidenceUnderTrustedKey
<1> QED BY <1>1, Invariance, PTL

\* If no request has a character that only one of the two JSON encoders
\* escapes, a thread never turns down what quoteHandler made for its challenge
\* (GenuineEvidenceAccepted).  The hypothesis is needed: by BindingsAgree the
\* two sides differ on any other request.
THEOREM GenuineEvidenceIsAccepted ==
    ASSUME \A r \in Requests : \A i \in DOMAIN r : r[i] \in {"plain", "control"}
    PROVE  Spec => []GenuineEvidenceAccepted
<1>1. ASSUME NEW r \in Requests, NEW n
      PROVE  GoBinding(r, n) = make_request_binding(r, n)
  BY BindingsAgree, AttestationAssumption, Zenon
<1>2. IInv => GenuineEvidenceAccepted
  <2> SUFFICES ASSUME IInv, NEW w \in Threads, NEW m \in quoteResps,
                      thread[w].at = "policy", thread[w].digest = AttesterApp,
                      thread[w].body.tq = m.tq, m.tq.public_key = thread[w].key,
                      m.nonce = thread[w].expected.nonce,
                      m.request = thread[w].expected.request
               PROVE  Genuine(w)
    BY Zenon DEF GenuineEvidenceAccepted
  <2>1. /\ m.request \in Requests /\ m.tq \in TQSet /\ m.tq.signature \in QuoteSet
    BY Zenon DEF IInv, TypeOK, TQSet
  <2>2. Expected(w) = GoBinding(m.request, m.nonce)
    <3>1. Expected(w) = make_request_binding(m.request, m.nonce)
      BY DEF Expected
    <3> QED BY <1>1, <2>1, <3>1, ZenonT(60)
  <2>3. /\ m.tq.user_data = Expected(w)
        /\ m.tq.hash = <<AttesterApp, Expected(w)>>
        /\ m.tq.signature.key = thread[w].key
        /\ m.tq.signature.digest = AttesterApp
        /\ m.tq.signature.user_data = Expected(w)
    BY <2>2, Zenon DEF IInv, Evidence, FromHandler
  <2>4. m.tq.signature = [key |-> thread[w].key, digest |-> AttesterApp,
                          user_data |-> Expected(w)]
    BY <2>1, <2>3 DEF QuoteSet
  <2> QED BY <2>3, <2>4, Zenon DEF Genuine, verify_tarako_quote
<1> QED BY <1>2, Invariance, PTL
==============================================================================
