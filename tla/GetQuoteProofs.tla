---------------------------- MODULE GetQuoteProofs ----------------------------
(***************************************************************************)
(* Proofs about GetQuote, for every size of the guest's buffer and every   *)
(* reply of the quote generation service, in whatever chunks it arrives.   *)
(***************************************************************************)
EXTENDS GetQuote, TLAPS

GuestBuffers == [status : {"IN_FLIGHT", "SUCCESS", "ERROR"}, out_len : Nat,
                 payload : [from : Nat, len : Nat]]

Waiting == {"sending", "receiving"}

\* The timer and the watch exist exactly as long as the answer is undecided, and
\* until the last write the guest sees a request in flight.
OneCompletion ==
    /\ phase \in Waiting <=> status_code = "none"
    /\ phase \in Waiting => out_len = 0
    /\ timer = TRUE => phase \in Waiting
    /\ watch = TRUE => phase \in Waiting
    /\ phase # "done" => guest.status = "IN_FLIGHT"
    /\ phase = "done" => guest.status = status_code

\* What has been read of the reply so far.
Stream ==
    /\ phase = "sending" => received = 0
    /\ phase = "receiving" => received <= reply.length
    /\ phase = "receiving" /\ received > 0 => received < payload_len

\* A success is only ever decided for a whole quote, with its framing gone.
Unwrapped ==
    status_code = "SUCCESS" =>
        /\ reply.good
        /\ reply.length >= PREFIX + reply.size
        /\ reply.size > MESSAGE
        /\ received = reply.size - MESSAGE
        /\ base = HEADER

\* The payload is written before the header, the header before the status.
WriteOrder ==
    /\ phase = "write_quote" => out_len = 0
    /\ status_code = "ERROR" => out_len = 0
    /\ phase \in {"write_header", "write_status", "done"} =>
          (status_code = "SUCCESS" =>
              /\ out_len = received
              /\ guest.payload = [from |-> base, len |-> received])
    /\ phase \in {"write_status", "done"} => guest.out_len = out_len

\* The inductive invariant.
IInv == /\ TypeOK /\ guest \in GuestBuffers
        /\ OneCompletion /\ Stream /\ Unwrapped /\ WriteOrder

-----------------------------------------------------------------------------
(* tdx_qgs_parse_response                                                  *)

\* A reply that Parse calls incomplete leaves room in the buffer, so the next
\* read asks for at least one byte.
LEMMA IncompleteLeavesRoom ==
    ASSUME reply \in Replies, payload_len \in Capacities, NEW n \in Nat,
           Parse(n) = "incomplete"
    PROVE  n < payload_len
<1>1. reply.size \in Nat /\ reply.good \in BOOLEAN /\ payload_len \in Nat
  BY GetQuoteAssumption, Zenon DEF Replies
<1> QED BY <1>1 DEF Parse, PREFIX, MESSAGE, HEADER

\* A reply that Parse calls complete is good, has exactly the announced
\* length, and carries a quote of at least one byte that fits.
LEMMA CompleteIsWhole ==
    ASSUME reply \in Replies, payload_len \in Capacities, NEW n \in Nat,
           Parse(n) = "complete"
    PROVE  /\ reply.good
           /\ n = PREFIX + reply.size
           /\ reply.size > MESSAGE
           /\ reply.size - MESSAGE \in 1..payload_len
<1>1. reply.size \in Nat /\ reply.good \in BOOLEAN /\ payload_len \in Nat
  BY GetQuoteAssumption, Zenon DEF Replies
<1> QED BY <1>1 DEF Parse, PREFIX, MESSAGE, HEADER

-----------------------------------------------------------------------------
(* The invariant                                                           *)

\* The numbers that the code computes with are natural.
LEMMA Numbers ==
    ASSUME IInv
    PROVE  /\ payload_len \in Nat /\ reply.length \in Nat
           /\ received \in 0..payload_len /\ out_len \in 0..payload_len
           /\ base \in Nat
<1>1. /\ reply \in Replies /\ payload_len \in Capacities
      /\ received \in 0..payload_len /\ out_len \in 0..payload_len
      /\ base \in {0, HEADER}
  BY DEF IInv, TypeOK
<1>2. payload_len \in Nat
  BY <1>1, GetQuoteAssumption
<1>3. reply.length \in Nat
  BY <1>1, GetQuoteAssumption, Zenon DEF Replies
<1>4. base \in Nat
  BY <1>1 DEF HEADER, PREFIX, MESSAGE
<1> QED BY <1>1, <1>2, <1>3, <1>4

\* The initial state satisfies the inductive invariant.
LEMMA InitIInv == Init => IInv
<1> SUFFICES ASSUME Init PROVE IInv
  OBVIOUS
<1> USE GetQuoteAssumption DEF Init
<1>1. TypeOK /\ guest \in GuestBuffers
  BY DEF TypeOK, GuestBuffers
<1>2. OneCompletion /\ Stream /\ Unwrapped /\ WriteOrder
  BY DEF OneCompletion, Waiting, Stream, Unwrapped, WriteOrder
<1> QED BY <1>1, <1>2 DEF IInv

\* A callback that ends the request with an error preserves the invariant.
LEMMA ErrorIInv ==
    ASSUME IInv, phase \in Waiting,
           phase' = "write_quote", timer' = FALSE, watch' = FALSE,
           out_len' = 0, status_code' = "ERROR",
           received' \in 0..payload_len,
           UNCHANGED <<reply, payload_len, base, guest>>
    PROVE  IInv'
<1>1. payload_len \in Nat /\ out_len' \in 0..payload_len
  BY Numbers
<1>2. TypeOK' /\ (guest \in GuestBuffers)'
  <2>1. timer' \in BOOLEAN /\ watch' \in BOOLEAN
    BY Zenon
  <2> QED BY <1>1, <2>1 DEF IInv, TypeOK
<1>3. OneCompletion' /\ Stream' /\ Unwrapped' /\ WriteOrder'
  BY DEF IInv, OneCompletion, Waiting, Stream, Unwrapped, WriteOrder
<1> QED BY <1>2, <1>3 DEF IInv

\* tdx_get_quote_read preserves the invariant.
LEMMA ReadIInv ==
    ASSUME IInv, NEW n \in Lengths, Read(n)
    PROVE  IInv'
<1> DEFINE total == received + n
<1>1. /\ reply \in Replies /\ payload_len \in Capacities /\ payload_len \in Nat
      /\ received \in 0..payload_len /\ n \in 1..payload_len - received
      /\ phase = "receiving" /\ total <= reply.length
      /\ UNCHANGED <<reply, payload_len, guest>>
  BY GetQuoteAssumption DEF IInv, TypeOK, Read, Room
<1>2. total \in 1..payload_len
  BY <1>1
<1> HIDE DEF total
<1>3. CASE Parse(total) = "invalid"
  <2>1. /\ received' = total /\ UNCHANGED base
        /\ phase' = "write_quote" /\ timer' = FALSE /\ watch' = FALSE
        /\ out_len' = 0 /\ status_code' = "ERROR"
    BY <1>3, Zenon DEF Read, Cleanup, total
  <2>2. received' \in 0..payload_len /\ phase \in Waiting
    BY <1>1, <1>2, <2>1 DEF Waiting
  <2> QED BY <1>1, <2>1, <2>2, ErrorIInv, Zenon
<1>4. CASE Parse(total) = "incomplete"
  <2>1. /\ received' = total
        /\ UNCHANGED <<phase, base, status_code, out_len, timer, watch>>
    BY <1>4, Zenon DEF Read, total
  <2>2. received' < payload_len
    BY <1>1, <1>2, <1>4, <2>1, IncompleteLeavesRoom
  <2>3. TypeOK' /\ (guest \in GuestBuffers)'
    BY <1>1, <1>2, <2>1 DEF IInv, TypeOK
  <2>4. OneCompletion' /\ Unwrapped' /\ WriteOrder'
    BY <1>1, <2>1 DEF IInv, OneCompletion, Waiting, Unwrapped, WriteOrder
  <2>5. Stream'
    BY <1>1, <2>1, <2>2 DEF Stream
  <2> QED BY <2>3, <2>4, <2>5 DEF IInv
<1>5. CASE Parse(total) = "complete"
  <2>1. /\ received' = reply.size - MESSAGE /\ base' = HEADER
        /\ phase' = "write_quote" /\ timer' = FALSE /\ watch' = FALSE
        /\ out_len' = 0
        /\ received' \in 1..payload_len => status_code' = "SUCCESS"
    BY <1>5 DEF Read, Cleanup, total
  <2>2. /\ reply.good /\ total = PREFIX + reply.size /\ reply.size > MESSAGE
        /\ received' \in 1..payload_len
    BY <1>1, <1>2, <1>5, <2>1, CompleteIsWhole
  <2>3. status_code' = "SUCCESS"
    BY <2>1, <2>2
  <2>4. TypeOK' /\ (guest \in GuestBuffers)'
    <3>1. timer' \in BOOLEAN /\ watch' \in BOOLEAN
      BY <2>1, Zenon
    <3>2. out_len' \in 0..payload_len /\ received' \in 0..payload_len
      BY <1>1, <2>1, <2>2
    <3> QED BY <1>1, <2>1, <2>3, <3>1, <3>2 DEF IInv, TypeOK
  <2>5. OneCompletion' /\ Stream' /\ WriteOrder'
    BY <1>1, <2>1, <2>3 DEF IInv, OneCompletion, Waiting, Stream, WriteOrder
  <2>6. Unwrapped'
    BY <1>1, <2>1, <2>2 DEF Unwrapped
  <2> QED BY <2>4, <2>5, <2>6 DEF IInv
<1>6. Parse(total) \in {"invalid", "incomplete", "complete"}
  BY DEF Parse
<1> QED BY <1>3, <1>4, <1>5, <1>6

\* The three writes of tdx_get_quote_completion preserve the invariant.
LEMMA CompletionIInv ==
    ASSUME IInv, Completion
    PROVE  IInv'
<1>0. /\ payload_len \in Nat
      /\ received \in 0..payload_len /\ out_len \in 0..payload_len
      /\ base \in Nat
  BY Numbers
<1>1. CASE WriteQuote
  <2>1. TypeOK' /\ (guest \in GuestBuffers)'
    BY <1>0, <1>1 DEF WriteQuote, IInv, TypeOK, GuestBuffers, HEADER, PREFIX,
       MESSAGE
  <2>2. OneCompletion'
    BY <1>1 DEF WriteQuote, IInv, GuestBuffers, OneCompletion, Waiting
  <2>3. Stream' /\ Unwrapped' /\ WriteOrder'
    BY <1>1 DEF WriteQuote, IInv, GuestBuffers, Stream, Unwrapped, WriteOrder
  <2> QED BY <2>1, <2>2, <2>3 DEF IInv
<1>2. CASE WriteHeader
  <2>1. TypeOK' /\ (guest \in GuestBuffers)'
    <3>1. /\ phase' \in {"write_status", "lost"}
          /\ UNCHANGED <<reply, payload_len, task>>
      BY <1>2 DEF WriteHeader
    <3>2. CASE UNCHANGED guest
      BY <3>1, <3>2 DEF task, IInv, TypeOK
    <3>3. CASE guest' = [guest EXCEPT !.status = "IN_FLIGHT",
                                      !.out_len = out_len]
      <4>1. guest \in GuestBuffers /\ out_len \in Nat
        BY <1>0 DEF IInv
      <4>2. guest' = [status |-> "IN_FLIGHT", out_len |-> out_len,
                      payload |-> guest.payload]
        BY <3>3, <4>1, Zenon DEF GuestBuffers
      <4>3. guest' \in GuestBuffers
        BY <4>1, <4>2 DEF GuestBuffers
      <4>4. /\ guest'.status = "IN_FLIGHT" /\ guest'.out_len = out_len
            /\ guest'.payload = guest.payload
        BY <4>2
      <4> QED BY <3>1, <4>3, <4>4 DEF task, IInv, TypeOK
    <3> QED BY <1>2, <3>2, <3>3 DEF WriteHeader
  <2>2. OneCompletion'
    BY <1>2, Zenon
       DEF WriteHeader, task, IInv, GuestBuffers, OneCompletion, Waiting
  <2>3. Stream' /\ Unwrapped' /\ WriteOrder'
    BY <1>2, Zenon
       DEF WriteHeader, task, IInv, GuestBuffers, Stream, Unwrapped,
           WriteOrder
  <2> QED BY <2>1, <2>2, <2>3 DEF IInv
<1>3. CASE WriteStatus
  <2>1. TypeOK' /\ (guest \in GuestBuffers)'
    BY <1>0, <1>3 DEF WriteStatus, task, IInv, TypeOK, GuestBuffers,
       OneCompletion, Waiting
  <2>2. OneCompletion'
    BY <1>3 DEF WriteStatus, task, IInv, GuestBuffers, OneCompletion, Waiting
  <2>3. Stream' /\ Unwrapped' /\ WriteOrder'
    BY <1>3 DEF WriteStatus, task, IInv, GuestBuffers, Stream, Unwrapped,
       WriteOrder
  <2> QED BY <2>1, <2>2, <2>3 DEF IInv
<1> QED BY <1>1, <1>2, <1>3 DEF Completion

\* Every step preserves the inductive invariant.
LEMMA NextIInv == IInv /\ [Next]_vars => IInv'
<1> SUFFICES ASSUME IInv, [Next]_vars PROVE IInv'
  OBVIOUS
<1>0. received \in 0..payload_len
  BY Numbers
<1>1. CASE SendReport
  <2>1. CASE phase' = "receiving" /\ UNCHANGED task
    <3>1. /\ phase = "sending" /\ UNCHANGED <<reply, payload_len, guest>>
          /\ received' = 0 /\ received = 0
      BY <1>1, <2>1 DEF SendReport, IInv, Stream, task
    <3>2. reply.length \in Nat
      BY Numbers
    <3>3. TypeOK' /\ (guest \in GuestBuffers)'
      BY <2>1, <3>1 DEF IInv, TypeOK, task
    <3>4. OneCompletion' /\ Stream' /\ Unwrapped' /\ WriteOrder'
      BY <2>1, <3>1, <3>2 DEF IInv, OneCompletion, Waiting, Stream, Unwrapped,
         WriteOrder, task
    <3> QED BY <3>3, <3>4 DEF IInv
  <2>2. CASE Cleanup("ERROR") /\ UNCHANGED <<received, base>>
    BY <1>0, <1>1, <2>2, ErrorIInv, Zenon DEF SendReport, Cleanup, Waiting
  <2> QED BY <1>1, <2>1, <2>2 DEF SendReport
<1>2. ASSUME NEW n \in Lengths, Read(n) PROVE IInv'
  BY <1>2, ReadIInv
<1>3. CASE ReadNothing
  BY <1>0, <1>3, ErrorIInv, Zenon DEF ReadNothing, Cleanup, Waiting
<1>4. CASE ReadFails
  BY <1>0, <1>4, ErrorIInv, Zenon DEF ReadFails, Cleanup, Waiting
<1>5. CASE Expired
  BY <1>0, <1>5, ErrorIInv, Zenon DEF Expired, Cleanup, IInv, OneCompletion
<1>6. CASE Completion
  BY <1>6, CompletionIInv
<1>7. CASE UNCHANGED vars
  BY <1>7 DEF vars, task, IInv, TypeOK, OneCompletion, Stream, Unwrapped,
     WriteOrder
<1> QED BY <1>1, <1>2, <1>3, <1>4, <1>5, <1>6, <1>7 DEF Next

\* The inductive invariant holds in every reachable state.
LEMMA Invariance == Spec => []IInv
BY InitIInv, NextIInv, PTL DEF Spec

-----------------------------------------------------------------------------
(* The properties                                                          *)

\* GuestSeesWholeQuote: whenever the guest polls SUCCESS it has the whole
\* quote and its exact length, whenever it polls ERROR the length is 0
\* (tdx_get_quote_completion, tdx_qgs_parse_response).
THEOREM QuoteIsWhole == Spec => []GuestSeesWholeQuote
<1>1. IInv => GuestSeesWholeQuote
  BY DEF IInv, OneCompletion, Waiting, Unwrapped, WriteOrder,
     GuestSeesWholeQuote
<1> QED BY <1>1, Invariance, PTL

\* RoomToRead: tdx_get_quote_read never overruns its buffer and never asks
\* for zero bytes of a reply that it has begun to receive.
THEOREM ReadsHaveRoom == Spec => []RoomToRead
<1>1. IInv => RoomToRead
  BY DEF IInv, Stream, RoomToRead
<1> QED BY <1>1, Invariance, PTL

\* StatusIsFinal: neither getquote_expired nor data that comes late changes
\* anything in the guest's buffer once a status was published.
THEOREM StatusNeverChanges == Spec => StatusIsFinal
<1>1. ASSUME IInv, Next, guest.status # "IN_FLIGHT"
      PROVE  UNCHANGED guest
  <2>1. phase = "done"
    BY <1>1 DEF IInv, OneCompletion
  <2> QED
    BY <1>1, <2>1 DEF Next, SendReport, Read, ReadNothing, ReadFails, Expired,
       Completion, WriteQuote, WriteHeader, WriteStatus
<1>2. IInv /\ [Next]_vars => [guest.status # "IN_FLIGHT" => UNCHANGED guest]_vars
  BY <1>1
<1> QED BY <1>2, Invariance, PTL DEF Spec, StatusIsFinal
==============================================================================
