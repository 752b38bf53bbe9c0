------------------------------- MODULE GetQuote -------------------------------
(***************************************************************************)
(* The TDX GetQuote path that tdx/qemu-qgs-protocol.patch and              *)
(* tdx/tdx-qgs-protocol.h add to QEMU: one request, from the moment it is  *)
(* sent to the quote generation service (QGS) to the status that the guest *)
(* polls for.  Connecting is QEMU's own code and comes before.             *)
(*                                                                         *)
(* The reply is a stream that arrives in chunks of any size and may stop,  *)
(* or be closed, anywhere.  What the code reads of it is its length prefix *)
(* (`size`) and whether the fields of the message header are the expected  *)
(* ones (`good`); the bytes themselves are named by their place in the     *)
(* stream.  The completion runs in QEMU's main loop, the guest beside it:  *)
(* its three writes to guest memory are steps, and each may fail.          *)
(*                                                                         *)
(* A definition named Bug... is the definition after it with one plausible *)
(* coding error in it; no specification uses it.                           *)
(***************************************************************************)
EXTENDS Naturals

CONSTANTS Capacities,   \* payload lengths of the guest's buffer
          Sizes,        \* length prefixes that the reply may begin with
          Lengths       \* bytes that the reply may have

ASSUME GetQuoteAssumption == /\ Capacities \subseteq Nat
                             /\ Sizes \subseteq Nat
                             /\ Lengths \subseteq Nat

PREFIX  == 4              \* TDX_QGS_PREFIX_SIZE
MESSAGE == 24             \* TDX_QGS_MESSAGE_SIZE
HEADER  == PREFIX + MESSAGE

VARIABLES
    reply,        \* what QGS sends: size, good, length, and if it then closes
    payload_len,  \* room in the guest's buffer
    phase,        \* sending, receiving, the writes of the completion, done
    received,     \* receive_buf_received
    base,         \* place in the stream of receive_buf[0]
    status_code,  \* SUCCESS or ERROR, once it is decided
    out_len,      \* hdr.out_len
    timer,        \* the transaction timer is armed
    watch,        \* a watch on the socket is installed
    guest         \* the guest's buffer: status, out_len, payload

task == <<received, base, status_code, out_len, timer, watch>>
vars == <<reply, payload_len, phase, task, guest>>

Replies == [size : Sizes, good : BOOLEAN, length : Lengths, closes : BOOLEAN]

Init == /\ reply \in Replies
        /\ payload_len \in Capacities
        /\ phase = "sending"
        /\ received = 0 /\ base = 0 /\ out_len = 0
        /\ status_code = "none"
        /\ timer = TRUE /\ watch = TRUE
        /\ guest = [status |-> "IN_FLIGHT", out_len |-> 0,
                    payload |-> [from |-> 0, len |-> 0]]

-----------------------------------------------------------------------------
(* tdx_qgs_parse_response                                                  *)

\* ... with the prefix not counted against the capacity.
BugParse(n) ==
    LET size == reply.size
    IN  IF n > payload_len \/ payload_len < HEADER THEN "invalid"
        ELSE IF n < PREFIX THEN "incomplete"
        ELSE IF size <= MESSAGE \/ size > payload_len \/ n > PREFIX + size
             THEN "invalid"
        ELSE IF n < HEADER THEN "incomplete"
        ELSE IF ~reply.good THEN "invalid"
        ELSE IF n # PREFIX + size THEN "incomplete"
        ELSE "complete"

Parse(n) ==
    LET size == reply.size
    IN  IF n > payload_len \/ payload_len < HEADER THEN "invalid"
        ELSE IF n < PREFIX THEN "incomplete"
        ELSE IF \/ size <= MESSAGE
                \/ size > payload_len - PREFIX
                \/ n > PREFIX + size
             THEN "invalid"
        ELSE IF n < HEADER THEN "incomplete"
        ELSE IF ~reply.good THEN "invalid"
        ELSE IF n # PREFIX + size THEN "incomplete"
        ELSE "complete"

-----------------------------------------------------------------------------
(* The callbacks of the main loop, and tdx_generate_quote_cleanup          *)

\* ... with the timer left armed.
BugCleanup(status) ==
    /\ phase' = "write_quote"
    /\ watch' = FALSE
    /\ UNCHANGED timer
    /\ out_len' = 0
    /\ status_code' = status

\* Timer and watch go away and the completion begins: it resets out_len and
\* takes back a success without a quote that fits.
Cleanup(status) ==
    /\ phase' = "write_quote"
    /\ timer' = FALSE
    /\ watch' = FALSE
    /\ out_len' = 0
    /\ status_code' = IF status = "SUCCESS" /\ received' \in 1..payload_len
                      THEN "SUCCESS" ELSE "ERROR"

\* The main loop runs a callback only between others.
MainLoop == phase \in {"sending", "receiving", "done", "lost"}

\* tdx_send_report, the last part of it; it fails if QGS is gone.
SendReport ==
    /\ MainLoop /\ watch /\ phase = "sending"
    /\ \/ phase' = "receiving" /\ UNCHANGED task
       \/ Cleanup("ERROR") /\ UNCHANGED <<received, base>>
    /\ UNCHANGED <<reply, payload_len, guest>>

\* The bytes that qio_channel_read is asked for.
Room == payload_len - received

\* tdx_get_quote_read: n bytes have arrived.
Read(n) ==
    /\ MainLoop /\ watch /\ phase = "receiving"
    /\ n \in 1..Room
    /\ received + n <= reply.length
    /\ CASE Parse(received + n) = "invalid" ->
              /\ received' = received + n
              /\ UNCHANGED base
              /\ Cleanup("ERROR")
         [] Parse(received + n) = "incomplete" ->
              /\ received' = received + n
              /\ UNCHANGED <<phase, base, status_code, out_len, timer, watch>>
         [] Parse(received + n) = "complete" ->
              /\ received' = reply.size - MESSAGE
              /\ base' = HEADER
              /\ Cleanup("SUCCESS")
    /\ UNCHANGED <<reply, payload_len, guest>>

\* The read returns 0: at the end of the stream, or if no byte was asked for.
ReadNothing ==
    /\ MainLoop /\ watch /\ phase = "receiving"
    /\ Room = 0 \/ (reply.closes /\ received = reply.length)
    /\ Cleanup("ERROR")
    /\ UNCHANGED <<reply, payload_len, received, base, guest>>

\* The read returns an error other than "try again".
ReadFails ==
    /\ MainLoop /\ watch /\ phase = "receiving"
    /\ Cleanup("ERROR")
    /\ UNCHANGED <<reply, payload_len, received, base, guest>>

\* ... with the timer started only when the request has been sent.
BugExpired ==
    /\ MainLoop /\ timer /\ phase # "sending"
    /\ Cleanup("ERROR")
    /\ UNCHANGED <<reply, payload_len, received, base, guest>>

\* getquote_expired.
Expired ==
    /\ MainLoop /\ timer
    /\ Cleanup("ERROR")
    /\ UNCHANGED <<reply, payload_len, received, base, guest>>

-----------------------------------------------------------------------------
(* tdx_get_quote_completion                                                *)

WriteQuote ==
    /\ phase = "write_quote"
    /\ phase' = "write_header"
    /\ \/ /\ status_code = "SUCCESS"
          /\ guest' = [guest EXCEPT !.payload =
                          [from |-> base, len |-> received]]
          /\ out_len' = received
          /\ UNCHANGED status_code
       \/ /\ status_code' = "ERROR"      \* failed before, or not written
          /\ UNCHANGED <<guest, out_len>>
    /\ UNCHANGED <<reply, payload_len, received, base, timer, watch>>

\* ... with the status published and the length not.
BugWriteHeader ==
    /\ phase = "write_header"
    /\ phase' = "write_status"
    /\ guest' = [guest EXCEPT !.status = status_code]
    /\ UNCHANGED <<reply, payload_len, task>>

\* The header, still IN_FLIGHT; if this fails the status is not written.
WriteHeader ==
    /\ phase = "write_header"
    /\ \/ /\ phase' = "write_status"
          /\ guest' = [guest EXCEPT !.status = "IN_FLIGHT",
                                    !.out_len = out_len]
       \/ phase' = "lost" /\ UNCHANGED guest
    /\ UNCHANGED <<reply, payload_len, task>>

WriteStatus ==
    /\ phase = "write_status"
    /\ \/ phase' = "done" /\ guest' = [guest EXCEPT !.status = status_code]
       \/ phase' = "lost" /\ UNCHANGED guest
    /\ UNCHANGED <<reply, payload_len, task>>

-----------------------------------------------------------------------------

Completion == WriteQuote \/ WriteHeader \/ WriteStatus

Next == \/ SendReport \/ \E n \in Lengths : Read(n)
        \/ ReadNothing \/ ReadFails \/ Expired
        \/ Completion

\* The timer fires if nothing disarms it, and the completion does not wait.
\* Nothing is assumed of QGS, or of how soon data is read.
Spec == Init /\ [][Next]_vars /\ WF_vars(Expired) /\ WF_vars(Completion)

-----------------------------------------------------------------------------
(* Properties                                                              *)

\* Every variable keeps its type, and the buffer is never overrun.
TypeOK ==
    /\ reply \in Replies /\ payload_len \in Capacities
    /\ phase \in {"sending", "receiving", "write_quote", "write_header",
                  "write_status", "done", "lost"}
    /\ received \in 0..payload_len /\ out_len \in 0..payload_len
    /\ base \in {0, HEADER}
    /\ status_code \in {"none", "SUCCESS", "ERROR"}
    /\ timer \in BOOLEAN /\ watch \in BOOLEAN
    /\ guest.status \in {"IN_FLIGHT", "SUCCESS", "ERROR"}
    /\ guest.out_len \in 0..payload_len
    /\ guest.payload.from \in {0, HEADER}
    /\ guest.payload.len \in 0..payload_len

\* "unwrap only a complete, successful, nonempty quote response" and "publish
\* output length before completion": a guest that reads SUCCESS, at whatever
\* moment it polls, finds the whole quote without its framing and its exact
\* length; one that reads ERROR finds the length 0.
GuestSeesWholeQuote ==
    /\ guest.status = "SUCCESS" =>
          /\ reply.good
          /\ reply.length >= PREFIX + reply.size
          /\ reply.size > MESSAGE
          /\ guest.out_len = reply.size - MESSAGE
          /\ guest.payload = [from |-> HEADER, len |-> guest.out_len]
    /\ guest.status = "ERROR" => guest.out_len = 0

\* A request is completed once: no timer and no late data change what the
\* guest was told.
StatusIsFinal == [][guest.status # "IN_FLIGHT" => UNCHANGED guest]_vars

\* While the reply is incomplete there is room to read more, so that a read
\* of 0 bytes always means that QGS closed the connection, as the message of
\* that error says; and the buffer is never overrun (TypeOK).
RoomToRead ==
    /\ TypeOK
    /\ phase = "receiving" /\ received > 0 => received < payload_len

\* The guest does not wait for ever, whatever QGS does, unless its buffer
\* cannot be written.
GuestIsAnswered == <>(guest.status # "IN_FLIGHT" \/ phase = "lost")
==============================================================================
