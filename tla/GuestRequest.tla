---------------------------- MODULE GuestRequest ----------------------------
(***************************************************************************)
(* SEV guest requests: sev_typed_guest_request and the GuestRequestCrypto  *)
(* object it uses, called by any number of Threads for attestation reports *)
(* and for the TSC state.  The request and its answer travel through two   *)
(* pages shared with the host to the secure processor (PSP), which is      *)
(* external: it answers the request that carries the sequence number it    *)
(* expects.  The cipher context and the iv array are one object for all    *)
(* threads; every call into OpenSSL is a step of its own.  A message is    *)
(* its sequence number, its body (the call it belongs to), the iv its body *)
(* was encrypted with and its tag: what the context had been fed.          *)
(***************************************************************************)
EXTENDS Integers, Sequences

CONSTANTS
    Threads,
    MaxCalls,     \* bound: calls per thread
    UserSizes,    \* sizes of user_data, in bytes
    HostFails     \* whether the host may fail or lose a request

ASSUME GuestRequestAssumption == MaxCalls \in Nat /\ UserSizes \subseteq Nat /\ HostFails \in BOOLEAN

VARIABLES
    lock,         \* request_lock: its holder, or {}
    msg_seq_num,
    iv, ctx,      \* of the GuestRequestCrypto singleton
    ready,        \* the singleton is initialised
    request_page, response_page,
    psp,          \* sequence number the PSP expects next
    pc, calls,    \* per thread: program counter and number of calls so far
    request,      \* per thread: its message in guest memory, then ...
    response,     \* ... the copy of the answer, and ...
    payload,      \* ... the response payload
    aborted,      \* where kabort() was called, or "no"
    fault         \* history: the host or the library has failed

crypto == <<iv, ctx, ready>>
shared == <<lock, msg_seq_num, request_page, response_page, psp>>
local  == <<request, response, payload>>
vars   == <<shared, crypto, pc, calls, local, aborted, fault>>

\* A body names the call it belongs to; two that belong to none.
NoBody  == [who |-> "none", call |-> 0, kind |-> "none"]
Garbage == [who |-> "none", call |-> 1, kind |-> "none"]

\* What a context has computed from the headers and the texts it was fed.
Digest(n, aad, text) == [iv |-> n, aad |-> aad, text |-> text]
NoTag == Digest(0, <<>>, <<>>)

\* A message that is not encrypted yet.
GuestRequestMessage(n, body) == [seq |-> n, body |-> body, iv |-> 0, tag |-> NoTag]
None == GuestRequestMessage(0, NoBody)

\* A message as the PSP seals it, and the only form in which it accepts one.
Sealed(n, body) == [seq |-> n, body |-> body, iv |-> n, tag |-> Digest(n, <<body.kind>>, <<body>>)]

FreshCtx == [mode |-> "none", iv |-> 0, aad |-> <<>>, text |-> <<>>, tag |-> NoTag]

Init ==
    /\ lock = {} /\ msg_seq_num = 1 /\ psp = 1
    /\ iv = 0 /\ ctx = FreshCtx /\ ready = FALSE
    /\ request_page = None /\ response_page = None
    /\ pc = [t \in Threads |-> "out"]
    /\ calls = [t \in Threads |-> 0]
    /\ request = [t \in Threads |-> None]
    /\ response = [t \in Threads |-> None]
    /\ payload = [t \in Threads |-> NoBody]
    /\ aborted = "no" /\ fault = FALSE

\* A step of a thread of a machine that has not been shut down by kabort().
Goto(t, p, q) == aborted = "no" /\ pc[t] = p /\ pc' = [pc EXCEPT ![t] = q]

kabort(t, p, site) ==
    /\ aborted = "no" /\ pc[t] = p
    /\ aborted' = site
    /\ UNCHANGED <<shared, crypto, pc, calls, local>>

-----------------------------------------------------------------------------
\* ReportRequestPayload and TscRequestPayload: what is asked for, and by whom.
RequestPayload(t, kind) == [who |-> t, call |-> calls[t], kind |-> kind]

\* A call: the request payload is built, the response payload is cleared.
Enter(t, kind) ==
    /\ Goto(t, "out", "lock")
    /\ calls[t] < MaxCalls
    /\ calls' = [calls EXCEPT ![t] = @ + 1]
    /\ request' = [request EXCEPT ![t] =
           GuestRequestMessage(0, RequestPayload(t, kind))]
    /\ payload' = [payload EXCEPT ![t] = NoBody]
    /\ UNCHANGED <<shared, crypto, response, aborted, fault>>

get_current_tsc_state_sev(t) == Enter(t, "tsc")

\* user_data has room for 0x40 bytes.
generate_attestation_report_sev(t, size) ==
    \/ size <= 64 /\ Enter(t, "report")
    \/ size > 64 /\ kabort(t, "out", "size") /\ UNCHANGED fault

\* ScopedSpinlock and the constructor of the request message.
Begin(t) ==
    /\ Goto(t, "lock", "get")
    /\ lock = {}
    /\ lock' = {t}
    /\ request' = [request EXCEPT ![t] = GuestRequestMessage(msg_seq_num, @.body)]
    /\ UNCHANGED <<msg_seq_num, request_page, response_page, psp, crypto, calls,
                   response, payload, aborted, fault>>

\* The lock is taken: exchange(1) returned 1.
Spin(t) == aborted = "no" /\ pc[t] = "lock" /\ lock # {} /\ UNCHANGED vars

\* GuestRequestCrypto::get(): the first call runs init, which OpenSSL may fail.
init(t) ==
    \/ /\ Goto(t, "get", "fill_e")
       /\ ready' = TRUE
       /\ UNCHANGED <<shared, iv, ctx, calls, local, aborted, fault>>
    \/ ~ready /\ HostFails /\ kabort(t, "get", "init") /\ fault' = TRUE

-----------------------------------------------------------------------------
(* encrypt and decrypt: std::fill(iv, 0), memcpy(iv, &sequence_number) and  *)
(* one call after the other on the one context.                             *)

SetIv(t, p, q, n) ==
    /\ Goto(t, p, q)
    /\ iv' = n
    /\ UNCHANGED <<shared, ctx, ready, calls, local, aborted, fault>>

\* A call into OpenSSL: when it does not succeed, kabort().
CtxCall(t, p, q, ok, ctx2, request2, payload2) ==
    IF ok
      THEN /\ Goto(t, p, q)
           /\ ctx' = ctx2
           /\ request' = [request EXCEPT ![t] = request2]
           /\ payload' = [payload EXCEPT ![t] = payload2]
           /\ UNCHANGED <<shared, iv, ready, calls, response, aborted, fault>>
      ELSE kabort(t, p, p) /\ UNCHANGED fault

\* OpenSSL, external.  Init resets the context.  The other calls are refused in
\* the wrong mode or after the final one, a header is refused after text, and
\* the final call of a decryption unless the tag is that of what was fed.
EvpInit(mode) == [FreshCtx EXCEPT !.mode = mode, !.iv = iv]
EvpAad(body)  == [ctx EXCEPT !.aad = Append(@, body.kind)]
EvpText(body) == [ctx EXCEPT !.text = Append(@, body)]
Fed           == Digest(ctx.iv, ctx.aad, ctx.text)
\* The text comes out right under its own iv and at the start of the stream.
EvpPlain(m)   == IF ctx.iv = m.iv /\ ctx.text = <<>> THEN m.body ELSE Garbage

encrypt(t) ==
    LET r == request[t]
        w == payload[t]
        Enc == ctx.mode = "enc"
        Call(p, q, ok, ctx2, r2) == CtxCall(t, p, q, ok, ctx2, r2, w)
    IN  \/ SetIv(t, "fill_e", "copy_e", 0)
        \/ SetIv(t, "copy_e", "init_e", r.seq)
        \/ Call("init_e", "aad_e", TRUE, EvpInit("enc"), r)
        \/ Call("aad_e", "text_e", Enc /\ ctx.text = <<>>, EvpAad(r.body), r)
        \/ Call("text_e", "final_e", Enc, EvpText(r.body), [r EXCEPT !.iv = ctx.iv])
        \/ Call("final_e", "tag_e", Enc, [ctx EXCEPT !.mode = "enc_end"], r)
        \/ Call("tag_e", "publish", ctx.mode = "enc_end", ctx, [r EXCEPT !.tag = Fed])

\* Mutant: the sequence number is read again after it was advanced, and the
\* final call, whose result says so, is left out.
decrypt_NotAuthenticated(t) ==
    LET r == request[t]
        m == response[t]
        Call(p, q, ok, ctx2, w2) == CtxCall(t, p, q, ok, ctx2, r, w2)
    IN  \/ SetIv(t, "fill_d", "init_d", msg_seq_num)
        \/ Call("init_d", "text_d", TRUE, EvpInit("dec"), payload[t])
        \/ Call("text_d", "done", ctx.mode = "dec", EvpText(m.body), EvpPlain(m))

decrypt(t) ==
    LET r == request[t]
        m == response[t]
        Dec == ctx.mode = "dec"
        Call(p, q, ok, ctx2, w2) == CtxCall(t, p, q, ok, ctx2, r, w2)
    IN  \/ SetIv(t, "fill_d", "copy_d", 0)
        \/ SetIv(t, "copy_d", "init_d", m.seq)
        \/ Call("init_d", "aad_d", TRUE, EvpInit("dec"), payload[t])
        \/ Call("aad_d", "text_d", Dec /\ ctx.text = <<>>, EvpAad(m.body), payload[t])
        \/ Call("text_d", "tag_d", Dec, EvpText(m.body), EvpPlain(m))
        \/ Call("tag_d", "final_d", Dec, [ctx EXCEPT !.tag = m.tag], payload[t])
        \/ Call("final_d", "done", Dec /\ ctx.tag = Fed, [ctx EXCEPT !.mode = "dec_end"], payload[t])

-----------------------------------------------------------------------------
\* memcpy of the finished request to the shared page
Publish(t) ==
    /\ Goto(t, "publish", "vmgexit")
    /\ request_page' = request[t]
    /\ UNCHANGED <<lock, msg_seq_num, response_page, psp, crypto, calls, local, aborted, fault>>

\* The PSP, external: it answers the sealed request it expects and no other.
Expected == request_page = Sealed(psp, request_page.body)
PspAnswers ==
    /\ Expected
    /\ psp' = psp + 2
    /\ response_page' = Sealed(psp + 1, request_page.body)

\* vmgexit() and the status.  A host that fails returns a status other than
\* success, or success with the answer lost, before or after the PSP saw the
\* request.
sev_guest_request(t) ==
    \/ /\ Goto(t, "vmgexit", "check")
       /\ PspAnswers
       /\ UNCHANGED <<lock, msg_seq_num, request_page, crypto, calls, local, aborted, fault>>
    \/ ~Expected /\ kabort(t, "vmgexit", "status") /\ UNCHANGED fault
    \/ HostFails /\ kabort(t, "vmgexit", "status") /\ fault' = TRUE
    \/ /\ HostFails
       /\ Goto(t, "vmgexit", "check")
       /\ psp' = psp \/ (Expected /\ psp' = psp + 2)
       /\ fault' = TRUE
       /\ UNCHANGED <<lock, msg_seq_num, request_page, response_page, crypto, calls, local, aborted>>

CheckWith(t, ok, next) ==
    IF ok
      THEN /\ Goto(t, "check", "fill_d")
           /\ response' = [response EXCEPT ![t] = response_page]
           /\ msg_seq_num' = next
           /\ lock' = {}
           /\ UNCHANGED <<request_page, response_page, psp, crypto, calls, request, payload, aborted, fault>>
      ELSE kabort(t, "check", "sequence") /\ UNCHANGED fault

\* Mutants: nothing is counted; whatever number the page holds is taken over.
CheckResponse_CountsNothing(t) == CheckWith(t, response_page.seq = msg_seq_num + 1, msg_seq_num)
CheckResponse_TakesNumber(t) == CheckWith(t, TRUE, response_page.seq + 1)

\* The answer is copied and its sequence number checked; the lock is released.
CheckResponse(t) == CheckWith(t, response_page.seq = msg_seq_num + 1, msg_seq_num + 2)

\* The payload is handed to the caller.
Return(t) ==
    /\ Goto(t, "done", "out")
    /\ UNCHANGED <<shared, crypto, calls, local, aborted, fault>>

Step(t) ==
    \/ init(t) \/ encrypt(t) \/ Publish(t) \/ sev_guest_request(t)
    \/ CheckResponse(t) \/ decrypt(t) \/ Return(t)

\* All calls were made, or the machine is down.
Halted ==
    /\ aborted # "no" \/ \A t \in Threads : pc[t] = "out" /\ calls[t] = MaxCalls
    /\ UNCHANGED vars

Next ==
    \/ \E t \in Threads :
         \/ get_current_tsc_state_sev(t)
         \/ \E size \in UserSizes : generate_attestation_report_sev(t, size)
         \/ Begin(t) \/ Spin(t)
         \/ Step(t)
    \/ Halted

Spec == Init /\ [][Next]_vars

-----------------------------------------------------------------------------
Holding(t) == pc[t] \in {"get", "fill_e", "copy_e", "init_e", "aad_e", "text_e", "final_e", "tag_e",
                         "publish", "vmgexit", "check"}
Decrypting(t) == pc[t] \in {"fill_d", "copy_d", "init_d", "aad_d", "text_d", "final_d", "tag_d", "done"}

\* "Sequence number of messages that needs to be strictly controlled to match
\* PSP": whoever holds the lock, the two ends agree until the answer is in the
\* page, and agree again when the lock is free; an answer the host lost is
\* never skipped over.
SequenceInStep ==
    \/ psp = msg_seq_num
    \/ psp = msg_seq_num + 2 /\ \E t \in Threads : pc[t] = "check" /\ t \in lock

\* A thread decrypts the answer to its own request, also when the host lost
\* an answer and left an older one in the page.
AnswersItsRequest ==
    \A t \in Threads : Decrypting(t) =>
        response[t] = Sealed(request[t].seq + 1, request[t].body)

\* sev_typed_guest_request "populates a mutable response payload": what a call
\* hands to its caller is the plaintext of the answer.
PopulatesResponse == \A t \in Threads : pc[t] = "done" => payload[t] = request[t].body

\* kabort() is only ever called for a failure of the host or the library, or
\* for user data that is too long: an exchange in which every party did its
\* part is completed.
AbortsOnlyForFault == aborted # "no" => fault \/ aborted = "size"

=============================================================================
