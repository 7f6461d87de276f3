------------------------- MODULE ConfidentialProofs -------------------------
(***************************************************************************)
(* Of the exchanges of a confidential guest, for any number of threads,    *)
(* calls, frames and repetitions and whatever the host refuses or loses:   *)
(* the sequence numbers of guest requests stay in step with the PSP and    *)
(* every answer that is decrypted is that to its own request; when calls   *)
(* do not overlap they are answered; the memory of allocate_visible is     *)
(* shared and has one owner; and the host sees the call that is made.      *)
(* The invariants are IInv and, on top of it, SerialInv for the requests,  *)
(* VInv for the visible memory and GhcbPageInv for the GHCB.               *)
(***************************************************************************)
EXTENDS Confidential, TLAPS

(* Guest requests.  The cipher context, which is shared without the lock,    *)
(* plays no part in the argument: encrypt and decrypt keep what it rests on. *)

\* What a message is made of; only its number is computed with.
IsMessage(m) == DOMAIN m = {"seq", "body", "iv", "tag"} /\ m.seq \in Nat

TypeInv ==
  /\ lock \subseteq Threads /\ msg_seq_num \in Nat /\ psp \in Nat
  /\ DOMAIN pc = Threads /\ DOMAIN request = Threads /\ DOMAIN response = Threads
  /\ \A t \in Threads : IsMessage(request[t])
  /\ response_page.seq \in Nat

\* The lock has one holder, and the code between Begin and CheckResponse is
\* only run by it.
LockInv ==
  /\ \A t \in Threads : Holding(t) <=> t \in lock
  /\ \A t, u \in lock : t = u

\* The holder's request has the current number and is the one in the page.
RequestInv ==
  \A t \in Threads :
    /\ Holding(t) => request[t].seq = msg_seq_num
    /\ pc[t] = "vmgexit" => request_page.body = request[t].body

\* Only after the exit, and before the check, the PSP may be ahead; the page
\* then holds the holder's answer or one that is too old to be accepted.
Answered(t) == response_page = Sealed(msg_seq_num + 1, request[t].body)
PageInv ==
  \/ psp = msg_seq_num /\ response_page.seq < msg_seq_num
  \/ /\ psp = msg_seq_num + 2
     /\ \E t \in lock : pc[t] = "check" /\ (response_page.seq < msg_seq_num \/ Answered(t))

IInv == TypeInv /\ LockInv /\ RequestInv /\ PageInv /\ AnswersItsRequest

\* A step of t that leaves alone all that the invariant is about, except that
\* t moves on with the lock held, with its answer in hand, or with neither.
Internal(t) ==
  /\ UNCHANGED <<shared, response>>
  /\ DOMAIN request' = Threads
  /\ \A u \in Threads : /\ IsMessage(request[u])'
                        /\ request'[u].seq = request[u].seq /\ request'[u].body = request[u].body
  /\ DOMAIN pc' = Threads /\ \A u \in Threads \ {t} : pc'[u] = pc[u]
  /\ Holding(t)' <=> Holding(t)
  /\ Decrypting(t)' => Decrypting(t)
  /\ pc'[t] = "vmgexit" => pc[t] = "vmgexit"
  /\ pc[t] = "check" => pc'[t] = "check"

-----------------------------------------------------------------------------

\* The initial state satisfies the invariant.
LEMMA RequestInitial == Init => IInv
  BY DEF Init, IInv, TypeInv, IsMessage, LockInv, RequestInv, PageInv, AnswersItsRequest, Holding,
         Decrypting, None, GuestRequestMessage

\* An internal step keeps the invariant.
LEMMA InternalStep == ASSUME IInv, NEW t \in Threads, Internal(t) PROVE IInv'
<1> USE DEF IInv, TypeInv, Internal, shared
<1>1. TypeInv'
  BY Zenon
<1>2. \A u \in Threads : (Holding(u)' <=> Holding(u)) /\ (Decrypting(u)' => Decrypting(u))
  BY Zenon DEF Holding, Decrypting
<1>3. LockInv'
  BY Zenon, <1>2 DEF LockInv
<1>4. RequestInv'
  BY Zenon, <1>2 DEF RequestInv
<1>5. PageInv'
  BY Zenon DEF PageInv, Answered, Sealed, Digest
<1>6. AnswersItsRequest'
  BY Zenon, <1>2 DEF AnswersItsRequest, Sealed, Digest
<1> QED BY Zenon, <1>1, <1>3, <1>4, <1>5, <1>6

\* A failure that is detected changes nothing that the invariant is about.
LEMMA AbortStep ==
  ASSUME IInv, NEW t \in Threads, NEW p, NEW site, kabort(t, p, site)
  PROVE  IInv'
<1>1. Internal(t)
  BY Zenon DEF kabort, Internal, local, shared, IInv, TypeInv, Holding, Decrypting, IsMessage
<1> QED BY Zenon, <1>1, InternalStep

\* encrypt works on the request and leaves its number and its body alone.
LEMMA EncryptStep == ASSUME IInv, NEW t \in Threads, encrypt(t) PROVE IInv'
<1> DEFINE r == request[t]
           Enc == ctx.mode = "enc"
           Call(p, q, ok, ctx2, r2) == CtxCall(t, p, q, ok, ctx2, r2, payload[t])
<1>1. ASSUME NEW p, NEW q, NEW n, SetIv(t, p, q, n),
             <<p, q>> \in {<<"fill_e", "copy_e">>, <<"copy_e", "init_e">>}
      PROVE  IInv'
  <2>1. Internal(t)
    BY Zenon, <1>1 DEF SetIv, Goto, Internal, local, shared, IInv, TypeInv, Holding, Decrypting, IsMessage
  <2> QED BY <2>1, InternalStep
<1>2. ASSUME NEW p, NEW q, NEW ok, NEW c, NEW r2, Call(p, q, ok, c, r2),
             p \in {"init_e", "aad_e", "text_e", "final_e", "tag_e"},
             q \in {"aad_e", "text_e", "final_e", "tag_e", "publish"},
             IsMessage(r2), r2.seq = r.seq, r2.body = r.body
      PROVE  IInv'
  <2>1. CASE ok
    <3>1. Internal(t)
      BY Zenon, <1>2, <2>1 DEF CtxCall, Goto, Internal, shared, IInv, TypeInv, Holding, Decrypting,
                        IsMessage
    <3> QED BY <3>1, InternalStep
  <2>2. CASE ~ok
    BY Zenon, <1>2, <2>2, AbortStep DEF CtxCall
  <2> QED BY <2>1, <2>2
<1>3. IsMessage(r) /\ \A x : /\ IsMessage([r EXCEPT !.iv = x]) /\ IsMessage([r EXCEPT !.tag = x])
                             /\ [r EXCEPT !.iv = x].seq = r.seq /\ [r EXCEPT !.iv = x].body = r.body
                             /\ [r EXCEPT !.tag = x].seq = r.seq
                             /\ [r EXCEPT !.tag = x].body = r.body
  BY Zenon DEF IInv, TypeInv, IsMessage
<1> HIDE DEF r
<1>4. \/ SetIv(t, "fill_e", "copy_e", 0)
      \/ SetIv(t, "copy_e", "init_e", r.seq)
      \/ Call("init_e", "aad_e", TRUE, EvpInit("enc"), r)
      \/ Call("aad_e", "text_e", Enc /\ ctx.text = <<>>, EvpAad(r.body), r)
      \/ Call("text_e", "final_e", Enc, EvpText(r.body), [r EXCEPT !.iv = ctx.iv])
      \/ Call("final_e", "tag_e", Enc, [ctx EXCEPT !.mode = "enc_end"], r)
      \/ Call("tag_e", "publish", ctx.mode = "enc_end", ctx, [r EXCEPT !.tag = Fed])
  BY Zenon DEF encrypt, r
<1> HIDE DEF Call, Enc
<1> QED BY Zenon, <1>1, <1>2, <1>3, <1>4

\* decrypt works on the payload only.
LEMMA DecryptStep == ASSUME IInv, NEW t \in Threads, decrypt(t) PROVE IInv'
<1> DEFINE m == response[t]
           Dec == ctx.mode = "dec"
           Call(p, q, ok, ctx2, w2) == CtxCall(t, p, q, ok, ctx2, request[t], w2)
<1>1. ASSUME NEW p, NEW q, NEW n, SetIv(t, p, q, n),
             <<p, q>> \in {<<"fill_d", "copy_d">>, <<"copy_d", "init_d">>}
      PROVE  IInv'
  <2>1. Internal(t)
    BY Zenon, <1>1 DEF SetIv, Goto, Internal, local, shared, IInv, TypeInv, Holding, Decrypting, IsMessage
  <2> QED BY <2>1, InternalStep
<1>2. ASSUME NEW p, NEW q, NEW ok, NEW c, NEW w2, Call(p, q, ok, c, w2),
             p \in {"init_d", "aad_d", "text_d", "tag_d", "final_d"},
             q \in {"aad_d", "text_d", "tag_d", "final_d", "done"}
      PROVE  IInv'
  <2>1. CASE ok
    <3>1. Internal(t)
      BY Zenon, <1>2, <2>1 DEF CtxCall, Goto, Internal, shared, IInv, TypeInv, Holding, Decrypting,
                        IsMessage
    <3> QED BY <3>1, InternalStep
  <2>2. CASE ~ok
    BY Zenon, <1>2, <2>2, AbortStep DEF CtxCall
  <2> QED BY <2>1, <2>2
<1>3. \/ SetIv(t, "fill_d", "copy_d", 0)
      \/ SetIv(t, "copy_d", "init_d", m.seq)
      \/ Call("init_d", "aad_d", TRUE, EvpInit("dec"), payload[t])
      \/ Call("aad_d", "text_d", Dec /\ ctx.text = <<>>, EvpAad(m.body), payload[t])
      \/ Call("text_d", "tag_d", Dec, EvpText(m.body), EvpPlain(m))
      \/ Call("tag_d", "final_d", Dec, [ctx EXCEPT !.tag = m.tag], payload[t])
      \/ Call("final_d", "done", Dec /\ ctx.tag = Fed, [ctx EXCEPT !.mode = "dec_end"], payload[t])
  BY Zenon DEF decrypt
<1> HIDE DEF Call, Dec, m
<1> QED BY Zenon, <1>1, <1>2, <1>3

\* A call that begins holds no lock and has no answer yet.
LEMMA EnterStep == ASSUME IInv, NEW t \in Threads, NEW kind, Enter(t, kind) PROVE IInv'
<1> USE DEF IInv, TypeInv, Enter, Goto, shared
<1>1. TypeInv'
  BY Zenon DEF IsMessage, GuestRequestMessage
<1>2. LockInv'
  BY Zenon DEF LockInv, Holding
<1>3. RequestInv'
  BY Zenon DEF RequestInv, Holding
<1>4. PageInv'
  BY Zenon DEF PageInv, Answered, Sealed, Digest
<1>5. AnswersItsRequest'
  BY Zenon DEF AnswersItsRequest, Decrypting, Sealed, Digest
<1> QED BY Zenon, <1>1, <1>2, <1>3, <1>4, <1>5

\* The lock is taken, and the request gets the current number.
LEMMA BeginStep == ASSUME IInv, NEW t \in Threads, Begin(t) PROVE IInv'
<1> USE DEF IInv, TypeInv, Begin, Goto
<1>1. TypeInv'
  BY Zenon DEF IsMessage, GuestRequestMessage
<1>2. LockInv'
  BY Zenon DEF LockInv, Holding
<1>3. RequestInv'
  BY Zenon DEF RequestInv, LockInv, Holding, GuestRequestMessage
<1>4. PageInv'
  BY Zenon DEF PageInv
<1>5. AnswersItsRequest'
  BY Zenon DEF AnswersItsRequest, Decrypting, Sealed, Digest
<1> QED BY Zenon, <1>1, <1>2, <1>3, <1>4, <1>5

\* The crypto object is set up.
LEMMA InitStep == ASSUME IInv, NEW t \in Threads, init(t) PROVE IInv'
<1>1. CASE Goto(t, "get", "fill_e") /\ UNCHANGED <<shared, local>>
  <2>1. Internal(t)
    BY Zenon, <1>1 DEF Goto, Internal, local, shared, IInv, TypeInv, Holding, Decrypting, IsMessage
  <2> QED BY <2>1, InternalStep
<1>2. CASE kabort(t, "get", "init")
  BY Zenon, <1>2, AbortStep
<1> QED BY Zenon, <1>1, <1>2 DEF init

\* The request in the page is the holder's.
LEMMA PublishStep == ASSUME IInv, NEW t \in Threads, Publish(t) PROVE IInv'
<1> USE DEF IInv, TypeInv, Publish, Goto, local
<1>1. TypeInv'
  BY Zenon DEF IsMessage
<1>2. LockInv'
  BY Zenon DEF LockInv, Holding
<1>3. RequestInv'
  BY Zenon DEF RequestInv, LockInv, Holding
<1>4. PageInv'
  BY Zenon DEF PageInv, Answered, Sealed, Digest
<1>5. AnswersItsRequest'
  BY Zenon DEF AnswersItsRequest, Decrypting, Sealed, Digest
<1> QED BY Zenon, <1>1, <1>2, <1>3, <1>4, <1>5

\* Before the exit the PSP is not ahead: the one thread that could be at the
\* check would hold the lock.
LEMMA NotAhead ==
  ASSUME IInv, NEW t \in Threads, pc[t] = "vmgexit"
  PROVE  psp = msg_seq_num /\ response_page.seq < msg_seq_num /\ t \in lock
  BY Zenon DEF IInv, LockInv, PageInv, Holding

\* The exit: the PSP answers, or the host fails or loses the answer.
LEMMA ExitStep == ASSUME IInv, NEW t \in Threads, sev_guest_request(t) PROVE IInv'
<1>1. ASSUME Goto(t, "vmgexit", "check"),
             UNCHANGED <<lock, msg_seq_num, request_page, crypto, calls, local, aborted>>,
             \/ PspAnswers
             \/ response_page' = response_page /\ psp' \in {psp, psp + 2}
      PROVE  IInv'
  <2> USE <1>1, NotAhead DEF IInv, TypeInv, Goto, local
  <2>1. TypeInv'
    BY DEF PspAnswers, Sealed, IsMessage
  <2>2. LockInv'
    BY Zenon DEF LockInv, Holding
  <2>3. RequestInv'
    BY Zenon DEF RequestInv, Holding
  <2>4. PageInv'
    <3>1. CASE PspAnswers
      BY Zenon, <3>1 DEF PageInv, Answered, PspAnswers, RequestInv
    <3>2. CASE response_page' = response_page /\ psp' \in {psp, psp + 2}
      BY Zenon, <3>2 DEF PageInv
    <3> QED BY <3>1, <3>2
  <2>5. AnswersItsRequest'
    BY Zenon DEF AnswersItsRequest, Decrypting, Sealed, Digest
  <2> QED BY <2>1, <2>2, <2>3, <2>4, <2>5
<1>2. CASE kabort(t, "vmgexit", "status")
  BY Zenon, <1>2, AbortStep
<1> QED BY Zenon, <1>1, <1>2 DEF sev_guest_request

\* An answer under the next number is the holder's; with it the two ends are
\* in step again and the lock is free.
LEMMA CheckStep == ASSUME IInv, NEW t \in Threads, CheckResponse(t) PROVE IInv'
<1>1. CASE response_page.seq = msg_seq_num + 1
  <2> USE <1>1 DEF IInv, TypeInv, CheckResponse, CheckWith, Goto
  <2>1. psp = msg_seq_num + 2 /\ lock = {t} /\ Answered(t)
    BY DEF PageInv, LockInv, Holding
  <2>2. TypeInv'
    BY DEF IsMessage
  <2>3. LockInv'
    BY Zenon, <2>1 DEF LockInv, Holding
  <2>4. RequestInv'
    BY Zenon, <2>1 DEF RequestInv, LockInv, Holding
  <2>5. PageInv'
    BY <2>1 DEF PageInv
  <2>6. AnswersItsRequest'
    BY <2>1 DEF AnswersItsRequest, Answered, RequestInv, Holding, Decrypting, Sealed, Digest
  <2> QED BY <2>2, <2>3, <2>4, <2>5, <2>6
<1>2. CASE response_page.seq # msg_seq_num + 1
  BY Zenon, <1>2, AbortStep DEF CheckResponse, CheckWith
<1> QED BY Zenon, <1>1, <1>2

\* The call ends.
LEMMA ReturnStep == ASSUME IInv, NEW t \in Threads, Return(t) PROVE IInv'
<1>1. Internal(t)
  BY Zenon DEF Return, Goto, Internal, local, shared, IInv, TypeInv, Holding, Decrypting, IsMessage
<1> QED BY Zenon, <1>1, InternalStep

\* A step of no effect keeps the invariant.
LEMMA StutterStep == IInv /\ UNCHANGED vars => IInv'
  BY Zenon DEF vars, shared, local, IInv, TypeInv, IsMessage, LockInv, RequestInv, PageInv, Answered,
         AnswersItsRequest, Holding, Decrypting

\* Every step keeps the invariant.
LEMMA RequestPreserved == IInv /\ [Next]_vars => IInv'
<1> SUFFICES ASSUME IInv, [Next]_vars PROVE IInv'
  BY Zenon
<1>1. ASSUME NEW t \in Threads, Step(t) PROVE IInv'
  BY Zenon, <1>1, InitStep, EncryptStep, PublishStep, ExitStep, CheckStep, DecryptStep, ReturnStep DEF Step
<1>2. ASSUME NEW t \in Threads, get_current_tsc_state_sev(t) \/ Begin(t) \/ Spin(t) PROVE IInv'
  BY Zenon, <1>2, EnterStep, BeginStep, StutterStep DEF get_current_tsc_state_sev, Spin
<1>3. ASSUME NEW t \in Threads, NEW size \in UserSizes, generate_attestation_report_sev(t, size)
      PROVE  IInv'
  BY Zenon, <1>3, EnterStep, AbortStep DEF generate_attestation_report_sev
<1>4. CASE Halted \/ UNCHANGED vars
  BY Zenon, <1>4, StutterStep DEF Halted
<1> QED BY Zenon, <1>1, <1>2, <1>3, <1>4 DEF Next

\* The invariant holds in every reachable state.
LEMMA RequestInvariant == Spec => []IInv
  BY RequestInitial, RequestPreserved, PTL DEF Spec

\* msg_seq_num and the PSP's counter differ only while an answer waits in the
\* page for the thread that holds request_lock, and agree when it is free.
THEOREM SequenceStaysInStep == Spec => []SequenceInStep
<1>1. IInv => SequenceInStep
  BY Zenon DEF IInv, TypeInv, PageInv, SequenceInStep
<1> QED BY <1>1, RequestInvariant, PTL

\* The answer that sev_typed_guest_request decrypts is the one to its own
\* request, also when the host lost an answer and left an older one behind.
THEOREM AnswerIsOwn == Spec => []AnswersItsRequest
<1>1. IInv => AnswersItsRequest
  BY Zenon DEF IInv
<1> QED BY <1>1, RequestInvariant, PTL

-----------------------------------------------------------------------------
(* Calls that do not overlap. *)

\* What the context of OpenSSL has been fed.
CtxFields == {"mode", "iv", "aad", "text", "tag"}
CtxIs(mode, n, aad, text) == ctx.mode = mode /\ ctx.iv = n /\ ctx.aad = aad /\ ctx.text = text

\* How far a call is that is alone: the context has what this call has fed.
Progress(t) ==
  LET r == request[t]
      m == response[t]
      kind == <<r.body.kind>>
      text == <<r.body>>
  IN /\ pc[t] = "init_e" => iv = r.seq
     /\ pc[t] = "aad_e" => CtxIs("enc", r.seq, <<>>, <<>>)
     /\ pc[t] = "text_e" => CtxIs("enc", r.seq, kind, <<>>)
     /\ pc[t] = "final_e" => CtxIs("enc", r.seq, kind, text) /\ r.iv = r.seq
     /\ pc[t] = "tag_e" => CtxIs("enc_end", r.seq, kind, text) /\ r.iv = r.seq
     /\ pc[t] = "publish" => r = Sealed(r.seq, r.body)
     /\ pc[t] = "vmgexit" => request_page = Sealed(r.seq, r.body)
     /\ pc[t] = "check" => fault \/ response_page.seq = msg_seq_num + 1
     /\ pc[t] = "init_d" => iv = m.seq
     /\ pc[t] = "aad_d" => CtxIs("dec", m.seq, <<>>, <<>>)
     /\ pc[t] = "text_d" => CtxIs("dec", m.seq, kind, <<>>)
     /\ pc[t] = "tag_d" => CtxIs("dec", m.seq, kind, text)
     /\ pc[t] = "final_d" => CtxIs("dec", m.seq, kind, text) /\ ctx.tag = m.tag
     /\ pc[t] \in {"tag_d", "final_d", "done"} => payload[t] = r.body

Alone == \A t, u \in Threads : pc[t] # "out" /\ pc[u] # "out" => t = u

\* At most one thread is in a call, and no fault was made up.
SerialInv ==
  /\ DOMAIN ctx = CtxFields /\ DOMAIN payload = Threads
  /\ fault \in BOOLEAN /\ AbortsOnlyForFault
  /\ Alone /\ \A t \in Threads : Progress(t)

\* The first piece that is fed.
LEMMA One == \A x : Append(<<>>, x) = <<x>>
  OBVIOUS

\* A message that has been encrypted under its own number.
LEMMA SealedIs ==
  ASSUME NEW r, DOMAIN r = {"seq", "body", "iv", "tag"}, r.iv = r.seq
  PROVE  /\ [r EXCEPT !.tag = Digest(r.seq, <<r.body.kind>>, <<r.body>>)] = Sealed(r.seq, r.body)
         /\ Sealed(r.seq, r.body).seq = r.seq /\ Sealed(r.seq, r.body).body = r.body
  BY DEF Sealed

\* The fields of an encrypted message.
LEMMA SealedFields ==
  ASSUME NEW n, NEW b
  PROVE  /\ Sealed(n, b).seq = n /\ Sealed(n, b).body = b /\ Sealed(n, b).iv = n
         /\ Sealed(n, b).tag = Digest(n, <<b.kind>>, <<b>>)
  BY DEF Sealed

\* A step of t: the other threads are not in a call.
LEMMA TheOthers ==
  ASSUME IInv, SerialInv, Alone', NEW t \in Threads, NEW p, NEW q, Goto(t, p, q), p # "out" \/ q # "out",
         Progress(t)', DOMAIN ctx' = CtxFields, DOMAIN payload' = Threads, fault' \in BOOLEAN, AbortsOnlyForFault'
  PROVE  SerialInv'
<1>1. pc[t] = p /\ pc'[t] = q /\ \A u \in Threads \ {t} : pc'[u] = pc[u]
  BY Zenon DEF Goto, IInv, TypeInv
<1>2. ASSUME NEW u \in Threads, u # t PROVE pc'[u] = "out"
  BY Zenon, <1>1, <1>2 DEF SerialInv, Alone
<1>3. ASSUME NEW u \in Threads, u # t PROVE Progress(u)'
  BY Zenon, <1>2, <1>3 DEF Progress
<1> QED BY Zenon, <1>3 DEF SerialInv

\* kabort, for a reason.
LEMMA FaultStep ==
  ASSUME IInv, SerialInv, NEW t \in Threads, NEW p, NEW site, kabort(t, p, site),
         fault' = TRUE \/ (fault' = fault /\ (fault \/ site = "size"))
  PROVE  SerialInv'
<1>1. UNCHANGED <<iv, ctx, request_page, response_page, msg_seq_num, pc, request, response, payload>>
  BY Zenon DEF kabort, shared, crypto, local
<1>2. aborted' = site
  BY Zenon DEF kabort
<1>3. AbortsOnlyForFault' /\ fault' \in BOOLEAN
  BY Zenon, <1>2 DEF AbortsOnlyForFault, SerialInv
<1>4. ASSUME NEW u \in Threads PROVE Progress(u)'
  <2>1. Progress(u) /\ (fault => fault')
    BY Zenon DEF SerialInv
  <2> QED BY <1>1, <2>1 DEF Progress, CtxIs
<1> QED BY Zenon, <1>1, <1>3, <1>4 DEF SerialInv, Alone

\* The iv array is written.
LEMMA IvStep ==
  ASSUME IInv, SerialInv, Alone', NEW t \in Threads, NEW n,
         \/ SetIv(t, "fill_e", "copy_e", n) \/ SetIv(t, "fill_d", "copy_d", n)
         \/ SetIv(t, "copy_e", "init_e", request[t].seq) \/ SetIv(t, "copy_d", "init_d", response[t].seq)
  PROVE  SerialInv'
<1>1. ASSUME NEW p, NEW q, NEW v, SetIv(t, p, q, v), p # "out", q \in {"copy_e", "copy_d", "init_e", "init_d"},
             (q = "init_e" => v = request[t].seq) /\ (q = "init_d" => v = response[t].seq)
      PROVE  SerialInv'
  <2>1. /\ Goto(t, p, q) /\ iv' = v /\ UNCHANGED <<ctx, request, response, payload, aborted, fault>>
    BY Zenon, <1>1 DEF SetIv, local
  <2>2. pc'[t] = q
    BY Zenon, <2>1 DEF Goto, IInv, TypeInv
  <2>3. Progress(t)'
    BY Zenon, <1>1, <2>1, <2>2 DEF Progress
  <2>4. AbortsOnlyForFault'
    BY Zenon, <2>1 DEF SerialInv, AbortsOnlyForFault
  <2> QED BY Zenon, <1>1, <2>1, <2>3, <2>4, TheOthers DEF SerialInv
<1> QED BY Zenon, <1>1

\* The context is set up to encrypt.
LEMMA EncInit ==
  ASSUME IInv, SerialInv, Alone', NEW t \in Threads,
         CtxCall(t, "init_e", "aad_e", TRUE, EvpInit("enc"), request[t], payload[t])
  PROVE  SerialInv'
<1>1. Progress(t) /\ DOMAIN ctx = CtxFields /\ IsMessage(request[t]) /\ pc[t] = "init_e"
  BY Zenon DEF SerialInv, IInv, TypeInv, CtxCall, Goto, kabort
<1>2. TRUE
  OBVIOUS
<1>3. TRUE
  BY Zenon, <1>1, <1>2 DEF Progress, CtxIs
<1>4. /\ Goto(t, "init_e", "aad_e") /\ ctx' = EvpInit("enc")
      /\ request' = [request EXCEPT ![t] = request[t]] /\ payload' = [payload EXCEPT ![t] = payload[t]]
      /\ UNCHANGED <<shared, iv, ready, calls, response, aborted, fault>>
  BY Zenon, <1>3 DEF CtxCall
<1>5. /\ pc'[t] = "aad_e" /\ request'[t] = request[t] /\ payload'[t] = payload[t]
      /\ DOMAIN payload' = Threads /\ AbortsOnlyForFault' /\ fault' \in BOOLEAN /\ response' = response
  BY Zenon, <1>4 DEF Goto, IInv, TypeInv, SerialInv, AbortsOnlyForFault
<1>6. /\ DOMAIN ctx' = CtxFields /\ ctx'.mode = "enc" /\ ctx'.iv = request[t].seq /\ ctx'.aad = <<>>
      /\ ctx'.text = <<>>
  BY Zenon, <1>1, <1>2, <1>4, One DEF Progress, CtxIs, CtxFields, EvpInit, FreshCtx
<1>7. Progress(t)'
  BY Zenon, <1>5, <1>6 DEF Progress, CtxIs
<1> QED BY Zenon, <1>4, <1>5, <1>6, <1>7, TheOthers

\* The header is fed.
LEMMA EncAad ==
  ASSUME IInv, SerialInv, Alone', NEW t \in Threads,
         CtxCall(t, "aad_e", "text_e", ctx.mode = "enc" /\ ctx.text = <<>>, EvpAad(request[t].body), request[t], payload[t])
  PROVE  SerialInv'
<1>1. Progress(t) /\ DOMAIN ctx = CtxFields /\ IsMessage(request[t]) /\ pc[t] = "aad_e"
  BY Zenon DEF SerialInv, IInv, TypeInv, CtxCall, Goto, kabort
<1>2. TRUE
  OBVIOUS
<1>3. ctx.mode = "enc" /\ ctx.text = <<>>
  BY Zenon, <1>1, <1>2 DEF Progress, CtxIs
<1>4. /\ Goto(t, "aad_e", "text_e") /\ ctx' = EvpAad(request[t].body)
      /\ request' = [request EXCEPT ![t] = request[t]] /\ payload' = [payload EXCEPT ![t] = payload[t]]
      /\ UNCHANGED <<shared, iv, ready, calls, response, aborted, fault>>
  BY Zenon, <1>3 DEF CtxCall
<1>5. /\ pc'[t] = "text_e" /\ request'[t] = request[t] /\ payload'[t] = payload[t]
      /\ DOMAIN payload' = Threads /\ AbortsOnlyForFault' /\ fault' \in BOOLEAN /\ response' = response
  BY Zenon, <1>4 DEF Goto, IInv, TypeInv, SerialInv, AbortsOnlyForFault
<1>6. /\ DOMAIN ctx' = CtxFields /\ ctx'.mode = "enc" /\ ctx'.iv = request[t].seq /\ ctx'.aad = <<request[t].body.kind>>
      /\ ctx'.text = <<>>
  BY Zenon, <1>1, <1>2, <1>4, One DEF Progress, CtxIs, CtxFields, EvpAad
<1>7. Progress(t)'
  BY Zenon, <1>5, <1>6 DEF Progress, CtxIs
<1> QED BY Zenon, <1>4, <1>5, <1>6, <1>7, TheOthers

\* The body is encrypted.
LEMMA EncText ==
  ASSUME IInv, SerialInv, Alone', NEW t \in Threads,
         CtxCall(t, "text_e", "final_e", ctx.mode = "enc", EvpText(request[t].body), [request[t] EXCEPT !.iv = ctx.iv], payload[t])
  PROVE  SerialInv'
<1>1. Progress(t) /\ DOMAIN ctx = CtxFields /\ IsMessage(request[t]) /\ pc[t] = "text_e"
  BY Zenon DEF SerialInv, IInv, TypeInv, CtxCall, Goto, kabort
<1>2. TRUE
  OBVIOUS
<1>3. ctx.mode = "enc"
  BY Zenon, <1>1, <1>2 DEF Progress, CtxIs
<1>4. /\ Goto(t, "text_e", "final_e") /\ ctx' = EvpText(request[t].body)
      /\ request' = [request EXCEPT ![t] = [request[t] EXCEPT !.iv = ctx.iv]] /\ payload' = [payload EXCEPT ![t] = payload[t]]
      /\ UNCHANGED <<shared, iv, ready, calls, response, aborted, fault>>
  BY Zenon, <1>3 DEF CtxCall
<1>5. /\ pc'[t] = "final_e" /\ request'[t] = [request[t] EXCEPT !.iv = ctx.iv] /\ payload'[t] = payload[t]
      /\ DOMAIN payload' = Threads /\ AbortsOnlyForFault' /\ fault' \in BOOLEAN /\ response' = response
  BY Zenon, <1>4 DEF Goto, IInv, TypeInv, SerialInv, AbortsOnlyForFault
<1>6. /\ DOMAIN ctx' = CtxFields /\ ctx'.mode = "enc" /\ ctx'.iv = request[t].seq /\ ctx'.aad = <<request[t].body.kind>>
      /\ ctx'.text = <<request[t].body>>
  BY Zenon, <1>1, <1>2, <1>4, One DEF Progress, CtxIs, CtxFields, EvpText
<1>8. /\ [request[t] EXCEPT !.iv = ctx.iv].seq = request[t].seq
      /\ [request[t] EXCEPT !.iv = ctx.iv].body = request[t].body
      /\ [request[t] EXCEPT !.iv = ctx.iv].iv = request[t].seq
  BY Zenon, <1>1 DEF Progress, CtxIs, IsMessage
<1>7. Progress(t)'
  BY Zenon, <1>5, <1>6, <1>8 DEF Progress, CtxIs
<1> QED BY Zenon, <1>4, <1>5, <1>6, <1>7, TheOthers

\* The text ends.
LEMMA EncFinal ==
  ASSUME IInv, SerialInv, Alone', NEW t \in Threads,
         CtxCall(t, "final_e", "tag_e", ctx.mode = "enc", [ctx EXCEPT !.mode = "enc_end"], request[t], payload[t])
  PROVE  SerialInv'
<1>1. Progress(t) /\ DOMAIN ctx = CtxFields /\ IsMessage(request[t]) /\ pc[t] = "final_e"
  BY Zenon DEF SerialInv, IInv, TypeInv, CtxCall, Goto, kabort
<1>2. TRUE
  OBVIOUS
<1>3. ctx.mode = "enc"
  BY Zenon, <1>1, <1>2 DEF Progress, CtxIs
<1>4. /\ Goto(t, "final_e", "tag_e") /\ ctx' = [ctx EXCEPT !.mode = "enc_end"]
      /\ request' = [request EXCEPT ![t] = request[t]] /\ payload' = [payload EXCEPT ![t] = payload[t]]
      /\ UNCHANGED <<shared, iv, ready, calls, response, aborted, fault>>
  BY Zenon, <1>3 DEF CtxCall
<1>5. /\ pc'[t] = "tag_e" /\ request'[t] = request[t] /\ payload'[t] = payload[t]
      /\ DOMAIN payload' = Threads /\ AbortsOnlyForFault' /\ fault' \in BOOLEAN /\ response' = response
  BY Zenon, <1>4 DEF Goto, IInv, TypeInv, SerialInv, AbortsOnlyForFault
<1>6. /\ DOMAIN ctx' = CtxFields /\ ctx'.mode = "enc_end" /\ ctx'.iv = request[t].seq /\ ctx'.aad = <<request[t].body.kind>>
      /\ ctx'.text = <<request[t].body>>
  BY Zenon, <1>1, <1>2, <1>4, One DEF Progress, CtxIs, CtxFields
<1>7. Progress(t)'
  BY Zenon, <1>1, <1>5, <1>6 DEF Progress, CtxIs
<1> QED BY Zenon, <1>4, <1>5, <1>6, <1>7, TheOthers

\* The tag completes the message.
LEMMA EncTag ==
  ASSUME IInv, SerialInv, Alone', NEW t \in Threads,
         CtxCall(t, "tag_e", "publish", ctx.mode = "enc_end", ctx, [request[t] EXCEPT !.tag = Fed], payload[t])
  PROVE  SerialInv'
<1>1. Progress(t) /\ DOMAIN ctx = CtxFields /\ IsMessage(request[t]) /\ pc[t] = "tag_e"
  BY Zenon DEF SerialInv, IInv, TypeInv, CtxCall, Goto, kabort
<1>2. TRUE
  OBVIOUS
<1>3. ctx.mode = "enc_end"
  BY Zenon, <1>1, <1>2 DEF Progress, CtxIs
<1>4. /\ Goto(t, "tag_e", "publish") /\ ctx' = ctx
      /\ request' = [request EXCEPT ![t] = [request[t] EXCEPT !.tag = Fed]] /\ payload' = [payload EXCEPT ![t] = payload[t]]
      /\ UNCHANGED <<shared, iv, ready, calls, response, aborted, fault>>
  BY Zenon, <1>3 DEF CtxCall
<1>5. /\ pc'[t] = "publish" /\ request'[t] = [request[t] EXCEPT !.tag = Fed] /\ payload'[t] = payload[t]
      /\ DOMAIN payload' = Threads /\ AbortsOnlyForFault' /\ fault' \in BOOLEAN /\ response' = response
  BY Zenon, <1>4 DEF Goto, IInv, TypeInv, SerialInv, AbortsOnlyForFault
<1>6. DOMAIN ctx' = CtxFields
  BY Zenon, <1>1, <1>4
<1>7. Progress(t)'
  <2>1. Fed = Digest(request[t].seq, <<request[t].body.kind>>, <<request[t].body>>) /\ request[t].iv = request[t].seq
    BY Zenon, <1>1 DEF Progress, CtxIs, Fed
  <2>2. request'[t] = Sealed(request[t].seq, request[t].body)
    BY Zenon, <1>1, <1>5, <2>1, SealedIs DEF IsMessage
  <2>3. request'[t].seq = request[t].seq /\ request'[t].body = request[t].body
    BY Zenon, <1>1, <1>5 DEF IsMessage
  <2> QED BY Zenon, <1>5, <2>2, <2>3 DEF Progress
<1> QED BY Zenon, <1>4, <1>5, <1>6, <1>7, TheOthers

\* The context is set up to decrypt.
LEMMA DecInit ==
  ASSUME IInv, SerialInv, Alone', NEW t \in Threads,
         CtxCall(t, "init_d", "aad_d", TRUE, EvpInit("dec"), request[t], payload[t])
  PROVE  SerialInv'
<1>1. Progress(t) /\ DOMAIN ctx = CtxFields /\ IsMessage(request[t]) /\ pc[t] = "init_d"
  BY Zenon DEF SerialInv, IInv, TypeInv, CtxCall, Goto, kabort
<1>2. /\ response[t] = Sealed(request[t].seq + 1, request[t].body)
      /\ response[t].body = request[t].body /\ response[t].iv = response[t].seq
      /\ response[t].tag = Digest(response[t].seq, <<request[t].body.kind>>, <<request[t].body>>)
  <2>1. response[t] = Sealed(request[t].seq + 1, request[t].body)
    BY Zenon, <1>1 DEF IInv, AnswersItsRequest, Decrypting
  <2> QED BY <2>1, SealedFields
<1>3. TRUE
  BY Zenon, <1>1, <1>2 DEF Progress, CtxIs
<1>4. /\ Goto(t, "init_d", "aad_d") /\ ctx' = EvpInit("dec")
      /\ request' = [request EXCEPT ![t] = request[t]] /\ payload' = [payload EXCEPT ![t] = payload[t]]
      /\ UNCHANGED <<shared, iv, ready, calls, response, aborted, fault>>
  BY Zenon, <1>3 DEF CtxCall
<1>5. /\ pc'[t] = "aad_d" /\ request'[t] = request[t] /\ payload'[t] = payload[t]
      /\ DOMAIN payload' = Threads /\ AbortsOnlyForFault' /\ fault' \in BOOLEAN /\ response' = response
  BY Zenon, <1>4 DEF Goto, IInv, TypeInv, SerialInv, AbortsOnlyForFault
<1>6. /\ DOMAIN ctx' = CtxFields /\ ctx'.mode = "dec" /\ ctx'.iv = response[t].seq /\ ctx'.aad = <<>>
      /\ ctx'.text = <<>>
  BY Zenon, <1>1, <1>2, <1>4, One DEF Progress, CtxIs, CtxFields, EvpInit, FreshCtx
<1>7. Progress(t)'
  BY Zenon, <1>5, <1>6 DEF Progress, CtxIs
<1> QED BY Zenon, <1>4, <1>5, <1>6, <1>7, TheOthers

\* The header is fed.
LEMMA DecAad ==
  ASSUME IInv, SerialInv, Alone', NEW t \in Threads,
         CtxCall(t, "aad_d", "text_d", ctx.mode = "dec" /\ ctx.text = <<>>, EvpAad(response[t].body), request[t], payload[t])
  PROVE  SerialInv'
<1>1. Progress(t) /\ DOMAIN ctx = CtxFields /\ IsMessage(request[t]) /\ pc[t] = "aad_d"
  BY Zenon DEF SerialInv, IInv, TypeInv, CtxCall, Goto, kabort
<1>2. /\ response[t] = Sealed(request[t].seq + 1, request[t].body)
      /\ response[t].body = request[t].body /\ response[t].iv = response[t].seq
      /\ response[t].tag = Digest(response[t].seq, <<request[t].body.kind>>, <<request[t].body>>)
  <2>1. response[t] = Sealed(request[t].seq + 1, request[t].body)
    BY Zenon, <1>1 DEF IInv, AnswersItsRequest, Decrypting
  <2> QED BY <2>1, SealedFields
<1>3. ctx.mode = "dec" /\ ctx.text = <<>>
  BY Zenon, <1>1, <1>2 DEF Progress, CtxIs
<1>4. /\ Goto(t, "aad_d", "text_d") /\ ctx' = EvpAad(response[t].body)
      /\ request' = [request EXCEPT ![t] = request[t]] /\ payload' = [payload EXCEPT ![t] = payload[t]]
      /\ UNCHANGED <<shared, iv, ready, calls, response, aborted, fault>>
  BY Zenon, <1>3 DEF CtxCall
<1>5. /\ pc'[t] = "text_d" /\ request'[t] = request[t] /\ payload'[t] = payload[t]
      /\ DOMAIN payload' = Threads /\ AbortsOnlyForFault' /\ fault' \in BOOLEAN /\ response' = response
  BY Zenon, <1>4 DEF Goto, IInv, TypeInv, SerialInv, AbortsOnlyForFault
<1>6. /\ DOMAIN ctx' = CtxFields /\ ctx'.mode = "dec" /\ ctx'.iv = response[t].seq /\ ctx'.aad = <<request[t].body.kind>>
      /\ ctx'.text = <<>>
  BY Zenon, <1>1, <1>2, <1>4, One DEF Progress, CtxIs, CtxFields, EvpAad
<1>7. Progress(t)'
  BY Zenon, <1>5, <1>6 DEF Progress, CtxIs
<1> QED BY Zenon, <1>4, <1>5, <1>6, <1>7, TheOthers

\* The answer is decrypted, under its own number and from its start.
LEMMA DecText ==
  ASSUME IInv, SerialInv, Alone', NEW t \in Threads,
         CtxCall(t, "text_d", "tag_d", ctx.mode = "dec", EvpText(response[t].body), request[t], EvpPlain(response[t]))
  PROVE  SerialInv'
<1>1. Progress(t) /\ DOMAIN ctx = CtxFields /\ IsMessage(request[t]) /\ pc[t] = "text_d"
  BY Zenon DEF SerialInv, IInv, TypeInv, CtxCall, Goto, kabort
<1>2. /\ response[t] = Sealed(request[t].seq + 1, request[t].body)
      /\ response[t].body = request[t].body /\ response[t].iv = response[t].seq
      /\ response[t].tag = Digest(response[t].seq, <<request[t].body.kind>>, <<request[t].body>>)
  <2>1. response[t] = Sealed(request[t].seq + 1, request[t].body)
    BY Zenon, <1>1 DEF IInv, AnswersItsRequest, Decrypting
  <2> QED BY <2>1, SealedFields
<1>3. ctx.mode = "dec"
  BY Zenon, <1>1, <1>2 DEF Progress, CtxIs
<1>4. /\ Goto(t, "text_d", "tag_d") /\ ctx' = EvpText(response[t].body)
      /\ request' = [request EXCEPT ![t] = request[t]] /\ payload' = [payload EXCEPT ![t] = EvpPlain(response[t])]
      /\ UNCHANGED <<shared, iv, ready, calls, response, aborted, fault>>
  BY Zenon, <1>3 DEF CtxCall
<1>5. /\ pc'[t] = "tag_d" /\ request'[t] = request[t] /\ payload'[t] = EvpPlain(response[t])
      /\ DOMAIN payload' = Threads /\ AbortsOnlyForFault' /\ fault' \in BOOLEAN /\ response' = response
  BY Zenon, <1>4 DEF Goto, IInv, TypeInv, SerialInv, AbortsOnlyForFault
<1>6. /\ DOMAIN ctx' = CtxFields /\ ctx'.mode = "dec" /\ ctx'.iv = response[t].seq /\ ctx'.aad = <<request[t].body.kind>>
      /\ ctx'.text = <<request[t].body>>
  BY Zenon, <1>1, <1>2, <1>4, One DEF Progress, CtxIs, CtxFields, EvpText
<1>8. EvpPlain(response[t]) = request[t].body
  BY Zenon, <1>1, <1>2 DEF Progress, CtxIs, EvpPlain
<1>7. Progress(t)'
  BY Zenon, <1>5, <1>6, <1>8 DEF Progress, CtxIs
<1> QED BY Zenon, <1>4, <1>5, <1>6, <1>7, TheOthers

\* The tag is handed over.
LEMMA DecTag ==
  ASSUME IInv, SerialInv, Alone', NEW t \in Threads,
         CtxCall(t, "tag_d", "final_d", ctx.mode = "dec", [ctx EXCEPT !.tag = response[t].tag], request[t], payload[t])
  PROVE  SerialInv'
<1>1. Progress(t) /\ DOMAIN ctx = CtxFields /\ IsMessage(request[t]) /\ pc[t] = "tag_d"
  BY Zenon DEF SerialInv, IInv, TypeInv, CtxCall, Goto, kabort
<1>2. /\ response[t] = Sealed(request[t].seq + 1, request[t].body)
      /\ response[t].body = request[t].body /\ response[t].iv = response[t].seq
      /\ response[t].tag = Digest(response[t].seq, <<request[t].body.kind>>, <<request[t].body>>)
  <2>1. response[t] = Sealed(request[t].seq + 1, request[t].body)
    BY Zenon, <1>1 DEF IInv, AnswersItsRequest, Decrypting
  <2> QED BY <2>1, SealedFields
<1>3. ctx.mode = "dec"
  BY Zenon, <1>1, <1>2 DEF Progress, CtxIs
<1>4. /\ Goto(t, "tag_d", "final_d") /\ ctx' = [ctx EXCEPT !.tag = response[t].tag]
      /\ request' = [request EXCEPT ![t] = request[t]] /\ payload' = [payload EXCEPT ![t] = payload[t]]
      /\ UNCHANGED <<shared, iv, ready, calls, response, aborted, fault>>
  BY Zenon, <1>3 DEF CtxCall
<1>5. /\ pc'[t] = "final_d" /\ request'[t] = request[t] /\ payload'[t] = payload[t]
      /\ DOMAIN payload' = Threads /\ AbortsOnlyForFault' /\ fault' \in BOOLEAN /\ response' = response
  BY Zenon, <1>4 DEF Goto, IInv, TypeInv, SerialInv, AbortsOnlyForFault
<1>6. /\ DOMAIN ctx' = CtxFields /\ ctx'.mode = "dec" /\ ctx'.iv = response[t].seq /\ ctx'.aad = <<request[t].body.kind>>
      /\ ctx'.text = <<request[t].body>> /\ ctx'.tag = response[t].tag
  BY Zenon, <1>1, <1>2, <1>4, One DEF Progress, CtxIs, CtxFields
<1>7. Progress(t)'
  BY Zenon, <1>1, <1>5, <1>6 DEF Progress, CtxIs
<1> QED BY Zenon, <1>4, <1>5, <1>6, <1>7, TheOthers

\* The tag is that of what was fed.
LEMMA DecFinal ==
  ASSUME IInv, SerialInv, Alone', NEW t \in Threads,
         CtxCall(t, "final_d", "done", ctx.mode = "dec" /\ ctx.tag = Fed, [ctx EXCEPT !.mode = "dec_end"], request[t], payload[t])
  PROVE  SerialInv'
<1>1. Progress(t) /\ DOMAIN ctx = CtxFields /\ IsMessage(request[t]) /\ pc[t] = "final_d"
  BY Zenon DEF SerialInv, IInv, TypeInv, CtxCall, Goto, kabort
<1>2. /\ response[t] = Sealed(request[t].seq + 1, request[t].body)
      /\ response[t].body = request[t].body /\ response[t].iv = response[t].seq
      /\ response[t].tag = Digest(response[t].seq, <<request[t].body.kind>>, <<request[t].body>>)
  <2>1. response[t] = Sealed(request[t].seq + 1, request[t].body)
    BY Zenon, <1>1 DEF IInv, AnswersItsRequest, Decrypting
  <2> QED BY <2>1, SealedFields
<1>3. ctx.mode = "dec" /\ ctx.tag = Fed
  BY Zenon, <1>1, <1>2 DEF Progress, CtxIs, Fed
<1>4. /\ Goto(t, "final_d", "done") /\ ctx' = [ctx EXCEPT !.mode = "dec_end"]
      /\ request' = [request EXCEPT ![t] = request[t]] /\ payload' = [payload EXCEPT ![t] = payload[t]]
      /\ UNCHANGED <<shared, iv, ready, calls, response, aborted, fault>>
  BY Zenon, <1>3 DEF CtxCall
<1>5. /\ pc'[t] = "done" /\ request'[t] = request[t] /\ payload'[t] = payload[t]
      /\ DOMAIN payload' = Threads /\ AbortsOnlyForFault' /\ fault' \in BOOLEAN /\ response' = response
  BY Zenon, <1>4 DEF Goto, IInv, TypeInv, SerialInv, AbortsOnlyForFault
<1>6. DOMAIN ctx' = CtxFields
  BY Zenon, <1>1, <1>4
<1>7. Progress(t)'
  BY Zenon, <1>1, <1>5 DEF Progress
<1> QED BY Zenon, <1>4, <1>5, <1>6, <1>7, TheOthers

\* A step outside encrypt and decrypt.
LEMMA MoveStep ==
  ASSUME IInv, SerialInv, Alone', NEW t \in Threads, NEW p, NEW q, Goto(t, p, q), p # "out" \/ q # "out",
         ctx' = ctx, DOMAIN payload' = Threads, aborted' = aborted, fault' \in {TRUE, fault},
         pc'[t] = q => Progress(t)'
  PROVE  SerialInv'
<1>1. pc'[t] = q
  BY Zenon DEF Goto, IInv, TypeInv
<1>2. AbortsOnlyForFault' /\ fault' \in BOOLEAN /\ DOMAIN ctx' = CtxFields
  BY Zenon DEF SerialInv, AbortsOnlyForFault
<1> QED BY Zenon, <1>1, <1>2, TheOthers

\* A call begins, waits for the lock, or gets the context of OpenSSL; it ends.
LEMMA OuterStep ==
  ASSUME IInv, SerialInv, Alone', NEW t \in Threads, NEW kind,
         Enter(t, kind) \/ Begin(t) \/ init(t) \/ Return(t)
  PROVE  SerialInv'
<1>1. CASE ~ready /\ HostFails /\ kabort(t, "get", "init") /\ fault' = TRUE
  BY Zenon, <1>1, FaultStep
<1>2. ASSUME NEW p, NEW q, p # "out" \/ q # "out", q \in {"lock", "get", "fill_e", "out"},
             Goto(t, p, q), ctx' = ctx, DOMAIN payload' = Threads, aborted' = aborted, fault' = fault
      PROVE  SerialInv'
  <2>1. pc'[t] = q => Progress(t)'
    BY Zenon, <1>2 DEF Progress
  <2> QED BY Zenon, <1>2, <2>1, MoveStep
<1>3. DOMAIN [payload EXCEPT ![t] = NoBody] = Threads /\ DOMAIN payload = Threads
  BY Zenon DEF SerialInv
<1>4. CASE Enter(t, kind)
  BY Zenon, <1>2, <1>3, <1>4 DEF Enter, crypto
<1>5. CASE Begin(t)
  BY Zenon, <1>2, <1>3, <1>5 DEF Begin, crypto
<1>6. CASE init(t)
  BY Zenon, <1>1, <1>2, <1>3, <1>6 DEF init, local
<1>7. CASE Return(t)
  BY Zenon, <1>2, <1>3, <1>7 DEF Return, crypto, local
<1> QED BY Zenon, <1>4, <1>5, <1>6, <1>7

\* The finished request goes to the page.
LEMMA PageStep == ASSUME IInv, SerialInv, Alone', NEW t \in Threads, Publish(t) PROVE SerialInv'
<1>1. /\ Goto(t, "publish", "vmgexit") /\ request_page' = request[t]
      /\ UNCHANGED <<ctx, request, payload, aborted, fault>>
  BY Zenon DEF Publish, crypto, local
<1>2. request[t] = Sealed(request[t].seq, request[t].body)
  BY Zenon, <1>1 DEF Goto, SerialInv, Progress
<1>3. pc'[t] = "vmgexit" => Progress(t)'
  BY Zenon, <1>1, <1>2 DEF Progress
<1> QED BY Zenon, <1>1, <1>3, MoveStep DEF SerialInv

\* The PSP gets the request it expects, so only a host that fails refuses it.
LEMMA HostAnswers == ASSUME IInv, SerialInv, Alone', NEW t \in Threads, sev_guest_request(t) PROVE SerialInv'
<1>1. pc[t] = "vmgexit"
  BY Zenon DEF sev_guest_request, Goto, kabort
<1>2. psp = msg_seq_num /\ request[t].seq = msg_seq_num
  BY Zenon, <1>1, NotAhead DEF IInv, RequestInv, Holding
<1>3. request_page = Sealed(psp, request[t].body) /\ request_page.body = request[t].body
  BY Zenon, <1>1, <1>2 DEF SerialInv, Progress, IInv, RequestInv
<1>4. Expected
  BY Zenon, <1>3 DEF Expected
<1>5. CASE HostFails /\ kabort(t, "vmgexit", "status") /\ fault' = TRUE
  BY Zenon, <1>5, FaultStep
<1>6. ASSUME Goto(t, "vmgexit", "check"), UNCHANGED <<msg_seq_num, crypto, local, aborted>>, fault' \in {TRUE, fault},
             fault' \/ response_page'.seq = msg_seq_num + 1
      PROVE  SerialInv'
  <2>1. UNCHANGED <<ctx, payload, msg_seq_num, aborted>>
    BY Zenon, <1>6 DEF crypto, local
  <2>2. pc'[t] = "check" => Progress(t)'
    BY Zenon, <1>6, <2>1 DEF Progress
  <2> QED BY Zenon, <1>6, <2>1, <2>2, MoveStep DEF SerialInv
<1>7. PspAnswers => response_page'.seq = msg_seq_num + 1
  <2>1. ASSUME NEW x, x = Sealed(psp + 1, request_page.body) PROVE x.seq = msg_seq_num + 1
    <3>1. Sealed(psp + 1, request_page.body).seq = psp + 1
      BY Zenon, SealedFields
    <3> QED BY Zenon, <1>2, <2>1, <3>1
  <2> QED BY Zenon, <2>1 DEF PspAnswers
<1> QED BY Zenon, <1>4, <1>5, <1>6, <1>7 DEF sev_guest_request

\* The number of the answer is the next one, unless the host failed.
LEMMA AnswerTaken == ASSUME IInv, SerialInv, Alone', NEW t \in Threads, CheckResponse(t) PROVE SerialInv'
<1>1. CASE response_page.seq = msg_seq_num + 1
  <2>1. /\ Goto(t, "check", "fill_d")
        /\ UNCHANGED <<ctx, payload, aborted, fault>>
    BY Zenon, <1>1 DEF CheckResponse, CheckWith, crypto
  <2>2. pc'[t] = "fill_d" => Progress(t)'
    BY Zenon DEF Progress
  <2> QED BY Zenon, <2>1, <2>2, MoveStep DEF SerialInv
<1>2. CASE response_page.seq # msg_seq_num + 1
  <2>1. kabort(t, "check", "sequence") /\ fault' = fault
    BY Zenon, <1>2 DEF CheckResponse, CheckWith
  <2>2. fault
    BY Zenon, <1>2, <2>1 DEF kabort, SerialInv, Progress
  <2> QED BY Zenon, <2>1, <2>2, FaultStep
<1> QED BY Zenon, <1>1, <1>2

\* encrypt and decrypt.
LEMMA CipherStep ==
  ASSUME IInv, SerialInv, Alone', NEW t \in Threads, encrypt(t) \/ decrypt(t) PROVE SerialInv'
<1>1. CASE encrypt(t)
  BY Zenon, <1>1, IvStep, EncInit, EncAad, EncText, EncFinal, EncTag DEF encrypt
<1>2. CASE decrypt(t)
  BY Zenon, <1>2, IvStep, DecInit, DecAad, DecText, DecTag, DecFinal DEF decrypt
<1> QED BY Zenon, <1>1, <1>2

\* A step of no effect.
LEMMA SerialStutter == SerialInv /\ UNCHANGED vars => SerialInv'
<1> SUFFICES ASSUME SerialInv, UNCHANGED vars PROVE SerialInv'
  BY Zenon
<1>1. UNCHANGED <<iv, ctx, request_page, response_page, msg_seq_num, pc, request, response, payload, aborted, fault>>
  BY Zenon DEF vars, shared, crypto, local
<1>2. ASSUME NEW u \in Threads PROVE Progress(u)'
  <2>1. Progress(u)
    BY Zenon DEF SerialInv
  <2> QED BY <1>1, <2>1 DEF Progress, CtxIs
<1> QED BY Zenon, <1>1, <1>2 DEF SerialInv, AbortsOnlyForFault, Alone

\* Every step after which at most one thread is in a call.
LEMMA SerialPreserved == IInv /\ SerialInv /\ Alone' /\ [Next]_vars => SerialInv'
<1> SUFFICES ASSUME IInv, SerialInv, Alone', [Next]_vars PROVE SerialInv'
  BY Zenon
<1>1. ASSUME NEW t \in Threads, Step(t) PROVE SerialInv'
  BY Zenon, <1>1, OuterStep, CipherStep, PageStep, HostAnswers, AnswerTaken DEF Step
<1>2. ASSUME NEW t \in Threads, get_current_tsc_state_sev(t) \/ Begin(t) \/ Spin(t) PROVE SerialInv'
  BY Zenon, <1>2, OuterStep, SerialStutter DEF get_current_tsc_state_sev, Spin
<1>3. ASSUME NEW t \in Threads, NEW size \in UserSizes, generate_attestation_report_sev(t, size)
      PROVE  SerialInv'
  BY Zenon, <1>3, OuterStep, FaultStep DEF generate_attestation_report_sev
<1>4. CASE Halted \/ UNCHANGED vars
  BY Zenon, <1>4, SerialStutter DEF Halted
<1> QED BY Zenon, <1>1, <1>2, <1>3, <1>4 DEF Next

\* As long as calls do not overlap, what sev_typed_guest_request returns is the
\* answer to its request, and kabort() is called only for a fault of the host or
\* for user data that is too long: the context of OpenSSL and the iv, which are
\* used without request_lock, have what this one call has fed.
THEOREM SerialCalls == RequestSpec => []SerialCallsAreAnswered
<1> DEFINE Inv == IInv /\ (part = "serial" => SerialInv)
<1>1. RequestInit => Inv
  <2> SUFFICES ASSUME Init PROVE SerialInv
    BY Zenon, RequestInitial DEF RequestInit
  <2>1. \A t \in Threads : pc[t] = "out"
    BY Zenon DEF Init
  <2>2. DOMAIN ctx = CtxFields /\ DOMAIN payload = Threads /\ fault = FALSE /\ AbortsOnlyForFault
    BY Zenon DEF Init, FreshCtx, CtxFields, AbortsOnlyForFault
  <2> QED BY Zenon, <2>1, <2>2 DEF SerialInv, Alone, Progress
<1>2. Inv /\ [RequestNext]_<<part, vars>> => Inv'
  <2> SUFFICES ASSUME Inv, [RequestNext]_<<part, vars>> PROVE Inv'
    BY Zenon
  <2>1. IInv' /\ part' = part
    BY Zenon, RequestPreserved DEF RequestNext
  <2>2. CASE RequestNext /\ part = "serial"
    <3>1. Alone'
      BY Zenon, <2>2 DEF RequestNext, OneAtATime, Alone
    <3> QED BY Zenon, <2>1, <2>2, <3>1, SerialPreserved DEF RequestNext
  <2>3. CASE UNCHANGED <<part, vars>>
    BY Zenon, <2>1, <2>3, SerialStutter
  <2> QED BY Zenon, <2>1, <2>2, <2>3
<1>3. Inv => SerialCallsAreAnswered
  BY Zenon DEF SerialInv, Progress, SerialCallsAreAnswered, PopulatesResponse
<1> QED BY <1>1, <1>2, <1>3, PTL DEF RequestSpec

-----------------------------------------------------------------------------
(* Visible memory. *)

\* The frames below Carved have been given away as blocks; from there to End
\* they are in the pool.
Carved == IF available.start = NoPage THEN 0 ELSE available.start
End == Carved + available.size

\* The types that the steps keep.
VisibleTypes ==
  /\ DOMAIN visible_pc = Threads /\ DOMAIN want = Threads /\ DOMAIN frame = Threads /\ DOMAIN original = Threads
  /\ DOMAIN msr = Threads /\ DOMAIN ghcb = Threads /\ DOMAIN registered = Threads /\ DOMAIN host = Visible!Frames
  /\ \A c \in Threads : want[c] \in Nat /\ frame[c] \in Nat /\ ghcb[c] \in Nat \cup {NoPage}
  /\ offset \in Nat /\ available.start \in Nat \cup {NoPage} /\ available.size \in Nat
  /\ \A b \in blocks : b.start \in Nat /\ b.size \in Nat

\* Nobody allocates: the pool reaches to the offset, below which all is shared.
PoolInv ==
  /\ available.start = NoPage => available.size = 0
  /\ End <= offset /\ offset <= FrameCount
  /\ visible_lock = NoPage => End = offset
  /\ \A f \in Visible!Frames : (f < End => host[f] = "shared") /\ (host[f] = "shared" => f < offset)

\* Of a core that holds the lock: how far the page that it adds is shared.
WorkInv(c) ==
  /\ visible_pc[c] \in {"loop", "state"} => visible_lock = c
  /\ visible_pc[c] \in {"lock", "loop", "state"} => want[c] > 0
  /\ visible_pc[c] = "loop" => End = offset
  /\ visible_pc[c] = "state" => /\ End + PageFrames = offset /\ End <= frame[c] /\ frame[c] <= offset
                                /\ \A f \in Visible!Frames : f < frame[c] => host[f] = "shared"

\* The GHCB of a core is a frame given to it, and the MSR names it or will again.
GhcbInv(c) ==
  /\ visible_pc[c] = "off" => ghcb[c] = NoPage
  /\ visible_pc[c] = "register" => ghcb[c] = NoPage /\ frame[c] < Carved
  /\ ghcb[c] # NoPage =>
       /\ ghcb[c] < Carved /\ registered[c] = ghcb[c]
       /\ visible_pc[c] \in {"idle", "lock", "loop", "abort"} => msr[c] = Visible!SevGhcbMsrNormal(ghcb[c])
       /\ visible_pc[c] = "state" => original[c] = Visible!SevGhcbMsrNormal(ghcb[c])

\* The blocks lie below Carved, apart from each other and without a gap.
BlockInv ==
  /\ \A b \in blocks : b.start + b.size <= Carved
  /\ \A a, b \in blocks : a # b => a.start + a.size <= b.start \/ b.start + b.size <= a.start
  /\ \A f \in Nat : f < Carved => \E b \in blocks : b.start <= f /\ f < b.start + b.size

VInv == VisibleTypes /\ PoolInv /\ BlockInv /\ \A c \in Threads : WorkInv(c) /\ GhcbInv(c)

\* A step of c leaves alone what the other cores have.
Others(c) ==
  \A d \in Threads \ {c} :
    /\ visible_pc'[d] = visible_pc[d] /\ want'[d] = want[d] /\ frame'[d] = frame[d] /\ original'[d] = original[d]
    /\ msr'[d] = msr[d] /\ ghcb'[d] = ghcb[d] /\ registered'[d] = registered[d]

\* What the proofs use of the constants.
LEMMA Constants ==
  ASSUME Visible!VisibleAssumption
  PROVE  /\ FrameCount \in Nat /\ PageFrames \in Nat /\ PageFrames > 0 /\ NoPage \notin Nat
         /\ \A c \in Threads : c # NoPage
         /\ \A f : f \in Visible!Frames <=> f \in Nat /\ f < FrameCount
<1>1. /\ FrameCount \in Nat /\ PageFrames \in Nat /\ PageFrames > 0 /\ NoPage \notin Nat
      /\ \A f : f \in Visible!Frames <=> f \in Nat /\ f < FrameCount
  BY DEF Visible!VisibleAssumption, Visible!Frames
<1> QED BY Zenon, <1>1 DEF Visible!VisibleAssumption

\* The pool is counted in natural numbers.
LEMMA Counted ==
  ASSUME Visible!VisibleAssumption, VisibleTypes
  PROVE  Carved \in Nat /\ End \in Nat /\ (available.start # NoPage => Carved = available.start)
  BY Constants DEF VisibleTypes, Carved, End

\* A step of one core: what the other cores rest on is kept.
LEMMA StepOf ==
  ASSUME Visible!VisibleAssumption, VInv, NEW c \in Threads, Others(c),
         visible_lock \in {NoPage, c} \/ UNCHANGED <<visible_lock, offset, available, host>>,
         Carved <= Carved', VisibleTypes', PoolInv', BlockInv', WorkInv(c)', GhcbInv(c)'
  PROVE  VInv'
<1> SUFFICES ASSUME NEW d \in Threads, d # c PROVE WorkInv(d)' /\ GhcbInv(d)'
  BY Zenon DEF VInv
<1>1. /\ visible_pc'[d] = visible_pc[d] /\ want'[d] = want[d] /\ frame'[d] = frame[d] /\ original'[d] = original[d]
      /\ msr'[d] = msr[d] /\ ghcb'[d] = ghcb[d] /\ registered'[d] = registered[d]
  BY Zenon DEF Others
<1>2. WorkInv(d) /\ GhcbInv(d)
  BY Zenon DEF VInv
<1>3. WorkInv(d)'
  <2>1. CASE visible_lock \in {NoPage, c}
    <3>1. visible_pc[d] \notin {"loop", "state"}
      BY Zenon, <1>2, <2>1, Constants DEF WorkInv
    <3> QED BY Zenon, <1>1, <1>2, <3>1 DEF WorkInv
  <2>2. CASE UNCHANGED <<visible_lock, offset, available, host>>
    BY Zenon, <1>1, <1>2, <2>2 DEF WorkInv, End, Carved
  <2> QED BY Zenon, <2>1, <2>2
<1>4. GhcbInv(d)'
  <2>1. ASSUME NEW x \in Nat, x < Carved PROVE x < Carved'
    <3>1. Carved \in Nat /\ Carved' \in Nat
      BY Constants DEF VInv, VisibleTypes, Carved
    <3> QED BY <2>1, <3>1
  <2>2. frame[d] \in Nat /\ ghcb[d] \in Nat \cup {NoPage}
    BY Zenon DEF VInv, VisibleTypes
  <2> QED BY Zenon, <1>1, <1>2, <2>1, <2>2 DEF GhcbInv, Visible!SevGhcbMsrNormal, Visible!Msr
<1> QED BY Zenon, <1>3, <1>4

\* A step that leaves the pool alone.
LEMMA PrivateStep ==
  ASSUME Visible!VisibleAssumption, VInv, NEW c \in Threads, Others(c), VisibleTypes',
         UNCHANGED <<visible_lock, offset, available, host, blocks>>, WorkInv(c)', GhcbInv(c)'
  PROVE  VInv'
<1>1. PoolInv' /\ BlockInv'
  BY Zenon DEF VInv, PoolInv, BlockInv, End, Carved
<1>2. Carved' = Carved
  BY Zenon DEF Carved
<1>3. Carved <= Carved'
  <2>1. Carved \in Nat
    BY Zenon, Counted DEF VInv
  <2> QED BY <1>2, <2>1
<1> QED BY Zenon, <1>1, <1>3, StepOf

\* A core begins to allocate.
LEMMA AllocateStep ==
  ASSUME Visible!VisibleAssumption, VInv, NEW c \in Threads, NEW size \in Nat \ {0}, NEW p \in {"off", "idle"},
         Visible!At(c, p, "lock"), want' = [want EXCEPT ![c] = size],
         UNCHANGED <<frame, original, Visible!pool, host, msr, ghcb, registered, blocks>>
  PROVE  VInv'
<1>1. visible_pc' = [visible_pc EXCEPT ![c] = "lock"] /\ DOMAIN visible_pc = Threads /\ DOMAIN want = Threads /\ visible_pc[c] = p
  BY Zenon DEF Visible!At, VInv, VisibleTypes
<1>2. visible_pc'[c] = "lock" /\ want'[c] = size /\ Others(c)
  BY Zenon, <1>1 DEF Others
<1>3. VisibleTypes'
  <2>1. DOMAIN visible_pc' = Threads /\ DOMAIN want' = Threads
    BY Zenon, <1>1
  <2>2. ASSUME NEW d \in Threads PROVE want'[d] \in Nat
    BY Zenon, <1>1, <2>2 DEF VInv, VisibleTypes
  <2> QED BY Zenon, <2>1, <2>2 DEF VInv, VisibleTypes, Visible!pool
<1>4. WorkInv(c)'
  <2>1. size > 0
    OBVIOUS
  <2> QED BY Zenon, <1>2, <2>1 DEF WorkInv
<1>5. GhcbInv(c)'
  BY Zenon, <1>1, <1>2 DEF VInv, GhcbInv, Visible!pool, Carved
<1> QED BY Zenon, <1>2, <1>3, <1>4, <1>5, PrivateStep DEF Visible!pool

\* The lock is taken.
LEMMA AcquireStep ==
  ASSUME Visible!VisibleAssumption, VInv, NEW c \in Threads, Visible!Acquire(c)
  PROVE  VInv'
<1>1. /\ visible_pc' = [visible_pc EXCEPT ![c] = "loop"] /\ visible_pc[c] = "lock" /\ visible_lock = NoPage /\ visible_lock' = c
      /\ UNCHANGED <<want, frame, original, offset, available, host, msr, ghcb, registered, blocks>>
  BY Zenon DEF Visible!Acquire, Visible!At
<1>2. DOMAIN visible_pc = Threads
  BY Zenon DEF VInv, VisibleTypes
<1>3. DOMAIN visible_pc' = Threads /\ visible_pc'[c] = "loop" /\ Others(c)
  BY Zenon, <1>1, <1>2 DEF Others
<1>4. VisibleTypes'
  BY Zenon, <1>1, <1>3 DEF VInv, VisibleTypes
<1>5. PoolInv' /\ BlockInv'
  BY Zenon, <1>1, Constants DEF VInv, PoolInv, BlockInv, End, Carved
<1>6. WorkInv(c)' /\ GhcbInv(c)'
  BY Zenon, <1>1, <1>3 DEF VInv, PoolInv, WorkInv, GhcbInv, End, Carved
<1>7. Carved <= Carved'
  <2>1. Carved \in Nat /\ Carved' = Carved
    BY Zenon, <1>1, Counted DEF VInv, Carved
  <2> QED BY <2>1
<1> QED BY Zenon, <1>1, <1>3, <1>4, <1>5, <1>6, <1>7, StepOf

\* A core stops, or fails, with the MSR as it was.
LEMMA FailStep ==
  ASSUME Visible!VisibleAssumption, VInv, NEW c \in Threads, NEW p, NEW q \in {"abort", "stopped"}, Visible!At(c, p, q),
         UNCHANGED <<want, frame, original, Visible!pool, host, ghcb, registered, blocks>>,
         DOMAIN msr' = Threads, \A d \in Threads \ {c} : msr'[d] = msr[d],
         q = "abort" /\ ghcb[c] # NoPage => msr'[c] = Visible!SevGhcbMsrNormal(ghcb[c])
  PROVE  VInv'
<1>1. visible_pc' = [visible_pc EXCEPT ![c] = q] /\ DOMAIN visible_pc = Threads
  BY Zenon DEF VInv, VisibleTypes, Visible!At
<1>2. DOMAIN visible_pc' = Threads /\ visible_pc'[c] = q /\ Others(c)
  BY Zenon, <1>1 DEF Others
<1>3. VisibleTypes'
  BY Zenon, <1>2 DEF VInv, VisibleTypes, Visible!pool
<1>4. WorkInv(c)' /\ GhcbInv(c)'
  BY Zenon, <1>2 DEF VInv, WorkInv, GhcbInv, Carved, Visible!pool, Visible!SevGhcbMsrNormal, Visible!Msr
<1> QED BY Zenon, <1>2, <1>3, <1>4, PrivateStep DEF Visible!pool

\* The pool is too small: the next page is taken, or none is left.
LEMMA ExpandStep ==
  ASSUME Visible!VisibleAssumption, VInv, NEW c \in Threads, Visible!Expand(c)
  PROVE  VInv'
<1>1. visible_pc[c] = "loop" /\ UNCHANGED <<want, visible_lock, available, host, msr, ghcb, registered, blocks>>
  BY Zenon DEF Visible!Expand
<1>2. WorkInv(c) /\ GhcbInv(c) /\ PoolInv /\ BlockInv /\ VisibleTypes
  BY Zenon DEF VInv
<1>3. visible_lock = c /\ want[c] > 0 /\ End = offset
  BY Zenon, <1>1, <1>2 DEF WorkInv
<1>4. CASE offset + PageFrames > FrameCount
  <2>1. Visible!At(c, "loop", "abort") /\ UNCHANGED <<frame, original, offset>>
    BY Zenon, <1>4 DEF Visible!Expand
  <2>2. ghcb[c] # NoPage => msr'[c] = Visible!SevGhcbMsrNormal(ghcb[c])
    BY Zenon, <1>1, <1>2 DEF GhcbInv
  <2> QED BY Zenon, <1>1, <1>2, <2>1, <2>2, FailStep DEF Visible!pool, VisibleTypes
<1>5. CASE ~(offset + PageFrames > FrameCount)
  <2>1. /\ visible_pc' = [visible_pc EXCEPT ![c] = "state"] /\ offset' = offset + PageFrames
        /\ frame' = [frame EXCEPT ![c] = offset] /\ original' = [original EXCEPT ![c] = msr[c]]
    BY Zenon, <1>5 DEF Visible!Expand, Visible!At
  <2>2. offset \in Nat /\ offset + PageFrames \in Nat /\ offset + PageFrames <= FrameCount
        /\ Carved \in Nat /\ End <= offset + PageFrames
    <3>1. offset \in Nat /\ Carved \in Nat /\ End \in Nat
      BY Zenon, <1>2, Counted DEF VisibleTypes
    <3> QED BY <1>3, <1>5, <3>1, Constants
  <2>3. /\ DOMAIN visible_pc' = Threads /\ DOMAIN frame' = Threads /\ DOMAIN original' = Threads
        /\ visible_pc'[c] = "state" /\ frame'[c] = offset /\ original'[c] = msr[c]
    BY Zenon, <1>2, <2>1 DEF VisibleTypes
  <2>4. Others(c)
    BY Zenon, <1>1, <1>2, <2>1 DEF Others, VisibleTypes
  <2>5. VisibleTypes'
    <3>1. ASSUME NEW d \in Threads PROVE frame'[d] \in Nat
      BY Zenon, <1>2, <2>2, <2>3, <2>4, <3>1 DEF VisibleTypes, Others
    <3> QED BY Zenon, <1>1, <1>2, <2>1, <2>2, <2>3, <3>1 DEF VisibleTypes
  <2>6. End' = End /\ Carved' = Carved
    BY Zenon, <1>1 DEF End, Carved
  <2>7. PoolInv'
    <3>1. ASSUME NEW f \in Visible!Frames, host[f] = "shared" PROVE f < offset + PageFrames
      BY <1>2, <2>2, <3>1, Constants DEF PoolInv
    <3> QED BY Zenon, <1>1, <1>2, <1>3, <2>1, <2>2, <2>6, <3>1, Constants DEF PoolInv
  <2>8. BlockInv'
    BY Zenon, <1>1, <1>2, <2>6 DEF BlockInv
  <2>9. WorkInv(c)'
    <3>1. offset <= offset + PageFrames /\ offset <= offset
      BY <2>2, Constants
    <3> QED BY Zenon, <1>1, <1>2, <1>3, <2>1, <2>3, <2>6, <3>1 DEF WorkInv, PoolInv
  <2>10. GhcbInv(c)'
    BY Zenon, <1>1, <1>2, <2>3, <2>6 DEF GhcbInv
  <2>11. Carved <= Carved'
    BY <2>2, <2>6
  <2> QED BY Zenon, <1>3, <2>4, <2>5, <2>7, <2>8, <2>9, <2>10, <2>11, StepOf
<1> QED BY Zenon, <1>4, <1>5

\* The host shares one more frame, or refuses.
LEMMA PageStateStep ==
  ASSUME Visible!VisibleAssumption, VInv, NEW c \in Threads, Visible!PageState(c)
  PROVE  VInv'
<1>1. visible_pc[c] = "state" /\ frame[c] < offset /\ UNCHANGED <<want, original, Visible!pool, ghcb, registered, blocks>>
  BY Zenon DEF Visible!PageState
<1>2. WorkInv(c) /\ GhcbInv(c) /\ PoolInv /\ BlockInv /\ VisibleTypes
  BY Zenon DEF VInv
<1>3. CASE Visible!Refused(c) /\ Visible!At(c, "state", "abort") /\ UNCHANGED <<host, frame>>
  <2>1. DOMAIN msr' = Threads /\ msr'[c] = original[c] /\ \A d \in Threads \ {c} : msr'[d] = msr[d]
    BY Zenon, <1>2, <1>3 DEF Visible!Refused, VisibleTypes
  <2>2. ghcb[c] # NoPage => msr'[c] = Visible!SevGhcbMsrNormal(ghcb[c])
    BY Zenon, <1>1, <1>2, <2>1 DEF GhcbInv
  <2> QED BY Zenon, <1>1, <1>3, <2>1, <2>2, FailStep
<1>4. CASE /\ host' = [host EXCEPT ![frame[c]] = "shared"]
           /\ msr' = [msr EXCEPT ![c] = Visible!Msr("page_state_response", NoPage)]
           /\ frame' = [frame EXCEPT ![c] = @ + 1]
           /\ UNCHANGED visible_pc
  <2>1. visible_lock = c /\ End + PageFrames = offset /\ End <= frame[c] /\ frame[c] <= offset /\ want[c] > 0
    BY Zenon, <1>1, <1>2 DEF WorkInv
  <2>2. frame[c] \in Nat /\ offset \in Nat /\ offset <= FrameCount /\ End \in Nat /\ Carved \in Nat
    BY Zenon, <1>2, Counted DEF VisibleTypes, PoolInv
  <2>3. frame[c] + 1 \in Nat /\ End <= frame[c] + 1 /\ frame[c] + 1 <= offset /\ frame[c] \in Visible!Frames
    BY <1>1, <2>1, <2>2, Constants
  <2>4. /\ DOMAIN msr' = Threads /\ DOMAIN frame' = Threads /\ DOMAIN host' = Visible!Frames
        /\ frame'[c] = frame[c] + 1 /\ visible_pc'[c] = "state"
        /\ \A f \in Visible!Frames : host'[f] = IF f = frame[c] THEN "shared" ELSE host[f]
    BY Zenon, <1>1, <1>2, <1>4 DEF VisibleTypes
  <2>5. Others(c)
    BY Zenon, <1>1, <1>2, <1>4 DEF Others, VisibleTypes
  <2>6. VisibleTypes'
    <3>1. ASSUME NEW d \in Threads PROVE frame'[d] \in Nat
      BY Zenon, <1>2, <2>3, <2>4, <2>5, <3>1 DEF VisibleTypes, Others
    <3> QED BY Zenon, <1>1, <1>2, <1>4, <2>4, <3>1 DEF VisibleTypes, Visible!pool
  <2>7. End' = End /\ Carved' = Carved /\ UNCHANGED <<visible_lock, offset, available>>
    BY Zenon, <1>1 DEF End, Carved, Visible!pool
  <2>8. PoolInv'
    <3>1. ASSUME NEW f \in Visible!Frames PROVE (f < End => host'[f] = "shared") /\ (host'[f] = "shared" => f < offset)
      BY Zenon, <1>1, <1>2, <2>4, <3>1 DEF PoolInv
    <3> QED BY Zenon, <1>2, <2>7, <3>1 DEF PoolInv
  <2>9. BlockInv'
    BY Zenon, <1>1, <1>2, <2>7 DEF BlockInv
  <2>10. WorkInv(c)'
    <3>1. ASSUME NEW f \in Visible!Frames, f < frame[c] + 1 PROVE host'[f] = "shared"
      <4>1. f < frame[c] \/ f = frame[c]
        BY <2>2, <3>1, Constants
      <4> QED BY Zenon, <1>1, <1>2, <2>4, <4>1 DEF WorkInv
    <3> QED BY Zenon, <1>1, <2>1, <2>3, <2>4, <2>7, <3>1 DEF WorkInv
  <2>11. GhcbInv(c)'
    BY Zenon, <1>1, <1>2, <2>4, <2>7 DEF GhcbInv
  <2>12. Carved <= Carved'
    BY <2>2, <2>7
  <2> QED BY Zenon, <2>1, <2>5, <2>6, <2>8, <2>9, <2>10, <2>11, <2>12, StepOf
<1> QED BY Zenon, <1>3, <1>4 DEF Visible!PageState

\* A page of shared frames is added to the pool, behind what it has.
LEMMA PageAddedStep ==
  ASSUME Visible!VisibleAssumption, VInv, NEW c \in Threads, Visible!PageAdded(c)
  PROVE  VInv'
<1>1. /\ visible_pc[c] = "state" /\ visible_pc' = [visible_pc EXCEPT ![c] = "loop"] /\ frame[c] = offset
      /\ msr' = [msr EXCEPT ![c] = original[c]] /\ available' = Visible!Extended
      /\ UNCHANGED <<want, frame, original, visible_lock, offset, host, ghcb, registered, blocks>>
  BY Zenon DEF Visible!PageAdded, Visible!At
<1>2. WorkInv(c) /\ GhcbInv(c) /\ PoolInv /\ BlockInv /\ VisibleTypes
  BY Zenon DEF VInv
<1>3. /\ visible_lock = c /\ End + PageFrames = offset /\ want[c] > 0
      /\ \A f \in Visible!Frames : f < offset => host[f] = "shared"
  BY Zenon, <1>1, <1>2 DEF WorkInv
<1>4. End \in Nat /\ Carved \in Nat /\ offset \in Nat /\ offset <= FrameCount /\ available.size \in Nat
  BY Zenon, <1>2, Counted DEF VisibleTypes, PoolInv
<1>5. /\ available'.start = (IF available.start = NoPage THEN offset - PageFrames ELSE available.start)
      /\ available'.size = available.size + PageFrames
  BY Zenon, <1>1 DEF Visible!Extended, Visible!ExtraStart
<1>6. /\ available'.start = Carved /\ available'.size \in Nat /\ available'.start # NoPage
      /\ Carved' = Carved /\ End' = offset
  <2>1. available.start = NoPage => offset - PageFrames = 0
    BY <1>2, <1>3, <1>4, Constants DEF PoolInv, End, Carved
  <2>2. available'.start = Carved
    BY Zenon, <1>5, <2>1 DEF Carved
  <2>3. Carved # NoPage
    BY <1>4, Constants
  <2>4. Carved' = Carved
    BY Zenon, <2>2, <2>3 DEF Carved
  <2>5. End' = Carved + (available.size + PageFrames)
    BY Zenon, <1>5, <2>4 DEF End
  <2>6. Carved + available.size + PageFrames = offset
    BY Zenon, <1>3 DEF End
  <2> QED BY <1>4, <1>5, <2>2, <2>3, <2>4, <2>5, <2>6, Constants
<1>7. DOMAIN visible_pc' = Threads /\ DOMAIN msr' = Threads /\ visible_pc'[c] = "loop" /\ msr'[c] = original[c] /\ Others(c)
  BY Zenon, <1>1, <1>2 DEF VisibleTypes, Others
<1>8. VisibleTypes'
  BY Zenon, <1>1, <1>2, <1>4, <1>6, <1>7 DEF VisibleTypes
<1>9. PoolInv'
  <2>1. offset <= offset
    BY <1>4
  <2> QED BY Zenon, <1>1, <1>2, <1>3, <1>4, <1>6, <2>1 DEF PoolInv
<1>10. BlockInv'
  BY Zenon, <1>1, <1>2, <1>6 DEF BlockInv
<1>11. WorkInv(c)' /\ GhcbInv(c)'
  BY Zenon, <1>1, <1>2, <1>3, <1>6, <1>7 DEF WorkInv, GhcbInv
<1>12. Carved <= Carved'
  BY <1>4, <1>6
<1> QED BY Zenon, <1>3, <1>7, <1>8, <1>9, <1>10, <1>11, <1>12, StepOf

\* A block is carved off the front of the pool, and the lock is released.
LEMMA CarveStep ==
  ASSUME Visible!VisibleAssumption, VInv, NEW c \in Threads, Visible!Carve(c)
  PROVE  VInv'
<1>1. /\ visible_pc[c] = "loop" /\ available.size >= want[c] /\ visible_lock' = NoPage /\ available' = Visible!Remaining(c)
      /\ blocks' = blocks \cup {[core |-> c, start |-> available.start, size |-> want[c]]}
      /\ UNCHANGED <<want, original, offset, host, msr, ghcb, registered>>
  BY Zenon DEF Visible!Carve
<1>2. WorkInv(c) /\ GhcbInv(c) /\ PoolInv /\ BlockInv /\ VisibleTypes
  BY Zenon DEF VInv
<1>3. visible_lock = c /\ End = offset /\ want[c] > 0
  BY Zenon, <1>1, <1>2 DEF WorkInv
<1>4. /\ End \in Nat /\ Carved \in Nat /\ offset \in Nat /\ offset <= FrameCount /\ available.size \in Nat
      /\ want[c] \in Nat
  BY Zenon, <1>2, Counted DEF VisibleTypes, PoolInv
<1>5. available.start # NoPage /\ Carved = available.start
  <2>1. available.size # 0
    BY <1>1, <1>3, <1>4
  <2> QED BY Zenon, <1>2, <2>1 DEF PoolInv, Carved
<1>6. available'.start = Carved + want[c] /\ available'.size = available.size - want[c]
  BY Zenon, <1>1, <1>5 DEF Visible!Remaining
<1>7. /\ available'.start \in Nat /\ available'.start # NoPage /\ available'.size \in Nat
      /\ Carved' = Carved + want[c] /\ End' = offset
      /\ Carved <= Carved + want[c] /\ Carved < Carved + want[c]
  <2>1. /\ Carved + want[c] \in Nat /\ available.size - want[c] \in Nat /\ Carved + want[c] # NoPage
        /\ Carved <= Carved + want[c] /\ Carved < Carved + want[c]
    BY <1>1, <1>3, <1>4, Constants
  <2>2. Carved' = Carved + want[c]
    BY Zenon, <1>6, <2>1 DEF Carved
  <2>3. Carved + available.size = offset
    BY Zenon, <1>3 DEF End
  <2>4. (Carved + want[c]) + (available.size - want[c]) = offset
    BY <1>4, <2>3
  <2> QED BY Zenon, <1>6, <2>1, <2>2, <2>4 DEF End
<1>8. PICK q, x : /\ visible_pc' = [visible_pc EXCEPT ![c] = q] /\ x \in Nat
                  /\ DOMAIN frame' = Threads /\ frame'[c] = x /\ \A d \in Threads \ {c} : frame'[d] = frame[d]
                  /\ \/ q = "register" /\ ghcb[c] = NoPage /\ x = Carved
                     \/ q = "idle" /\ ghcb[c] # NoPage
  <2>1. CASE ghcb[c] = NoPage
    <3>1. visible_pc' = [visible_pc EXCEPT ![c] = "register"] /\ frame' = [frame EXCEPT ![c] = Carved]
      BY Zenon, <1>5, <2>1 DEF Visible!Carve, Visible!At
    <3> QED BY Zenon, <1>2, <1>4, <2>1, <3>1 DEF VisibleTypes
  <2>2. CASE ghcb[c] # NoPage
    <3>1. visible_pc' = [visible_pc EXCEPT ![c] = "idle"] /\ frame' = frame
      BY Zenon, <2>2 DEF Visible!Carve, Visible!At
    <3> QED BY Zenon, <1>2, <2>2, <3>1 DEF VisibleTypes
  <2> QED BY Zenon, <2>1, <2>2
<1>9. DOMAIN visible_pc' = Threads /\ DOMAIN frame' = Threads /\ visible_pc'[c] = q /\ frame'[c] = x /\ Others(c)
  BY Zenon, <1>1, <1>2, <1>8 DEF VisibleTypes, Others
<1>10. VisibleTypes'
  <2>1. ASSUME NEW d \in Threads PROVE frame'[d] \in Nat
    BY Zenon, <1>2, <1>8, <1>9, <2>1 DEF VisibleTypes, Others
  <2>2. ASSUME NEW b \in blocks' PROVE b.start \in Nat /\ b.size \in Nat
    <3>1. CASE b = [core |-> c, start |-> available.start, size |-> want[c]]
      BY Zenon, <1>4, <1>5, <3>1
    <3> QED BY Zenon, <1>1, <1>2, <2>2, <3>1 DEF VisibleTypes
  <2> QED BY Zenon, <1>1, <1>2, <1>7, <1>9, <2>1, <2>2 DEF VisibleTypes
<1>11. PoolInv'
  BY Zenon, <1>1, <1>2, <1>3, <1>7 DEF PoolInv
<1>12. BlockInv'
  <2>1. PICK n : n = [core |-> c, start |-> Carved, size |-> want[c]]
    BY Zenon
  <2>2. blocks' = blocks \cup {n} /\ n.start = Carved /\ n.size = want[c]
    BY Zenon, <1>1, <1>5, <2>1
  <2>3. ASSUME NEW b \in blocks
        PROVE  b.start + b.size <= Carved /\ b.start + b.size <= Carved + want[c]
    <3>1. b.start + b.size <= Carved /\ b.start \in Nat /\ b.size \in Nat
      BY Zenon, <1>2 DEF BlockInv, VisibleTypes
    <3> QED BY <1>4, <3>1
  <2>4. Carved + want[c] <= Carved + want[c]
    BY <1>4
  <2>5. \A b \in blocks' : b.start + b.size <= Carved + want[c]
    BY Zenon, <2>2, <2>3, <2>4
  <2>6. \A a, b \in blocks' : a # b => a.start + a.size <= b.start \/ b.start + b.size <= a.start
    BY Zenon, <1>2, <2>2, <2>3 DEF BlockInv
  <2>7. ASSUME NEW f \in Nat, f < Carved + want[c]
        PROVE  \E b \in blocks' : b.start <= f /\ f < b.start + b.size
    <3>1. f < Carved \/ Carved <= f
      BY <1>4
    <3> QED BY Zenon, <1>2, <2>2, <2>7, <3>1 DEF BlockInv
  <2> QED BY Zenon, <1>7, <2>5, <2>6, <2>7 DEF BlockInv
<1>13. WorkInv(c)' /\ GhcbInv(c)'
  <2>1. ghcb[c] # NoPage => ghcb[c] < Carved + want[c]
    <3>1. ghcb[c] # NoPage => ghcb[c] < Carved /\ ghcb[c] \in Nat
      BY Zenon, <1>2 DEF GhcbInv, VisibleTypes
    <3> QED BY <1>4, <3>1
  <2> QED BY Zenon, <1>1, <1>2, <1>7, <1>8, <1>9, <2>1 DEF WorkInv, GhcbInv
<1>14. Carved <= Carved'
  BY Zenon, <1>7
<1> QED BY Zenon, <1>3, <1>9, <1>10, <1>11, <1>12, <1>13, <1>14, StepOf

\* The GHCB is registered, or the host refuses it.
LEMMA RegisterStep ==
  ASSUME Visible!VisibleAssumption, VInv, NEW c \in Threads, Visible!RegisterGhcb(c)
  PROVE  VInv'
<1>1. visible_pc[c] = "register" /\ UNCHANGED <<want, frame, original, Visible!pool, host, blocks>>
  BY Zenon DEF Visible!RegisterGhcb
<1>2. GhcbInv(c) /\ VisibleTypes
  BY Zenon DEF VInv
<1>3. ghcb[c] = NoPage /\ frame[c] < Carved /\ frame[c] \in Nat
  BY Zenon, <1>1, <1>2 DEF GhcbInv, VisibleTypes
<1>4. CASE /\ registered' = [registered EXCEPT ![c] = frame[c]]
           /\ msr' = [msr EXCEPT ![c] = Visible!SevGhcbMsrNormal(frame[c])]
           /\ ghcb' = [ghcb EXCEPT ![c] = frame[c]]
           /\ Visible!At(c, "register", "idle")
  <2>1. /\ DOMAIN visible_pc' = Threads /\ DOMAIN msr' = Threads /\ DOMAIN ghcb' = Threads /\ DOMAIN registered' = Threads
        /\ visible_pc'[c] = "idle" /\ msr'[c] = Visible!SevGhcbMsrNormal(frame[c]) /\ ghcb'[c] = frame[c]
        /\ registered'[c] = frame[c] /\ Others(c)
    BY Zenon, <1>1, <1>2, <1>4 DEF VisibleTypes, Others, Visible!At
  <2>2. VisibleTypes'
    <3>1. ASSUME NEW d \in Threads PROVE ghcb'[d] \in Nat \cup {NoPage}
      BY Zenon, <1>2, <1>3, <2>1, <3>1 DEF VisibleTypes, Others
    <3> QED BY Zenon, <1>1, <1>2, <2>1, <3>1 DEF VisibleTypes, Visible!pool
  <2>3. WorkInv(c)' /\ GhcbInv(c)'
    BY Zenon, <1>1, <1>3, <2>1 DEF WorkInv, GhcbInv, Carved, Visible!pool, Visible!SevGhcbMsrNormal, Visible!Msr
  <2> QED BY Zenon, <1>1, <2>1, <2>2, <2>3, PrivateStep DEF Visible!pool
<1>5. CASE /\ msr' = [msr EXCEPT ![c] = Visible!Msr("register_response", NoPage)]
           /\ Visible!At(c, "register", "abort")
           /\ UNCHANGED <<ghcb, registered>>
  <2>1. DOMAIN msr' = Threads /\ \A d \in Threads \ {c} : msr'[d] = msr[d]
    BY Zenon, <1>2, <1>5 DEF VisibleTypes
  <2> QED BY Zenon, <1>1, <1>3, <1>5, <2>1, FailStep
<1> QED BY Zenon, <1>4, <1>5 DEF Visible!RegisterGhcb

\* The machine stops.
LEMMA ShutdownStep ==
  ASSUME Visible!VisibleAssumption, VInv, NEW c \in Threads, Visible!shutdown(c)
  PROVE  VInv'
<1>1. /\ Visible!At(c, "abort", "stopped") /\ msr' = [msr EXCEPT ![c] = Visible!Msr("termination", NoPage)]
      /\ UNCHANGED <<want, frame, original, Visible!pool, host, ghcb, registered, blocks>>
  BY Zenon DEF Visible!shutdown
<1>2. DOMAIN msr' = Threads /\ \A d \in Threads \ {c} : msr'[d] = msr[d]
  BY Zenon, <1>1 DEF VInv, VisibleTypes
<1> QED BY Zenon, <1>1, <1>2, FailStep

\* The numbers of an empty pool.
LEMMA Zero == 0 \in Nat /\ 0 + 0 = 0 /\ 0 <= 0 /\ \A f \in Nat : ~(f < 0)
  OBVIOUS

\* Nothing is shared at the start.
LEMMA VisibleInitial ==
  ASSUME Visible!VisibleAssumption, Visible!Init
  PROVE  VInv
<1>1. Carved = 0 /\ End = 0 /\ available.start = NoPage /\ available.size = 0
  <2>1. available.start = NoPage /\ available.size = 0
    BY Zenon DEF Visible!Init
  <2>2. Carved = 0
    BY Zenon, <2>1 DEF Carved
  <2> QED BY Zenon, <2>1, <2>2, Zero DEF End
<1>2. VisibleTypes
  BY Zenon, <1>1, Zero DEF Visible!Init, VisibleTypes
<1>3. PoolInv
  <2>1. \A f \in Visible!Frames : ~(f < 0)
    BY Constants
  <2>2. 0 <= FrameCount
    BY Constants
  <2> QED BY Zenon, <1>1, <2>1, <2>2, Zero DEF Visible!Init, PoolInv
<1>4. BlockInv
  BY Zenon, <1>1, Zero DEF Visible!Init, BlockInv
<1>5. ASSUME NEW c \in Threads PROVE WorkInv(c) /\ GhcbInv(c)
  BY Zenon DEF Visible!Init, WorkInv, GhcbInv
<1> QED BY Zenon, <1>2, <1>3, <1>4, <1>5 DEF VInv

\* Every step keeps the invariant.
LEMMA VisiblePreserved ==
  ASSUME Visible!VisibleAssumption, VInv, [Visible!Next]_(Visible!vars)
  PROVE  VInv'
<1>1. CASE UNCHANGED Visible!vars
  <2>1. UNCHANGED <<visible_pc, want, frame, original, visible_lock, offset, available, host, msr, ghcb, registered, blocks>>
    BY Zenon, <1>1 DEF Visible!vars, Visible!core, Visible!pool
  <2>2. VisibleTypes' /\ PoolInv' /\ BlockInv'
    BY Zenon, <2>1 DEF VInv, VisibleTypes, PoolInv, BlockInv, Carved, End
  <2>3. ASSUME NEW c \in Threads PROVE WorkInv(c)' /\ GhcbInv(c)'
    BY Zenon, <2>1 DEF VInv, WorkInv, GhcbInv, Carved, End
  <2> QED BY Zenon, <2>2, <2>3 DEF VInv
<1>2. ASSUME NEW c \in Threads, Visible!ap_init(c) PROVE VInv'
  <2>1. 1 \in Nat \ {0}
    OBVIOUS
  <2> QED BY Zenon, <1>2, <2>1, AllocateStep DEF Visible!ap_init
<1>3. ASSUME NEW c \in Threads, NEW size \in BlockSizes, Visible!allocate_visible(c, size) PROVE VInv'
  <2>1. size \in Nat \ {0}
    BY Zenon DEF Visible!VisibleAssumption
  <2> QED BY Zenon, <1>3, <2>1, AllocateStep DEF Visible!allocate_visible
<1> QED BY Zenon, <1>1, <1>2, <1>3, AcquireStep, ExpandStep, PageStateStep, PageAddedStep, CarveStep,
           RegisterStep, ShutdownStep DEF Visible!Next

\* What lies below what has been carved is shared, and every block does.
LEMMA Shares ==
  ASSUME Visible!VisibleAssumption, VInv
  PROVE  Visible!BlocksAreShared
<1>1. ASSUME NEW b \in blocks, NEW f \in Visible!FramesOf(b)
      PROVE  f \in Visible!Frames /\ host[f] = "shared" /\ f < b.start + b.size /\ b.start <= f
  <2>1. /\ b.start \in Nat /\ b.size \in Nat /\ b.start + b.size <= Carved /\ offset \in Nat
        /\ available.size \in Nat /\ offset <= FrameCount /\ End <= offset
    BY Zenon DEF VInv, VisibleTypes, BlockInv, PoolInv
  <2>2. Carved \in Nat /\ End = Carved + available.size
    BY Zenon, Counted DEF VInv, End
  <2>3. f \in Nat /\ f < b.start + b.size /\ b.start <= f
    BY <1>1, <2>1 DEF Visible!FramesOf
  <2>4. f \in Visible!Frames /\ f < End
    BY <2>1, <2>2, <2>3, Constants
  <2> QED BY Zenon, <2>3, <2>4 DEF VInv, PoolInv
<1>2. ASSUME NEW a \in blocks, NEW b \in blocks, a # b, NEW f \in Visible!FramesOf(a), f \in Visible!FramesOf(b)
      PROVE  FALSE
  <2>1. /\ a.start \in Nat /\ a.size \in Nat /\ b.start \in Nat /\ b.size \in Nat
        /\ a.start + a.size <= b.start \/ b.start + b.size <= a.start
    BY Zenon, <1>2 DEF VInv, VisibleTypes, BlockInv
  <2>2. /\ f < a.start + a.size /\ a.start <= f /\ f < b.start + b.size /\ b.start <= f /\ f \in Nat
    BY Zenon, <1>1, <1>2, Constants
  <2> QED BY <2>1, <2>2
<1> QED BY Zenon, <1>1, <1>2 DEF Visible!BlocksAreShared

\* What is shared is carved, or in the pool.
LEMMA Accounts ==
  ASSUME Visible!VisibleAssumption, VInv
  PROVE  Visible!SharedIsAccountedFor
<1> SUFFICES ASSUME visible_lock = NoPage
             PROVE  {f \in Visible!Frames : host[f] = "shared"} =
                      (UNION {Visible!FramesOf(b) : b \in blocks})
                        \cup (IF available.size = 0 THEN {} ELSE Visible!FramesOf(available))
  BY Zenon DEF Visible!SharedIsAccountedFor
<1>1. /\ Carved \in Nat /\ End = Carved + available.size /\ End = offset /\ offset <= FrameCount
      /\ available.size \in Nat /\ (available.start = NoPage => available.size = 0)
      /\ \A f \in Visible!Frames : f < End <=> host[f] = "shared"
  BY Zenon, Counted DEF VInv, PoolInv, VisibleTypes, End
<1>2. available.size # 0 => available.start = Carved
  BY Zenon, <1>1 DEF Carved
<1>3. ASSUME NEW f \in Visible!Frames, host[f] = "shared"
      PROVE  f \in (UNION {Visible!FramesOf(b) : b \in blocks})
               \cup (IF available.size = 0 THEN {} ELSE Visible!FramesOf(available))
  <2>1. f \in Nat /\ f < End
    BY Zenon, <1>1, <1>3, Constants
  <2>2. CASE f < Carved
    <3>1. PICK b \in blocks : b.start <= f /\ f < b.start + b.size
      BY Zenon, <2>1, <2>2 DEF VInv, BlockInv
    <3>2. b.start \in Nat /\ b.size \in Nat
      BY Zenon DEF VInv, VisibleTypes
    <3>3. f \in Visible!FramesOf(b)
      BY <2>1, <3>1, <3>2 DEF Visible!FramesOf
    <3> QED BY Zenon, <3>3
  <2>3. CASE ~(f < Carved)
    <3>1. available.size # 0
      BY <1>1, <2>1, <2>3
    <3>2. f \in Visible!FramesOf(available)
      BY <1>1, <1>2, <2>1, <2>3, <3>1 DEF Visible!FramesOf
    <3> QED BY Zenon, <3>1, <3>2
  <2> QED BY Zenon, <2>2, <2>3
<1>4. ASSUME NEW b \in blocks, NEW f \in Visible!FramesOf(b) PROVE f \in Visible!Frames /\ host[f] = "shared"
  BY Zenon, <1>4, Shares DEF Visible!BlocksAreShared
<1>5. ASSUME NEW f \in Visible!FramesOf(available), available.size # 0 PROVE f \in Visible!Frames /\ host[f] = "shared"
  <2>1. f \in Visible!Frames /\ f < End
    BY <1>1, <1>2, <1>5, Constants DEF Visible!FramesOf
  <2> QED BY Zenon, <1>1, <2>1
<1> QED BY Zenon, <1>3, <1>4, <1>5

\* A core that is not allocating has its GHCB in force.
LEMMA InForce ==
  ASSUME Visible!VisibleAssumption, VInv
  PROVE  Visible!GhcbInForce
<1> SUFFICES ASSUME NEW c \in Threads, visible_pc[c] \in {"idle", "abort"}, ghcb[c] # NoPage
             PROVE  /\ msr[c] = Visible!SevGhcbMsrNormal(ghcb[c])
                    /\ registered[c] = ghcb[c] /\ host[ghcb[c]] = "shared"
  BY Zenon DEF Visible!GhcbInForce
<1>1. /\ ghcb[c] \in Nat /\ ghcb[c] < Carved /\ registered[c] = ghcb[c]
      /\ msr[c] = Visible!SevGhcbMsrNormal(ghcb[c])
  BY Zenon DEF VInv, VisibleTypes, GhcbInv
<1>2. ghcb[c] \in Visible!Frames /\ ghcb[c] < End
  <2>1. /\ Carved \in Nat /\ End = Carved + available.size /\ End <= offset /\ offset <= FrameCount
        /\ available.size \in Nat /\ offset \in Nat
    BY Zenon, Counted DEF VInv, PoolInv, VisibleTypes, End
  <2> QED BY <1>1, <2>1, Constants
<1> QED BY Zenon, <1>1, <1>2 DEF VInv, PoolInv

\* allocate_visible gives every caller memory of its own that the host shares,
\* whichever cores compete for the pool and wherever the host refuses; what is
\* shared is in a block or in the pool; and outside allocate_visible the MSR of a
\* core names its GHCB, which is registered and shared.
THEOREM VisibleStaysShared == Visible!Spec => []VisibleIsShared
<1>1. Visible!Init => VInv
  BY Zenon, VisibleInitial, ConfidentialAssumption
<1>2. VInv /\ [Visible!Next]_(Visible!vars) => VInv'
  BY Zenon, VisiblePreserved, ConfidentialAssumption
<1>3. VInv => VisibleIsShared
  BY Zenon, Shares, Accounts, InForce, ConfidentialAssumption DEF VisibleIsShared
<1> QED BY <1>1, <1>2, <1>3, PTL DEF Visible!Spec

-----------------------------------------------------------------------------
(* The GHCB. *)

\* The fields of the page.
PageFields == {"format", "word", "params", "exit_code", "valid", "written"}

\* What the page holds from the head of a hypercall to its end, and at an exit
\* in the base format.
CallInv ==
  /\ call_pc \in {"input", "hypercall", "output"} => call_ghcb.format = "hypercall" /\ call_ghcb.params = op
  /\ call_pc = "input" => reply = Ghcb!Input(op, processed)
  /\ call_pc = "hypercall" => call_ghcb.word = Ghcb!Input(op, processed)
  /\ call_pc = "output" => call_ghcb.word.reps = processed

\* The invariant.
GhcbPageInv == DOMAIN call_ghcb = PageFields /\ CallInv /\ Ghcb!WrittenIsValid

\* A store to a field of the page leaves the others alone.
LEMMA GhcbStores ==
  ASSUME DOMAIN call_ghcb = PageFields, NEW v, NEW w
  PROVE  /\ LET g == [call_ghcb EXCEPT !.word = v]
            IN  DOMAIN g = PageFields /\ g.word = v /\ g.format = call_ghcb.format /\ g.params = call_ghcb.params
         /\ LET g == [call_ghcb EXCEPT !.params = v, !.format = w]
            IN  DOMAIN g = PageFields /\ g.params = v /\ g.format = w
  BY Zenon DEF PageFields

\* A page in the base format, with all marked that was written.
Marked(code) ==
  /\ DOMAIN call_ghcb = PageFields /\ call_ghcb.format = "base" /\ call_ghcb.exit_code = code
  /\ call_ghcb.written \subseteq call_ghcb.valid

\* A page written in the base format.
LEMMA BaseStore ==
  ASSUME DOMAIN call_ghcb = PageFields, NEW code, NEW valid, NEW fields, call_ghcb' = Ghcb!BasePage(code, valid, fields),
         fields \cup {"exit_code", "exit_info1", "exit_info2"} \subseteq valid
  PROVE  Marked(code)'
<1>1. /\ DOMAIN call_ghcb' = PageFields /\ call_ghcb'.format = "base" /\ call_ghcb'.exit_code = code /\ call_ghcb'.valid = valid
      /\ call_ghcb'.written = fields \cup {"exit_code", "exit_info1", "exit_info2"}
  BY Zenon DEF PageFields, Ghcb!BasePage
<1> QED BY Zenon, <1>1 DEF Marked

\* No call is under way at the start.
LEMMA GhcbInitial == ASSUME Ghcb!Init PROVE GhcbPageInv
  BY Zenon DEF Ghcb!Init, GhcbPageInv, PageFields, CallInv, Ghcb!WrittenIsValid

\* No call is under way at the other places.
LEMMA Elsewhere ==
  ASSUME DOMAIN call_ghcb' = PageFields, call_pc' \notin {"input", "hypercall", "output", "exit", "exit_log"}
  PROVE  GhcbPageInv'
  BY Zenon DEF GhcbPageInv, CallInv, Ghcb!WrittenIsValid

\* At an exit all is marked.
LEMMA BaseExit ==
  ASSUME NEW code, Marked(code)', call_pc' \in {"exit", "exit_log"}, Ghcb!ExitCode' = code
  PROVE  GhcbPageInv'
<1>1. CallInv'
  BY Zenon DEF CallInv
<1>2. Ghcb!WrittenIsValid' /\ DOMAIN call_ghcb' = PageFields
  BY Zenon DEF Ghcb!WrittenIsValid, Marked
<1> QED BY Zenon, <1>1, <1>2 DEF GhcbPageInv

\* write_msr_virt_sev fills the page.
LEMMA MsrStep == ASSUME GhcbPageInv, Ghcb!write_msr_virt_sev PROVE GhcbPageInv'
<1>1. PICK junk \in SUBSET Ghcb!Fields : call_ghcb' = Ghcb!BasePage("MSR", Ghcb!write_msr_valid(junk), {"rcx", "rax", "rdx"})
  BY Zenon DEF Ghcb!write_msr_virt_sev
<1>2. {"rcx", "rax", "rdx"} \cup {"exit_code", "exit_info1", "exit_info2"} \subseteq Ghcb!write_msr_valid(junk)
  BY Zenon DEF Ghcb!write_msr_valid, Ghcb!initial_guest
<1>3. call_pc' = "exit" /\ Ghcb!ExitCode' = "MSR"
  BY Zenon DEF Ghcb!write_msr_virt_sev, Ghcb!Goto, Ghcb!ExitCode
<1>4. Marked("MSR")'
  BY Zenon, <1>1, <1>2, BaseStore DEF GhcbPageInv
<1> QED BY Zenon, <1>3, <1>4, BaseExit

\* A guest request fills the page, for a report or before a core is started.
LEMMA RequestStep ==
  ASSUME GhcbPageInv, NEW operation \in {"GUEST_REQUEST", "StartVirtualProcessor"}, NEW then,
         Ghcb!sev_guest_request(operation, then)
  PROVE  GhcbPageInv'
<1>1. PICK junk \in SUBSET Ghcb!Fields : call_ghcb' = Ghcb!BasePage("GUEST_REQUEST", Ghcb!initial_guest(junk), {})
  BY Zenon DEF Ghcb!sev_guest_request
<1>2. {} \cup {"exit_code", "exit_info1", "exit_info2"} \subseteq Ghcb!initial_guest(junk)
  BY Zenon DEF Ghcb!initial_guest
<1>3. call_pc' = "exit" /\ Ghcb!ExitCode' = "GUEST_REQUEST"
  BY Zenon DEF Ghcb!sev_guest_request, Ghcb!Goto, Ghcb!ExitCode
<1>4. Marked("GUEST_REQUEST")'
  BY Zenon, <1>1, <1>2, BaseStore DEF GhcbPageInv
<1> QED BY Zenon, <1>3, <1>4, BaseExit

\* uartputc_sev fills the page, or logs no more.
LEMMA UartStep == ASSUME GhcbPageInv, Ghcb!uartputc_sev, after \in {"idle", "aborted", "rmpadjust"} PROVE GhcbPageInv'
<1>1. CASE logs = 0
  <2>1. call_pc' = after /\ call_ghcb' = call_ghcb
    BY Zenon, <1>1 DEF Ghcb!uartputc_sev, Ghcb!Goto
  <2> QED BY Zenon, <2>1, Elsewhere DEF GhcbPageInv
<1>2. CASE logs # 0
  <2>1. PICK junk \in SUBSET Ghcb!Fields : call_ghcb' = Ghcb!BasePage("IOIO", Ghcb!uartputc_valid(junk), {"rax"})
    BY Zenon, <1>2 DEF Ghcb!uartputc_sev
  <2>2. {"rax"} \cup {"exit_code", "exit_info1", "exit_info2"} \subseteq Ghcb!uartputc_valid(junk)
    BY Zenon DEF Ghcb!uartputc_valid, Ghcb!initial_guest
  <2>3. call_pc' = "exit_log" /\ Ghcb!ExitCode' = "IOIO"
    BY Zenon, <1>2 DEF Ghcb!uartputc_sev, Ghcb!Goto, Ghcb!ExitCode
  <2>4. Marked("IOIO")'
    BY Zenon, <2>1, <2>2, BaseStore DEF GhcbPageInv
  <2> QED BY Zenon, <2>3, <2>4, BaseExit
<1> QED BY Zenon, <1>1, <1>2

\* The exit of a call in the base format.
LEMMA BaseStep == ASSUME GhcbPageInv, Ghcb!VmgexitBase, after \in {"idle", "aborted", "rmpadjust"} PROVE GhcbPageInv'
<1>1. call_pc' \in {"idle", "aborted", "rmpadjust", "log", "io_lock"} /\ call_ghcb' = call_ghcb
  BY Zenon DEF Ghcb!VmgexitBase, Ghcb!Goto, Ghcb!Log
<1> QED BY Zenon, <1>1, Elsewhere DEF GhcbPageInv

\* StartVp begins a hypercall.
LEMMA StartVpStep == ASSUME GhcbPageInv, Ghcb!StartVp PROVE GhcbPageInv'
<1>1. CASE Ghcb!BeginHypercall(op)
  <2>1. /\ call_pc' = "input" /\ op' = op /\ reply' = Ghcb!Input(op, 0)
        /\ processed' = 0 /\ call_ghcb' = [call_ghcb EXCEPT !.params = op, !.format = "hypercall"]
    BY Zenon, <1>1 DEF Ghcb!BeginHypercall, Ghcb!Goto, Ghcb!StartVp
  <2>2. DOMAIN call_ghcb' = PageFields /\ call_ghcb'.params = op /\ call_ghcb'.format = "hypercall"
    BY Zenon, <2>1, GhcbStores DEF GhcbPageInv
  <2> QED BY Zenon, <2>1, <2>2 DEF GhcbPageInv, CallInv, Ghcb!WrittenIsValid, Ghcb!Input
<1>2. CASE Ghcb!Log("aborted") /\ UNCHANGED <<call_ghcb, reply, processed>>
  BY Zenon, <1>2, Elsewhere DEF Ghcb!Log, Ghcb!Goto, GhcbPageInv
<1> QED BY Zenon, <1>1, <1>2 DEF Ghcb!StartVp

\* The input of a hypercall is written.
LEMMA InputStep == ASSUME GhcbPageInv, Ghcb!WriteInput PROVE GhcbPageInv'
<1>1. call_pc = "input" /\ call_pc' = "hypercall" /\ call_ghcb' = [call_ghcb EXCEPT !.word = reply] /\ UNCHANGED <<op, processed>>
  BY Zenon DEF Ghcb!WriteInput, Ghcb!Goto
<1>2. /\ DOMAIN call_ghcb' = PageFields /\ call_ghcb'.word = reply /\ call_ghcb'.format = call_ghcb.format
      /\ call_ghcb'.params = call_ghcb.params
  BY Zenon, <1>1, GhcbStores DEF GhcbPageInv
<1> QED BY Zenon, <1>1, <1>2 DEF GhcbPageInv, CallInv, Ghcb!WrittenIsValid, Ghcb!Input

\* The host does some of the repetitions.
LEMMA HostStep == ASSUME GhcbPageInv, Ghcb!VmgexitHypercall PROVE GhcbPageInv'
<1>1. call_pc = "hypercall" /\ call_pc' = "output" /\ UNCHANGED op
  BY Zenon DEF Ghcb!VmgexitHypercall, Ghcb!Goto
<1>2. PICK s : call_ghcb' = [call_ghcb EXCEPT !.word = Ghcb!Output(s, processed')]
  <2>1. PICK done : /\ processed' = done
                    /\ \/ call_ghcb' = [call_ghcb EXCEPT !.word = Ghcb!Output("TIMEOUT", done)]
                       \/ \E s \in {"SUCCESS", "ACCESS_DENIED"} : call_ghcb' = [call_ghcb EXCEPT !.word = Ghcb!Output(s, done)]
    BY Zenon DEF Ghcb!VmgexitHypercall
  <2> QED BY Zenon, <2>1
<1>3. /\ DOMAIN call_ghcb' = PageFields /\ call_ghcb'.word = Ghcb!Output(s, processed') /\ call_ghcb'.format = call_ghcb.format
      /\ call_ghcb'.params = call_ghcb.params
  BY Zenon, <1>2, GhcbStores DEF GhcbPageInv
<1>4. call_ghcb'.word.reps = processed'
  BY <1>3 DEF Ghcb!Output
<1> QED BY Zenon, <1>1, <1>3, <1>4 DEF GhcbPageInv, CallInv, Ghcb!WrittenIsValid

\* The result is read: the call goes on, ends or fails.
LEMMA OutputStep == ASSUME GhcbPageInv, Ghcb!ReadOutput PROVE GhcbPageInv'
<1>1. call_pc = "output" /\ UNCHANGED <<op, call_ghcb, processed>>
  BY Zenon DEF Ghcb!ReadOutput
<1>2. CASE call_ghcb.word.code = "TIMEOUT"
  <2>1. call_pc' = "input" /\ reply' = Ghcb!Input(op, call_ghcb.word.reps)
    BY Zenon, <1>2 DEF Ghcb!ReadOutput, Ghcb!Goto, Ghcb!Again
  <2> QED BY Zenon, <1>1, <2>1 DEF GhcbPageInv, CallInv, Ghcb!WrittenIsValid, Ghcb!Input
<1>3. CASE call_ghcb.word.code # "TIMEOUT"
  <2>1. call_pc' = "log"
    BY Zenon, <1>3 DEF Ghcb!ReadOutput, Ghcb!Log, Ghcb!Goto
  <2> QED BY Zenon, <1>1, <2>1, Elsewhere DEF GhcbPageInv
<1> QED BY Zenon, <1>2, <1>3

\* Log messages come back to the places that the operations name.
AfterInv == after \in {"idle", "aborted", "rmpadjust"}

\* Every step keeps the invariant.
LEMMA GhcbPreserved == ASSUME GhcbPageInv, AfterInv, [Ghcb!Next]_(Ghcb!vars) PROVE GhcbPageInv' /\ AfterInv'
<1>1. CASE UNCHANGED Ghcb!vars
  BY Zenon, <1>1 DEF Ghcb!vars, GhcbPageInv, AfterInv, CallInv, Ghcb!WrittenIsValid, Ghcb!ExitCode, Ghcb!Input
<1>2. CASE Ghcb!Next
  <2>1. AfterInv'
    BY Zenon, <1>2 DEF Ghcb!Next, AfterInv, Ghcb!write_msr_virt_sev, Ghcb!generate_attestation_report_sev, Ghcb!init_cpu_sev,
       Ghcb!sev_guest_request, Ghcb!StartVp, Ghcb!uartputc_sev, Ghcb!VmgexitBase, Ghcb!WriteInput,
       Ghcb!VmgexitHypercall, Ghcb!ReadOutput, Ghcb!Log
  <2>2. CASE Ghcb!generate_attestation_report_sev \/ Ghcb!init_cpu_sev
    BY Zenon, <2>1, <2>2, RequestStep DEF Ghcb!generate_attestation_report_sev, Ghcb!init_cpu_sev
  <2>3. CASE Ghcb!uartputc_sev \/ Ghcb!VmgexitBase
    BY Zenon, <2>1, <2>3, UartStep, BaseStep DEF AfterInv
  <2>4. CASE Ghcb!write_msr_virt_sev \/ Ghcb!StartVp \/ Ghcb!WriteInput \/ Ghcb!VmgexitHypercall \/ Ghcb!ReadOutput
    BY Zenon, <2>1, <2>4, MsrStep, StartVpStep, InputStep, HostStep, OutputStep
  <2> QED BY Zenon, <1>2, <2>2, <2>3, <2>4 DEF Ghcb!Next
<1> QED BY Zenon, <1>1, <1>2

\* The host is shown the call that the guest makes: a hypercall with the operation
\* and the repetitions that are left, of a page in that format, and a call in the
\* base format with every field that was written marked as valid.
THEOREM HostSees == Ghcb!Spec => []HostSeesTheCall
<1>1. Ghcb!Init => GhcbPageInv /\ AfterInv
  BY Zenon, GhcbInitial DEF Ghcb!Init, AfterInv
<1>2. (GhcbPageInv /\ AfterInv) /\ [Ghcb!Next]_(Ghcb!vars) => (GhcbPageInv /\ AfterInv)'
  BY Zenon, GhcbPreserved
<1>3. GhcbPageInv => HostSeesTheCall
  BY Zenon DEF GhcbPageInv, CallInv, Ghcb!HostSeesTheCall, HostSeesTheCall
<1> QED BY <1>1, <1>2, <1>3, PTL DEF Ghcb!Spec

=============================================================================
