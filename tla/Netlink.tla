------------------------------- MODULE Netlink -------------------------------
(***************************************************************************)
(* Requests on the audit NETLINK socket (Netlink.cpp, NetlinkAudit.cpp): a *)
(* caller that sends one request after the other and waits for each, the   *)
(* thread of Netlink::run that receives the answers, gives them to the     *)
(* reply function of their request and lets requests time out, and a       *)
(* Close at any time.  The kernel and its socket are external: the answers *)
(* to a request may come in several orders, late, or not at all.           *)
(*                                                                         *)
(* Send builds its message in the buffer _data in which run receives; the  *)
(* steps that write it and read it are kept apart.                         *)
(***************************************************************************)
EXTENDS Integers, Sequences, FiniteSets

CONSTANTS
  Plans,     \* the sequences of requests to try, see Kinds
  Retries,   \* the first argument of Retry
  MaxSeq,    \* the last value of _sequence before it wraps
  MaxFaults  \* bound on the messages faults of recvfrom and exceptions of a reply function

\* AuditGet: one message and an ACK, in either order.  AuditListRules: several
\* messages and NLMSG_DONE, and an ACK.  AuditSet and the like: an ACK, no
\* reply function.
Kinds == {"get", "list", "set"}

ASSUME NetlinkConstants ==
  /\ \A p \in Plans : p \in Seq(Kinds) /\ p # <<>>
  /\ Retries \in Nat /\ MaxSeq \in Nat \ {0} /\ MaxFaults \in Nat

VARIABLES
  plan,      \* the requests of this behaviour
  caller,    \* the thread in Send: pc, place in the plan, retries, ReplyRec, result
  rcv,       \* the thread in run: pc, poll timeout, arguments and reply of handle_msg
  data,      \* _data
  replies,   \* _replies: the ReplyRec of a seq
  known,     \* _known_seq
  sequence,  \* _sequence
  fut,       \* value of the promise of each ReplyRec, "none" while it is not _done
  answers,   \* answers not yet received, in the kernel or the socket: a set of sequences
  open,      \* the socket has not been closed by on_stopping
  stop,      \* _stop
  closer,    \* where Stop is
  faults,
  torn       \* ghost: _data was overwritten between its writing and its use

nvars == <<plan, caller, rcv, data, replies, known, sequence, fut, answers,
           open, stop, closer, faults, torn>>

Nobody == 0
NoRec == [req |-> Nobody, kind |-> "set"]

\* A message; from is the request it is, or answers.
Msg(type, seq, from) == [type |-> type, seq |-> seq, from |-> from]

\* Types of answers.  ok and error are NLMSG_ERROR with and without errno,
\* part is a message with NLM_F_MULTI, end is NLMSG_DONE.
Verdicts == {"ok", "error"}
Silent == Verdicts \cup {"end"}

\* What the kernel answers to a request: each of the sequences comes in its
\* own order, an error instead of everything else.
Answers(m) ==
  LET msgs(types) == [n \in DOMAIN types |-> Msg(types[n], m.seq, m.from)]
      fails == {msgs(<<"error">>)}
  IN CASE m.type = "get"  -> {{msgs(<<"reply">>), msgs(<<"ok">>)}, fails}
       [] m.type = "list" -> {{msgs(<<"part", "part", "end">>), msgs(<<"ok">>)}, fails}
       [] m.type = "set"  -> {{msgs(<<"ok">>)}, fails}
       [] OTHER -> {{}}

InSend == caller.pc \in {"built", "made", "wait"}
Locked == caller.pc = "built"

InitNetlink ==
  /\ plan \in Plans
  /\ caller = [pc |-> "idle", at |-> 1, tries |-> 0, req |-> Nobody, got |-> Nobody, ret |-> "none"]
  /\ rcv = [pc |-> "check", forever |-> TRUE, msg |-> Msg("none", 0, Nobody), rec |-> NoRec]
  /\ data = Msg("none", 0, Nobody)
  /\ replies = <<>> /\ known = {} /\ sequence = 1 /\ fut = <<>>
  /\ answers = {}
  /\ open = TRUE /\ stop = FALSE /\ closer = "none"
  /\ faults = 0
  /\ torn = FALSE

-----------------------------------------------------------------------------
(* Send *)

After(s) == IF s = MaxSeq THEN 1 ELSE s + 1

\* Mutant: the counter stays at the seq that was used.
Advance_Stays(s) == s

\* _sequence after a seq is taken from it.
Advance(s) == After(s)

\* The loop that makes the seq unique: the first from s on that is not in use.
FreeSeq(s) ==
  LET free == 1..MaxSeq \ (DOMAIN replies \cup known)
      rounds(t) == IF t < s THEN t + MaxSeq - s ELSE t - s
  IN CHOOSE t \in free : \A u \in free : rounds(t) <= rounds(u)

\* The first half of the locked part: the message is written to _data.
SendBegin ==
  /\ caller.pc = "idle"
  /\ IF stop
     THEN /\ caller' = [caller EXCEPT !.pc = "over", !.ret = "ENOTCONN"]
          /\ UNCHANGED <<data, sequence, fut, torn>>
     ELSE LET seq == FreeSeq(sequence)
              req == Len(fut) + 1
          IN /\ sequence' = Advance(seq)
             /\ data' = Msg(plan[caller.at], seq, req)
             /\ fut' = Append(fut, "none")
             /\ caller' = [caller EXCEPT !.pc = "built", !.req = req, !.got = Nobody, !.ret = "none"]
             /\ torn' = (torn \/ rcv.pc \in {"handle", "call"})
  /\ UNCHANGED <<plan, rcv, replies, known, answers, open, stop, closer, faults>>

\* The second half enters the ReplyRec under the seq that is in _data now.
SendEmplace ==
  /\ caller.pc = "built"
  /\ replies' = IF data.seq \in DOMAIN replies THEN replies
                ELSE [s \in DOMAIN replies \cup {data.seq} |->
                        IF s = data.seq THEN [req |-> caller.req, kind |-> plan[caller.at]] ELSE replies[s]]
  /\ known' = known \cup {data.seq}
  /\ caller' = [caller EXCEPT !.pc = "made"]
  /\ UNCHANGED <<plan, rcv, data, sequence, fut, answers, open, stop, closer, faults, torn>>

Without(f, s) == [x \in DOMAIN f \ {s} |-> f[x]]

\* sendto takes what is in _data; it fails once the socket is closed.
SendTo ==
  /\ caller.pc = "made"
  /\ IF open
     THEN /\ \E a \in Answers(data) : answers' = answers \cup a
          /\ caller' = [caller EXCEPT !.pc = "wait"]
          /\ UNCHANGED <<replies, known>>
     ELSE /\ replies' = Without(replies, data.seq)
          /\ known' = known \ {data.seq}
          /\ caller' = [caller EXCEPT !.pc = "over", !.ret = "errno"]
          /\ UNCHANGED answers
  /\ UNCHANGED <<plan, rcv, data, sequence, fut, open, stop, closer, faults, torn>>

\* Retry runs a request that timed out again, at once in effect.
Again(ret) == ret = "ETIMEDOUT" /\ caller.tries < Retries

\* The future is set.  NetlinkRetry repeats a request that timed out; its
\* callers go on with the next request after a success and give up otherwise.
\* AuditGet fails when its function saw no answer.
SendReturn ==
  /\ caller.pc = "wait" /\ fut[caller.req] # "none"
  /\ LET ret == IF fut[caller.req] = "ok" /\ plan[caller.at] = "get" /\ caller.got = Nobody
                THEN "ENOMSG" ELSE fut[caller.req]
         again == Again(ret)
         on == ret = "ok" /\ caller.at < Len(plan)
     IN caller' = [caller EXCEPT !.pc = IF again \/ on THEN "idle" ELSE "over", !.ret = ret, !.got = Nobody,
                                 !.at = IF on THEN @ + 1 ELSE @,
                                 !.tries = IF again THEN @ + 1 ELSE 0]
  /\ fut' = [fut EXCEPT ![caller.req] = "taken"]
  /\ UNCHANGED <<plan, rcv, data, replies, known, sequence, answers, open, stop, closer, faults, torn>>

-----------------------------------------------------------------------------
(* The kernel *)

\* The rest of a, once its first message has left.
Behind(a) == IF Len(a) = 1 THEN answers \ {a} ELSE (answers \ {a}) \cup {Tail(a)}

\* Without room in the socket a message is dropped (NETLINK_NO_ENOBUFS).
LoseAnswer ==
  /\ faults < MaxFaults /\ faults' = faults + 1
  /\ \E a \in answers : answers' = Behind(a)
  /\ UNCHANGED <<plan, caller, rcv, data, replies, known, sequence, fut, open, stop, closer, torn>>

-----------------------------------------------------------------------------
(* run *)

Go(pc) == rcv' = [rcv EXCEPT !.pc = pc, !.forever = TRUE]

\* The head of the loop: the timeout is chosen by what is in _replies now.
RunCheck ==
  /\ rcv.pc = "check"
  /\ ~Locked
  /\ rcv' = IF stop THEN [rcv EXCEPT !.pc = "ended"]
            ELSE [rcv EXCEPT !.pc = "poll", !.forever = (DOMAIN replies = {})]
  /\ UNCHANGED <<plan, caller, data, replies, known, sequence, fut, answers, open, stop, closer, faults, torn>>

\* wait_readable returns: with a message, with a timeout while what may come
\* has not, or with an error because on_stopping has closed the socket.
\* Replies are also flushed before a message is read when the last time was
\* 250 ms ago.
RunPoll ==
  /\ rcv.pc = "poll"
  /\ \/ open /\ answers # {} /\ (Go("recv") \/ Go("flushrecv"))
     \/ open /\ ~rcv.forever /\ Go("flush")
     \/ ~open /\ Go("ended")
  /\ UNCHANGED <<plan, caller, data, replies, known, sequence, fut, answers, open, stop, closer, faults, torn>>

\* Mutant: only the flush of on_stop sets the promises.
SetAll_Exit(old, value) ==
  fut' = [r \in DOMAIN fut |->
            IF value = "ECANCELED" /\ fut[r] = "none" /\ \E s \in old : replies[s].req = r THEN value ELSE fut[r]]

SetAll(old, value) ==
  fut' = [r \in DOMAIN fut |-> IF fut[r] = "none" /\ \E s \in old : replies[s].req = r THEN value ELSE fut[r]]

\* flush_replies: any request may be a second old; the ten seconds after which
\* a seq is no longer known do not pass.  With _stop set it cancels what on_stop would cancel, and run ends.
RunFlush ==
  /\ rcv.pc \in {"flush", "flushrecv"}
  /\ ~Locked
  /\ IF stop
     THEN Go("ended") /\ UNCHANGED <<replies, fut, known>>
     ELSE /\ \E old \in SUBSET DOMAIN replies :
               /\ replies' = [s \in DOMAIN replies \ old |-> replies[s]]
               /\ SetAll(old, "ETIMEDOUT")
          /\ Go(IF rcv.pc = "flushrecv" THEN "recv" ELSE "check")
          /\ UNCHANGED known
  /\ UNCHANGED <<plan, caller, data, sequence, answers, open, stop, closer, faults, torn>>

\* recvfrom writes the message to _data without the lock; an error ends run.
RunRecv ==
  /\ rcv.pc = "recv"
  /\ IF stop
     THEN Go("ended") /\ UNCHANGED <<data, answers, faults, torn>>
     ELSE \/ /\ \E a \in answers : data' = Head(a) /\ answers' = Behind(a)
             /\ torn' = (torn \/ caller.pc \in {"built", "made"})
             /\ Go("handle")
             /\ UNCHANGED faults
          \/ /\ faults < MaxFaults /\ faults' = faults + 1
             /\ Go("ended")
             /\ UNCHANGED <<data, answers, torn>>
          \/ /\ answers = {} /\ Go("check")
             /\ UNCHANGED <<data, answers, faults, torn>>
  /\ UNCHANGED <<plan, caller, replies, known, sequence, fut, open, stop, closer>>

\* handle_msg, the first locked part, with the header that is in _data.
Lookup ==
  /\ rcv.pc = "handle"
  /\ ~Locked
  /\ LET hit == data.seq \in DOMAIN replies
     IN /\ rcv' = [rcv EXCEPT !.pc = "call", !.msg = data, !.rec = IF hit THEN replies[data.seq] ELSE NoRec]
        /\ known' = IF hit THEN known \cup {data.seq} ELSE known
  /\ UNCHANGED <<plan, caller, data, replies, sequence, fut, answers, open, stop, closer, faults, torn>>

\* The request of the message, while it is not done.
Live == rcv.rec.req # Nobody /\ fut[rcv.rec.req] = "none"

Callable == Live /\ rcv.rec.kind # "set" /\ rcv.msg.type \notin Silent

\* The reply function runs without the lock, on the payload in _data.
CallReply ==
  /\ rcv.pc = "call"
  /\ \/ /\ Callable
        /\ caller' = IF rcv.rec.req = caller.req THEN [caller EXCEPT !.got = data.from] ELSE caller
        /\ Go("finish")
        /\ UNCHANGED faults
     \/ /\ Callable /\ rcv.rec.kind = "list"
        /\ faults < MaxFaults /\ faults' = faults + 1
        /\ Go("threw")
        /\ UNCHANGED caller
     \/ ~Callable /\ Go("finish") /\ UNCHANGED <<caller, faults>>
  /\ UNCHANGED <<plan, data, replies, known, sequence, fut, answers, open, stop, closer, torn>>

Complete(value) ==
  /\ fut' = IF Live THEN [fut EXCEPT ![rcv.rec.req] = value] ELSE fut
  /\ replies' = IF rcv.rec.req # Nobody THEN Without(replies, rcv.msg.seq) ELSE replies

\* Mutant: an ACK completes a request whose answer is still to come.
Ends_AnyAck(m, rec) == m.type # "part"

\* An ACK does not end a request with a reply function; a message does
\* unless more follow.
Ends(m, rec) == m.type # "part" /\ ~(m.type = "ok" /\ rec.req # Nobody /\ rec.kind # "set")

\* The end of handle_msg, and its handler for an exception of the function.
Finish ==
  /\ rcv.pc \in {"finish", "threw"}
  /\ ~Locked
  /\ IF rcv.pc = "threw"
     THEN Complete("exception") /\ UNCHANGED known
     ELSE IF Ends(rcv.msg, rcv.rec)
     THEN /\ Complete(IF rcv.msg.type = "error" THEN "error" ELSE "ok")
          /\ known' = known \ {rcv.msg.seq}
     ELSE UNCHANGED <<fut, replies, known>>
  /\ rcv' = [rcv EXCEPT !.pc = "check", !.rec = NoRec, !.msg = Msg("none", 0, Nobody)]
  /\ UNCHANGED <<plan, caller, data, sequence, answers, open, stop, closer, faults, torn>>

\* thread_run sets _stop after run has ended ...
RunEnded ==
  /\ rcv.pc = "ended"
  /\ ~Locked
  /\ stop' = TRUE
  /\ Go("onstop")
  /\ UNCHANGED <<plan, caller, data, replies, known, sequence, fut, answers, open, closer, faults, torn>>

\* Mutant: nothing is cancelled.
OnStop_Leave ==
  /\ rcv.pc = "onstop"
  /\ ~Locked
  /\ Go("gone")
  /\ UNCHANGED <<plan, caller, data, replies, known, sequence, fut, answers, open, stop, closer, faults, torn>>

\* ... and on_stop cancels what is left.
OnStop ==
  /\ rcv.pc = "onstop"
  /\ ~Locked
  /\ SetAll(DOMAIN replies, "ECANCELED")
  /\ replies' = <<>> /\ known' = {}
  /\ Go("gone")
  /\ UNCHANGED <<plan, caller, data, sequence, answers, open, stop, closer, faults, torn>>

-----------------------------------------------------------------------------
(* Close *)

\* on_stopping is left out when the thread has ended by itself.
StopBegin ==
  /\ closer = "none"
  /\ ~Locked
  /\ closer' = IF stop THEN "join" ELSE "stopping"
  /\ stop' = TRUE
  /\ UNCHANGED <<plan, caller, rcv, data, replies, known, sequence, fut, answers, open, faults, torn>>

OnStopping ==
  /\ closer = "stopping"
  /\ ~Locked
  /\ open' = FALSE
  /\ closer' = "signal"
  /\ UNCHANGED <<plan, caller, rcv, data, replies, known, sequence, fut, answers, stop, faults, torn>>

\* SIGQUIT: a poll that was entered before returns, replies are flushed.
StopSignal ==
  /\ closer = "signal"
  /\ closer' = "join"
  /\ rcv' = IF rcv.pc = "poll" THEN [rcv EXCEPT !.pc = "ended"] ELSE rcv
  /\ UNCHANGED <<plan, caller, data, replies, known, sequence, fut, answers, open, stop, faults, torn>>

StopJoin ==
  /\ closer = "join" /\ rcv.pc = "gone"
  /\ closer' = "done"
  /\ UNCHANGED <<plan, caller, rcv, data, replies, known, sequence, fut, answers, open, stop, faults, torn>>

-----------------------------------------------------------------------------
CallerSteps == SendBegin \/ SendEmplace \/ SendTo \/ SendReturn
RunSteps == RunCheck \/ RunPoll \/ RunFlush \/ RunRecv \/ Lookup \/ CallReply \/ Finish
            \/ RunEnded \/ OnStop
CloserSteps == OnStopping \/ StopSignal \/ StopJoin

NextNetlink == CallerSteps \/ LoseAnswer \/ RunSteps \/ StopBegin \/ CloserSteps

\* The threads run on, what is not lost arrives, and a second
\* without messages is over at some time.  No Close has to happen.
NetlinkFairness ==
  /\ WF_nvars(CallerSteps) /\ WF_nvars(RunSteps) /\ WF_nvars(CloserSteps)
  /\ SF_nvars(RunFlush /\ DOMAIN replies' = {})

SpecNetlink == InitNetlink /\ [][NextNetlink]_nvars /\ NetlinkFairness

-----------------------------------------------------------------------------
\* The thread that waits in Send can be reached: its ReplyRec is in _replies,
\* where an answer, the timeout or on_stop finds it, or run has it in hand.
Reachable ==
  caller.pc \in {"made", "wait"} /\ fut[caller.req] = "none" /\ ~torn =>
    /\ \E s \in DOMAIN replies : replies[s].req = caller.req
    /\ rcv.pc # "gone"

\* A reply function is called only while its own Send waits, with an answer to
\* its own request: it writes to variables of the caller.
OwnAnswer ==
  rcv.pc = "call" /\ Callable /\ ~torn =>
    /\ data.from = rcv.rec.req
    /\ rcv.rec.req = caller.req /\ caller.pc \in {"made", "wait"}

\* An AuditGet that returns 0 has the status; it never fails with ENOMSG,
\* whichever of the answer and the ACK comes first.
GetsStatus ==
  caller.pc = "wait" /\ plan[caller.at] = "get" /\ fut[caller.req] = "ok" /\ ~torn =>
    caller.got = caller.req

\* run waits without a timeout, and nothing is to come.
Deaf == rcv.pc = "poll" /\ rcv.forever /\ answers = {}

\* Send returns, except when run had found _replies empty before the request
\* was entered, and its answers are lost.
WaitEnds == caller.pc = "wait" ~> (caller.pc # "wait" \/ torn \/ Deaf)

\* Netlink.h:41-42: a Close releases the thread in Send, and itself returns.
CloseReturns == (stop ~> (caller.pc # "wait" \/ torn)) /\ (closer # "none" ~> closer = "done")

=============================================================================
