---------------------------- MODULE NetlinkProofs ----------------------------
(***************************************************************************)
(* Proofs about module Netlink, for any requests, any number of retries    *)
(* and of faults: who waits in Send can be reached, a reply function gets  *)
(* the answer of its own request while its Send waits, and an AuditGet     *)
(* that succeeds has the status.                                           *)
(***************************************************************************)
EXTENDS Netlink, TLAPS

\* A seq is used once: all requests and their retries come before _sequence,
\* which counts to 2^32, wraps.
NoWrap == \A p \in Plans : Len(p) * (Retries + 1) <= MaxSeq

Types == {"get", "list", "set", "ok", "error", "reply", "part", "end", "none"}
Message == [type : Types, seq : Nat, from : Nat]

Values == {"none", "ok", "error", "exception", "ETIMEDOUT", "ECANCELED", "taken"}
Returns == Values \cup {"ENOTCONN", "errno", "ENOMSG"}

Recs == [req : Nat, kind : Kinds]

CallerType ==
    [pc : {"idle", "built", "made", "wait", "over"}, at : Nat \ {0}, tries : Nat, req : Nat,
     got : Nat, ret : Returns]

RcvType ==
    [pc : {"check", "poll", "flush", "flushrecv", "recv", "handle", "call", "finish", "threw",
           "ended", "onstop", "gone"},
     forever : BOOLEAN, msg : Message, rec : Recs]

TypeOK ==
    /\ plan \in Plans /\ caller \in CallerType /\ caller.at <= Len(plan)
    /\ rcv \in RcvType /\ data \in Message
    /\ replies \in [DOMAIN replies -> Recs] /\ DOMAIN replies \subseteq Nat /\ known \subseteq Nat
    /\ fut \in Seq(Values) /\ sequence \in Nat
    /\ \A a \in answers : a \in Seq(Message) /\ a # <<>>
    /\ stop \in BOOLEAN /\ open \in BOOLEAN

\* The request that was begun last; it is the only one that may be waited for.
Last == Len(fut)
Pending == Last # 0 /\ fut[Last] = "none"

\* Each request, and each repetition, has used a seq.
Counted ==
    /\ caller.req = Last
    /\ Last < MaxSeq => sequence = Last + 1
    /\ caller.tries <= Retries
    /\ caller.pc = "idle" => Last <= (caller.at - 1) * (Retries + 1) + caller.tries
    /\ caller.pc \in {"built", "made", "wait"} => Last <= (caller.at - 1) * (Retries + 1) + caller.tries + 1
    /\ Last <= MaxSeq

\* Earlier requests are done; the last one is not while it is being made.
Turns ==
    /\ \A r \in 1..(Last - 1) : fut[r] # "none"
    /\ Pending => caller.pc # "idle"
    /\ caller.pc = "built" => Pending /\ data = Msg(plan[caller.at], Last, Last)
    /\ caller.pc = "made" => Last # 0 /\ data = Msg(plan[caller.at], Last, Last)
    /\ caller.pc = "wait" => Last # 0

\* What the kernel says of a request, see Answers.
Says(kind) == {"error", "ok"} \cup (CASE kind = "get" -> {"reply"} [] kind = "list" -> {"part", "end"} [] kind = "set" -> {})

\* A message belongs to a request that was sent; the one of a pending request
\* is one of its answers.
Fits(m) ==
    /\ m.seq = m.from /\ m.seq \in 1..Last
    /\ Pending /\ m.seq = Last => caller.pc = "wait" /\ m.type \in Says(plan[caller.at])

\* A ReplyRec under its seq; the one of the pending request is of its kind.
Suits(rec, s) ==
    /\ rec.req = s /\ s \in 1..Last
    /\ Pending /\ s = Last => caller.pc \in {"made", "wait"} /\ rec.kind = plan[caller.at]

Entered ==
    /\ \A s \in DOMAIN replies : Suits(replies[s], s)
    /\ known \subseteq 1..Last
    /\ caller.pc = "built" => Last \notin DOMAIN replies \cup known

Received ==
    /\ \A a \in answers : \A n \in 1..Len(a) : Fits(a[n])
    /\ rcv.pc \in {"handle", "call"} => Fits(data) /\ caller.pc \notin {"built", "made"}
    /\ rcv.pc = "call" => data = rcv.msg
    /\ rcv.pc \in {"call", "finish", "threw"} =>
         Fits(rcv.msg) /\ (rcv.rec.req # Nobody => Suits(rcv.rec, rcv.msg.seq))
    \* The reply function was called before its request is done.
    /\ rcv.pc = "finish" /\ Callable => caller.got = rcv.rec.req

\* on_stop waits for the lock, and what is entered after it finds _stop.
Ended ==
    /\ rcv.pc \in {"onstop", "gone"} => stop /\ caller.pc # "built"
    /\ caller.pc \in {"made", "wait"} /\ Pending => Last \in DOMAIN replies /\ rcv.pc # "gone"

\* An AuditGet is not over before its function saw the answer.
Known ==
    /\ caller.pc = "made" => fut[Last] # "ok"
    /\ caller.pc = "wait" /\ plan[caller.at] = "get" /\ fut[Last] = "ok" => caller.got = Last

Sound == TypeOK /\ Counted /\ Turns /\ Entered /\ Received /\ Ended /\ Known

\* The overlap in _data ends what is known.
Inv == torn \in BOOLEAN /\ (torn \/ Sound)

-----------------------------------------------------------------------------
(* The numbers of the requests *)

LEMMA FirstFree ==
    ASSUME NEW s \in 1..MaxSeq, s \notin DOMAIN replies \cup known
    PROVE  FreeSeq(s) = s
<1> DEFINE free == 1..MaxSeq \ (DOMAIN replies \cup known)
           rounds(t) == IF t < s THEN t + MaxSeq - s ELSE t - s
           Found(t) == t \in free /\ \A u \in free : rounds(t) <= rounds(u)
<1>1. MaxSeq \in Nat
    BY NetlinkConstants
<1>2. Found(s)
    BY <1>1
<1>3. \A t : Found(t) => t = s
    <2> SUFFICES ASSUME NEW t, Found(t) PROVE t = s
        OBVIOUS
    <2>1. t \in 1..MaxSeq /\ rounds(t) <= rounds(s)
        BY <1>2
    <2>2. QED
        BY <1>1, <2>1
<1>4. FreeSeq(s) = CHOOSE t : Found(t)
    BY DEF FreeSeq
<1> HIDE DEF Found
<1>5. QED
    BY <1>2, <1>3, <1>4

\* A request more, while the plan has one.
LEMMA Room ==
    ASSUME NoWrap, NEW p \in Plans, NEW at \in Nat \ {0}, NEW tries \in Nat, NEW n \in Nat,
           at <= Len(p), tries <= Retries, n <= (at - 1) * (Retries + 1) + tries
    PROVE  n < MaxSeq
<1>1. Retries \in Nat /\ MaxSeq \in Nat /\ Len(p) \in Nat /\ Len(p) * (Retries + 1) <= MaxSeq
    BY NetlinkConstants DEF NoWrap
<1> PICK k \in Nat : k = Len(p)
    BY <1>1
<1> PICK r \in Nat : r = Retries + 1
    BY <1>1
<1>2. at * r <= k * r
    <2>1. PICK d \in Nat : k = at + d
        <3>1. k - at \in Nat /\ k = at + (k - at)
            OBVIOUS
        <3>2. QED
            BY <3>1
    <2>2. k * r = at * r + d * r /\ d * r >= 0
        BY <2>1
    <2>3. at * r \in Nat /\ d * r \in Nat /\ k * r \in Nat
        OBVIOUS
    <2>4. QED
        BY <2>2, <2>3
<1>3. (at - 1) * r + r = at * r /\ (at - 1) * r \in Nat /\ at * r \in Nat /\ k * r \in Nat
    OBVIOUS
<1>4. n <= (at - 1) * r + tries /\ tries < r
    BY <1>1
<1>5. k * r <= MaxSeq
    BY <1>1
<1>6. QED
    BY <1>1, <1>2, <1>3, <1>4, <1>5

-----------------------------------------------------------------------------
(* What a step leaves of messages and of the entries of _replies *)

LEMMA Facts ==
    ASSUME Sound
    PROVE  /\ Last \in Nat /\ fut \in Seq(Values) /\ caller.at \in 1..Len(plan) /\ plan \in Seq(Kinds)
           /\ plan[caller.at] \in Kinds
           /\ rcv \in RcvType /\ caller \in CallerType /\ caller.req = Last
           /\ \A r \in 1..Last : fut[r] = "none" => r = Last /\ Pending
<1>1. /\ fut \in Seq(Values) /\ plan \in Plans /\ caller \in CallerType /\ caller.at <= Len(plan)
      /\ rcv \in RcvType /\ caller.req = Last
    BY DEF Sound, TypeOK, Counted
<1>2. plan \in Seq(Kinds) /\ Last \in Nat
    BY <1>1, NetlinkConstants DEF Last
<1>3. caller.at \in Nat \ {0} /\ Len(plan) \in Nat
    BY <1>1, <1>2 DEF CallerType
<1>4. caller.at \in 1..Len(plan)
    BY <1>1, <1>3
<1>5. plan[caller.at] \in Kinds
    BY <1>2, <1>4
<1>6. ASSUME NEW r \in 1..Last, fut[r] = "none"
      PROVE  r = Last /\ Pending
    <2>1. ~(r \in 1..(Last - 1))
        BY <1>6 DEF Sound, Turns
    <2>2. QED
        BY <1>2, <1>6, <2>1 DEF Pending
<1>7. QED
    BY <1>1, <1>2, <1>4, <1>5, <1>6

\* A step after which the pending request, if it is the same, is waited for as before.
Later ==
    /\ Last' \in Nat /\ Last <= Last' /\ plan' = plan
    /\ Pending' /\ Last' = Last =>
         /\ Pending /\ caller'.at = caller.at
         /\ caller.pc = "wait" => caller'.pc = "wait"
         /\ caller.pc = "made" => caller'.pc \in {"made", "wait"}

LEMMA FitsLater ==
    ASSUME Sound, Later, NEW m, Fits(m)
    PROVE  Fits(m)'
<1>1. Last \in Nat /\ Last' \in Nat /\ Last <= Last' /\ m.seq \in 1..Last
    BY Facts DEF Later, Fits
<1>2. m.seq \in 1..Last' /\ (m.seq = Last' => Last' = Last)
    BY <1>1
<1>3. Pending' /\ m.seq = Last' => caller'.pc = "wait" /\ m.type \in Says(plan'[caller'.at])
    BY <1>2 DEF Later, Fits
<1>4. QED
    BY <1>2, <1>3 DEF Fits

LEMMA SuitsLater ==
    ASSUME Sound, Later, NEW rec, NEW s, Suits(rec, s)
    PROVE  Suits(rec, s)'
<1>1. Last \in Nat /\ Last' \in Nat /\ Last <= Last' /\ s \in 1..Last
    BY Facts DEF Later, Suits
<1>2. s \in 1..Last' /\ (s = Last' => Last' = Last)
    BY <1>1
<1>3. Pending' /\ s = Last' => caller'.pc \in {"made", "wait"} /\ rec.kind = plan'[caller'.at]
    BY <1>2 DEF Later, Suits
<1>4. QED
    BY <1>2, <1>3 DEF Suits

\* Where the caller does not move and no request is begun.
LEMMA CalmLater ==
    ASSUME Sound, UNCHANGED plan, caller'.pc = caller.pc, caller'.at = caller.at, Last' = Last,
           \A r \in 1..Last : fut'[r] = "none" => fut[r] = "none"
    PROVE  Later
<1>1. Last \in Nat
    BY Facts
<1>2. QED
    BY <1>1 DEF Later, Pending

\* rcv goes on.
LEMMA Goes ==
    ASSUME rcv \in RcvType, NEW pc, Go(pc),
           pc \in {"check", "poll", "flush", "flushrecv", "recv", "handle", "call", "finish", "threw",
                   "ended", "onstop", "gone"}
    PROVE  rcv' \in RcvType /\ rcv'.pc = pc /\ rcv'.msg = rcv.msg /\ rcv'.rec = rcv.rec
<1> PICK r : r = [rcv EXCEPT !.pc = pc]
    OBVIOUS
<1>1. r \in RcvType /\ r.pc = pc /\ r.msg = rcv.msg /\ r.rec = rcv.rec
    BY DEF RcvType
<1>2. rcv' = [r EXCEPT !.forever = TRUE]
    BY DEF Go
<1>3. QED
    BY <1>1, <1>2 DEF RcvType

LEMMA RcvDone ==
    ASSUME rcv \in RcvType,
           rcv' = [rcv EXCEPT !.pc = "check", !.rec = NoRec, !.msg = Msg("none", 0, Nobody)]
    PROVE  rcv' \in RcvType /\ rcv'.pc = "check"
<1>1. PICK r \in RcvType : r = rcv
    OBVIOUS
<1>2. PICK r1 : r1 = [r EXCEPT !.pc = "check"]
    OBVIOUS
<1>3. PICK r2 : r2 = [r1 EXCEPT !.rec = NoRec]
    OBVIOUS
<1>4. r1 \in RcvType /\ r1.pc = "check"
    BY <1>2 DEF RcvType
<1>5. NoRec \in Recs /\ Msg("none", 0, Nobody) \in Message
    BY DEF NoRec, Recs, Nobody, Kinds, Msg, Message, Types
<1>6. r2 \in RcvType /\ r2.pc = "check"
    BY <1>3, <1>4, <1>5 DEF RcvType
<1>7. rcv' = [r2 EXCEPT !.msg = Msg("none", 0, Nobody)]
    BY <1>1, <1>2, <1>3
<1>8. QED
    BY <1>5, <1>6, <1>7 DEF RcvType

\* caller is given new fields.
LEMMA CallerEnds ==
    ASSUME NEW c \in CallerType, NEW ret \in Returns
    PROVE  LET d == [c EXCEPT !.pc = "over", !.ret = ret]
           IN  d \in CallerType /\ d.pc = "over" /\ d.at = c.at /\ d.tries = c.tries
               /\ d.req = c.req /\ d.got = c.got
<1> PICK c1 : c1 = [c EXCEPT !.pc = "over"]
    OBVIOUS
<1>1. /\ c1 \in CallerType /\ c1.pc = "over" /\ c1.at = c.at /\ c1.tries = c.tries
      /\ c1.req = c.req /\ c1.got = c.got
    BY DEF CallerType
<1>2. QED
    BY <1>1 DEF CallerType

LEMMA CallerBegins ==
    ASSUME NEW c \in CallerType, NEW req \in Nat
    PROVE  LET d == [c EXCEPT !.pc = "built", !.req = req, !.got = Nobody, !.ret = "none"]
           IN  d \in CallerType /\ d.pc = "built" /\ d.at = c.at /\ d.tries = c.tries /\ d.req = req
<1> PICK c1 : c1 = [c EXCEPT !.pc = "built"]
    OBVIOUS
<1> PICK c2 : c2 = [c1 EXCEPT !.req = req]
    OBVIOUS
<1> PICK c3 : c3 = [c2 EXCEPT !.got = Nobody]
    OBVIOUS
<1>1. c1 \in CallerType /\ c1.pc = "built" /\ c1.at = c.at /\ c1.tries = c.tries
    BY DEF CallerType
<1>2. c2 \in CallerType /\ c2.pc = "built" /\ c2.at = c.at /\ c2.tries = c.tries /\ c2.req = req
    BY <1>1 DEF CallerType
<1>3. c3 \in CallerType /\ c3.pc = "built" /\ c3.at = c.at /\ c3.tries = c.tries /\ c3.req = req
    BY <1>2 DEF CallerType, Nobody
<1>4. "none" \in Returns
    BY DEF Returns, Values
<1>5. QED
    BY <1>3, <1>4 DEF CallerType

Turned(c, pc, ret, at, tries) == [c EXCEPT !.pc = pc, !.ret = ret, !.got = Nobody, !.at = at, !.tries = tries]

LEMMA CallerTurns ==
    ASSUME NEW c \in CallerType, NEW pc \in {"idle", "over"}, NEW ret \in Returns,
           NEW at \in Nat \ {0}, NEW tries \in Nat
    PROVE  LET d == Turned(c, pc, ret, at, tries)
           IN  d \in CallerType /\ d.pc = pc /\ d.at = at /\ d.tries = tries /\ d.req = c.req
<1> PICK c1 : c1 = [c EXCEPT !.pc = pc]
    OBVIOUS
<1> PICK c2 : c2 = [c1 EXCEPT !.ret = ret]
    OBVIOUS
<1> PICK c3 : c3 = [c2 EXCEPT !.got = Nobody]
    OBVIOUS
<1> PICK c4 : c4 = [c3 EXCEPT !.at = at]
    OBVIOUS
<1>1. c1 \in CallerType /\ c1.pc = pc /\ c1.req = c.req
    BY DEF CallerType
<1>2. c2 \in CallerType /\ c2.pc = pc /\ c2.req = c.req
    BY <1>1 DEF CallerType
<1>3. c3 \in CallerType /\ c3.pc = pc /\ c3.req = c.req
    BY <1>2 DEF CallerType, Nobody
<1>4. c4 \in CallerType /\ c4.pc = pc /\ c4.req = c.req /\ c4.at = at
    BY <1>3 DEF CallerType
<1>5. Turned(c, pc, ret, at, tries) = [c4 EXCEPT !.tries = tries]
    BY DEF Turned
<1>6. QED
    BY <1>4, <1>5 DEF CallerType

LEMMA CallerMoves ==
    ASSUME NEW c \in CallerType, NEW pc \in {"made", "wait"}
    PROVE  LET d == [c EXCEPT !.pc = pc]
           IN  d \in CallerType /\ d.pc = pc /\ d.at = c.at /\ d.tries = c.tries
               /\ d.req = c.req /\ d.got = c.got
BY DEF CallerType

LEMMA CallerGets ==
    ASSUME NEW c \in CallerType, NEW got \in Nat
    PROVE  LET d == [c EXCEPT !.got = got]
           IN  d \in CallerType /\ d.pc = c.pc /\ d.at = c.at /\ d.tries = c.tries
               /\ d.req = c.req /\ d.got = got
BY DEF CallerType

\* The messages that have arrived or are to come still belong to their requests.
LEMMA ReceivedStays ==
    ASSUME Sound, Later, UNCHANGED <<rcv, answers>>,
           rcv.pc \in {"handle", "call"} => data' = data /\ caller'.pc \notin {"built", "made"},
           rcv.pc = "finish" /\ Callable' => Callable /\ caller'.got = caller.got
    PROVE  Received'
<1>1. Received
    BY DEF Sound
<1>2. \A a \in answers' : \A n \in 1..Len(a) : Fits(a[n])'
    BY <1>1, FitsLater DEF Received
<1>3. rcv.pc \in {"handle", "call"} => Fits(data)'
    <2> SUFFICES ASSUME rcv.pc \in {"handle", "call"} PROVE Fits(data)'
        OBVIOUS
    <2> PICK m : m = data
        OBVIOUS
    <2>1. Fits(m)'
        BY <1>1, FitsLater DEF Received
    <2>2. data' = m
        OBVIOUS
    <2>3. QED
        BY <2>1, <2>2 DEF Fits
<1>4. rcv.pc \in {"call", "finish", "threw"} =>
         Fits(rcv.msg)' /\ (rcv.rec.req # Nobody => Suits(rcv.rec, rcv.msg.seq)')
    <2> SUFFICES ASSUME rcv.pc \in {"call", "finish", "threw"}
                 PROVE  Fits(rcv.msg)' /\ (rcv.rec.req # Nobody => Suits(rcv.rec, rcv.msg.seq)')
        OBVIOUS
    <2> PICK r : r = rcv
        OBVIOUS
    <2>1. Fits(r.msg)' /\ (r.rec.req # Nobody => Suits(r.rec, r.msg.seq)')
        BY <1>1, FitsLater, SuitsLater DEF Received
    <2>2. rcv' = r
        OBVIOUS
    <2>3. QED
        BY <2>1, <2>2 DEF Fits, Suits
<1>5. QED
    BY <1>1, <1>2, <1>3, <1>4 DEF Received

LEMMA EnteredStays ==
    ASSUME Sound, Later, UNCHANGED <<replies, known>>,
           caller'.pc = "built" => Last' \notin DOMAIN replies \cup known
    PROVE  Entered'
<1>1. Last \in Nat /\ Last' \in Nat /\ Last <= Last' /\ Entered
    BY Facts DEF Later, Sound
<1>2. \A s \in DOMAIN replies : Suits(replies[s], s)'
    BY <1>1, SuitsLater DEF Entered
<1>3. \A s \in DOMAIN replies : replies'[s] = replies[s]
    OBVIOUS
<1>4. \A s \in DOMAIN replies' : Suits(replies[s], s)'
    BY <1>2, <1>3 DEF Suits
<1>5. known' \subseteq 1..Last'
    BY <1>1 DEF Entered
<1>6. QED
    BY <1>4, <1>5 DEF Entered

-----------------------------------------------------------------------------
(* The steps of Send *)

\* What run has in hand is the pending request's, or is done.
LEMMA InHand ==
    ASSUME Sound, rcv.pc \in {"call", "finish", "threw"}, Live
    PROVE  /\ Pending /\ rcv.rec.req = Last /\ rcv.msg.seq = Last /\ Fits(rcv.msg)
           /\ caller.pc = "wait" /\ rcv.rec.kind = plan[caller.at]
           /\ rcv.msg.type \in Says(plan[caller.at])
<1>1. Fits(rcv.msg) /\ Suits(rcv.rec, rcv.msg.seq) /\ fut[rcv.rec.req] = "none"
    BY DEF Live, Sound, Received
<1>2. rcv.rec.req \in 1..Last /\ rcv.rec.req = rcv.msg.seq
    BY <1>1 DEF Suits
<1>3. Pending /\ rcv.rec.req = Last
    BY <1>1, <1>2, Facts
<1>4. QED
    BY <1>1, <1>2, <1>3 DEF Fits, Suits

\* A Send that finds _stop.
LEMMA Refused ==
    ASSUME Sound, SendBegin, stop
    PROVE  Sound'
<1>1. /\ caller.pc = "idle" /\ caller' = [caller EXCEPT !.pc = "over", !.ret = "ENOTCONN"]
      /\ UNCHANGED <<plan, rcv, data, replies, known, sequence, fut, answers, open, stop>>
    BY DEF SendBegin
<1>2. caller' \in CallerType /\ caller'.pc = "over" /\ caller'.at = caller.at /\ caller'.tries = caller.tries
      /\ caller'.req = caller.req
    <2> PICK c : c = caller
        OBVIOUS
    <2>1. c \in CallerType /\ caller' = [c EXCEPT !.pc = "over", !.ret = "ENOTCONN"]
        BY <1>1, Facts
    <2>2. "ENOTCONN" \in Returns
        BY DEF Returns
    <2>3. LET d == [c EXCEPT !.pc = "over", !.ret = "ENOTCONN"]
          IN  d \in CallerType /\ d.pc = "over" /\ d.at = c.at /\ d.tries = c.tries
              /\ d.req = c.req /\ d.got = c.got
        BY <2>1, <2>2, CallerEnds
    <2>4. QED
        BY <2>1, <2>3
<1>3. ~Pending /\ Last' = Last /\ ~Pending'
    BY <1>1 DEF Sound, Turns, Pending, Last
<1>4. Later
    BY <1>1, <1>3, Facts DEF Later
<1>5. TypeOK'
    BY <1>1, <1>2 DEF Sound, TypeOK
<1>6. Counted'
    BY <1>1, <1>2, <1>3 DEF Sound, Counted
<1>7. Turns'
    BY <1>1, <1>2, <1>3 DEF Sound, Turns
<1>8. Entered'
    BY <1>1, <1>2, <1>4, EnteredStays
<1>9. Received'
    <2>1. rcv.pc = "finish" => ~Callable'
        <3>1. rcv.pc = "finish" => ~Callable
            BY <1>3, InHand DEF Callable
        <3>2. Callable' => Callable
            BY <1>1 DEF Callable, Live
        <3>3. QED
            BY <3>1, <3>2
    <2>2. QED
        BY <1>1, <1>2, <1>4, <2>1, ReceivedStays
<1>10. Ended' /\ Known'
    BY <1>1, <1>2 DEF Sound, Ended, Known
<1>11. QED
    BY <1>5, <1>6, <1>7, <1>8, <1>9, <1>10 DEF Sound

\* A request is begun: its seq is the next number.
LEMMA Begun ==
    ASSUME NoWrap, Sound, SendBegin, ~stop, ~torn'
    PROVE  Sound'
<1> PICK n : n = Last
    OBVIOUS
<1> PICK c : c = caller
    OBVIOUS
<1>0. /\ n \in Nat /\ MaxSeq \in Nat /\ c \in CallerType /\ fut \in Seq(Values) /\ n = Len(fut)
      /\ c.at \in Nat \ {0} /\ c.tries \in Nat
    BY Facts, NetlinkConstants DEF Last, CallerType
<1>1. c.pc = "idle" /\ rcv.pc \notin {"handle", "call"} /\ ~Pending
    BY DEF SendBegin, Sound, Turns
<1>2. n < MaxSeq
    <2>1. plan \in Plans /\ c.at <= Len(plan) /\ c.tries <= Retries /\ n <= (c.at - 1) * (Retries + 1) + c.tries
        BY <1>1 DEF Sound, TypeOK, Counted
    <2>2. QED
        BY <1>0, <2>1, Room
<1>3. FreeSeq(sequence) = n + 1
    <2>1. sequence = n + 1 /\ n + 1 \in 1..MaxSeq
        BY <1>0, <1>2 DEF Sound, Counted
    <2>2. n + 1 \notin DOMAIN replies \cup known
        BY <1>0 DEF Sound, Entered, Suits
    <2>3. QED
        BY <2>1, <2>2, FirstFree
<1>4. /\ caller' = [c EXCEPT !.pc = "built", !.req = n + 1, !.got = Nobody, !.ret = "none"]
      /\ sequence' = Advance(n + 1) /\ data' = Msg(plan[c.at], n + 1, n + 1)
      /\ fut' = Append(fut, "none")
      /\ UNCHANGED <<plan, rcv, replies, known, answers, open, stop>>
    BY <1>3 DEF SendBegin, Last
<1>5. /\ caller' \in CallerType /\ caller'.pc = "built" /\ caller'.at = c.at /\ caller'.tries = c.tries
      /\ caller'.req = n + 1
    <2> PICK m \in Nat : m = n + 1
        BY <1>0
    <2>1. LET d == [c EXCEPT !.pc = "built", !.req = m, !.got = Nobody, !.ret = "none"]
          IN  d \in CallerType /\ d.pc = "built" /\ d.at = c.at /\ d.tries = c.tries /\ d.req = m
        BY <1>0, CallerBegins
    <2>2. QED
        BY <1>4, <2>1
<1>6. /\ Last' = n + 1 /\ fut' \in Seq(Values) /\ fut'[n + 1] = "none"
      /\ \A r \in 1..n : fut'[r] = fut[r]
    <2>1. "none" \in Values
        BY DEF Values
    <2>2. QED
        BY <1>0, <1>4, <2>1 DEF Last
<1>7. \A r \in 1..n : fut'[r] # "none"
    BY <1>1, <1>6, Facts
<1>8. Later
    BY <1>0, <1>4, <1>6 DEF Later
<1>9. TypeOK'
    <2>1. data' \in Message
        <3>1. plan[c.at] \in Types
            BY Facts DEF Kinds, Types
        <3>2. QED
            BY <1>0, <1>4, <3>1 DEF Message, Msg
    <2>2. sequence' \in Nat
        BY <1>0, <1>4 DEF Advance, After
    <2>3. QED
        BY <1>4, <1>5, <1>6, <2>1, <2>2 DEF Sound, TypeOK
<1>10. Counted'
    <2>1. Last' < MaxSeq => sequence' = Last' + 1
        BY <1>0, <1>4, <1>6 DEF Advance, After
    <2>2. Last' <= (caller'.at - 1) * (Retries + 1) + caller'.tries + 1
        <3>1. n <= (c.at - 1) * (Retries + 1) + c.tries
            BY <1>1 DEF Sound, Counted
        <3>2. (c.at - 1) * (Retries + 1) \in Nat
            BY <1>0, NetlinkConstants
        <3>3. QED
            BY <1>0, <1>5, <1>6, <3>1, <3>2
    <2>3. caller'.tries <= Retries /\ caller'.req = Last' /\ Last' <= MaxSeq /\ caller'.pc = "built"
        BY <1>0, <1>2, <1>5, <1>6 DEF Sound, Counted
    <2>4. QED
        BY <2>1, <2>2, <2>3 DEF Counted
<1>11. Turns'
    <2>1. \A r \in 1..(Last' - 1) : fut'[r] # "none"
        BY <1>0, <1>6, <1>7
    <2>2. Pending'
        BY <1>0, <1>6 DEF Pending
    <2>3. data' = Msg(plan'[caller'.at], Last', Last')
        BY <1>4, <1>5, <1>6
    <2>4. QED
        BY <1>5, <2>1, <2>2, <2>3 DEF Turns
<1>12. Entered'
    <2>1. Last' \notin DOMAIN replies \cup known
        BY <1>0, <1>6 DEF Sound, Entered, Suits
    <2>2. QED
        BY <1>4, <1>8, <2>1, EnteredStays
<1>13. Received'
    <2>1. rcv.pc = "finish" => ~Callable'
        <3> SUFFICES ASSUME rcv.pc = "finish", Callable' PROVE FALSE
            OBVIOUS
        <3> PICK q : q = rcv.rec.req
            OBVIOUS
        <3>1. q # Nobody /\ fut'[q] = "none"
            BY <1>4 DEF Callable, Live
        <3>2. q \in 1..n
            BY <3>1 DEF Sound, Received, Suits
        <3>3. QED
            BY <1>7, <3>1, <3>2
    <2>2. QED
        BY <1>1, <1>4, <1>8, <2>1, ReceivedStays
<1>14. Ended' /\ Known'
    BY <1>4, <1>5 DEF Sound, Ended, Known
<1>15. QED
    BY <1>9, <1>10, <1>11, <1>12, <1>13, <1>14 DEF Sound

LEMMA Emplaced ==
    ASSUME Sound, SendEmplace
    PROVE  Sound'
<1> PICK n : n = Last
    OBVIOUS
<1> PICK rec : rec = [req |-> n, kind |-> plan[caller.at]]
    OBVIOUS
<1>0. n \in Nat /\ caller \in CallerType /\ caller.pc = "built" /\ plan[caller.at] \in Kinds
    BY Facts DEF SendEmplace
<1>1. n \in 1..n /\ Pending /\ data = Msg(plan[caller.at], n, n) /\ data.seq = n /\ n \notin DOMAIN replies
    BY <1>0 DEF Sound, Turns, Pending, Entered, Msg
<1>2. /\ replies' = [s \in DOMAIN replies \cup {n} |-> IF s = n THEN rec ELSE replies[s]]
      /\ known' = known \cup {n} /\ caller' = [caller EXCEPT !.pc = "made"]
      /\ UNCHANGED <<plan, rcv, data, sequence, fut, answers, open, stop>>
    BY <1>1, Facts DEF SendEmplace
<1>3. /\ caller' \in CallerType /\ caller'.pc = "made" /\ caller'.at = caller.at
      /\ caller'.tries = caller.tries /\ caller'.req = caller.req /\ caller'.got = caller.got
    BY <1>0, <1>2, CallerMoves
<1>4. Last' = n /\ (Pending' <=> Pending)
    BY <1>2 DEF Last, Pending
<1>5. Later
    BY <1>0, <1>2, <1>3, <1>4 DEF Later
<1>6. /\ DOMAIN replies' = DOMAIN replies \cup {n} /\ replies'[n] = rec
      /\ \A s \in DOMAIN replies : replies'[s] = replies[s]
    BY <1>1, <1>2
<1>7. TypeOK'
    <2>1. rec \in Recs
        BY <1>0 DEF Recs
    <2>2. replies' \in [DOMAIN replies' -> Recs] /\ DOMAIN replies' \subseteq Nat
        BY <1>0, <1>2, <2>1 DEF Sound, TypeOK
    <2>3. known' \subseteq Nat
        BY <1>0, <1>2 DEF Sound, TypeOK
    <2>4. QED
        BY <1>2, <1>3, <2>2, <2>3 DEF Sound, TypeOK
<1>8. Counted'
    BY <1>0, <1>2, <1>3, <1>4 DEF Sound, Counted
<1>9. Turns'
    BY <1>1, <1>2, <1>3, <1>4 DEF Sound, Turns
<1>10. Entered'
    <2>1. Suits(rec, n)'
        BY <1>1, <1>2, <1>3, <1>4 DEF Suits
    <2> PICK old : old = replies
        OBVIOUS
    <2>2. \A s \in DOMAIN old : Suits(old[s], s)'
        BY <1>5, SuitsLater DEF Sound, Entered
    <2>3. \A s \in DOMAIN replies' : Suits(replies[s], s)'
        <3>1. Suits(replies[n], n)'
            BY <1>6, <2>1 DEF Suits
        <3>2. \A s \in DOMAIN old : Suits(replies[s], s)'
            BY <1>6, <2>2 DEF Suits
        <3>3. QED
            BY <1>6, <3>1, <3>2
    <2>4. known' \subseteq 1..n
        BY <1>1, <1>2 DEF Sound, Entered
    <2>5. QED
        BY <1>3, <1>4, <2>3, <2>4 DEF Entered
<1>11. Received'
    <2>1. rcv.pc \notin {"handle", "call"}
        BY <1>0 DEF Sound, Received
    <2>2. Callable' => Callable
        BY <1>2 DEF Callable, Live
    <2>3. QED
        BY <1>2, <1>3, <1>5, <2>1, <2>2, ReceivedStays
<1>12. Ended'
    BY <1>0, <1>2, <1>3, <1>4, <1>6 DEF Sound, Ended
<1>13. Known'
    BY <1>1, <1>2, <1>3, <1>4 DEF Known, Pending
<1>14. QED
    BY <1>7, <1>8, <1>9, <1>10, <1>11, <1>12, <1>13 DEF Sound

\* What the kernel answers is what it says of the request.
LEMMA AnswersFit ==
    ASSUME NEW n \in Nat, NEW kind \in Kinds, NEW a \in Answers(Msg(kind, n, n)), NEW b \in a
    PROVE  /\ b \in Seq(Message) /\ b # <<>>
           /\ \A i \in 1..Len(b) : b[i].seq = n /\ b[i].from = n /\ b[i].type \in Says(kind)
<1> DEFINE Names(t) == t \in Seq(Types) /\ t # <<>> /\ \A i \in 1..Len(t) : t[i] \in Says(kind)
           msgs(t) == [i \in DOMAIN t |-> Msg(t[i], n, n)]
<1>1. \E t : Names(t) /\ b = msgs(t)
    <2>1. "error" \in Types /\ "ok" \in Types /\ "reply" \in Types /\ "part" \in Types /\ "end" \in Types
        BY DEF Types
    <2>2. Names(<<"error">>) /\ Names(<<"ok">>)
        BY <2>1 DEF Says
    <2>3. CASE kind = "get"
        <3>1. Names(<<"reply">>)
            BY <2>1, <2>3 DEF Says
        <3>2. b = msgs(<<"reply">>) \/ b = msgs(<<"ok">>) \/ b = msgs(<<"error">>)
            BY <2>3 DEF Answers, Msg
        <3>3. QED
            BY <2>2, <3>1, <3>2
    <2>4. CASE kind = "list"
        <3>1. Names(<<"part", "part", "end">>)
            BY <2>1, <2>4 DEF Says
        <3>2. b = msgs(<<"part", "part", "end">>) \/ b = msgs(<<"ok">>) \/ b = msgs(<<"error">>)
            BY <2>4 DEF Answers, Msg
        <3>3. QED
            BY <2>2, <3>1, <3>2
    <2>5. CASE kind = "set"
        <3>1. b = msgs(<<"ok">>) \/ b = msgs(<<"error">>)
            BY <2>5 DEF Answers, Msg
        <3>2. QED
            BY <2>2, <3>1
    <2>6. QED
        BY <2>3, <2>4, <2>5 DEF Kinds
<1>2. PICK t : Names(t) /\ b = msgs(t)
    BY <1>1
<1>3. /\ DOMAIN t = 1..Len(t) /\ Len(t) \in Nat /\ t # <<>> /\ t \in Seq(Types)
      /\ \A i \in 1..Len(t) : t[i] \in Types /\ t[i] \in Says(kind)
    BY <1>2
<1> HIDE DEF Names
<1>4. \A i \in 1..Len(t) : Msg(t[i], n, n) \in Message
    BY <1>3 DEF Msg, Message
<1>5. b = [i \in 1..Len(t) |-> Msg(t[i], n, n)]
    BY <1>2, <1>3
<1>6. b \in Seq(Message) /\ Len(b) = Len(t) /\ \A i \in 1..Len(b) : b[i] = Msg(t[i], n, n)
    BY <1>3, <1>4, <1>5
<1>7. b # <<>>
    BY <1>3, <1>6
<1>8. \A i \in 1..Len(b) : b[i].seq = n /\ b[i].from = n /\ b[i].type \in Says(kind)
    <2>1. \A i \in 1..Len(b) : Msg(t[i], n, n).seq = n /\ Msg(t[i], n, n).from = n /\ Msg(t[i], n, n).type = t[i]
        BY DEF Msg
    <2>2. QED
        BY <1>3, <1>6, <2>1
<1>9. QED
    BY <1>6, <1>7, <1>8

LEMMA Sent ==
    ASSUME Sound, SendTo, open
    PROVE  Sound'
<1> PICK n : n = Last
    OBVIOUS
<1> PICK kind \in Kinds : kind = plan[caller.at]
    BY Facts
<1>0. n \in Nat /\ caller \in CallerType /\ caller.pc = "made" /\ n # 0 /\ data = Msg(kind, n, n)
    BY Facts DEF SendTo, Sound, Turns
<1>1. PICK a \in Answers(Msg(kind, n, n)) : answers' = answers \cup a
    BY <1>0 DEF SendTo
<1>2. /\ caller' = [caller EXCEPT !.pc = "wait"]
      /\ UNCHANGED <<plan, rcv, data, replies, known, sequence, fut, open, stop>>
    BY DEF SendTo
<1>3. /\ caller' \in CallerType /\ caller'.pc = "wait" /\ caller'.at = caller.at
      /\ caller'.tries = caller.tries /\ caller'.req = caller.req /\ caller'.got = caller.got
    BY <1>0, <1>2, CallerMoves
<1>4. Last' = n /\ (Pending' <=> Pending)
    BY <1>2 DEF Last, Pending
<1>5. Later
    BY <1>0, <1>2, <1>3, <1>4 DEF Later
<1>6. \A b \in a : /\ b \in Seq(Message) /\ b # <<>>
                   /\ \A i \in 1..Len(b) : b[i].seq = n /\ b[i].from = n /\ b[i].type \in Says(kind)
    BY <1>0, AnswersFit
<1>7. TypeOK'
    BY <1>1, <1>2, <1>3, <1>6 DEF Sound, TypeOK
<1>8. Counted'
    BY <1>0, <1>2, <1>3, <1>4 DEF Sound, Counted
<1>9. Turns'
    BY <1>0, <1>2, <1>3, <1>4 DEF Sound, Turns
<1>10. Entered'
    BY <1>2, <1>3, <1>5, EnteredStays
<1>11. Received'
    <2>1. \A b \in answers : \A i \in 1..Len(b) : Fits(b[i])'
        BY <1>5, FitsLater DEF Sound, Received
    <2>2. ASSUME NEW m, m.seq = n, m.from = n, m.type \in Says(kind)
          PROVE  Fits(m)'
        <3>1. n \in 1..n
            BY <1>0
        <3>2. QED
            BY <1>2, <1>3, <1>4, <2>2, <3>1 DEF Fits
    <2>3. \A b \in a : \A i \in 1..Len(b) : Fits(b[i])'
        BY <1>6, <2>2
    <2>4. rcv.pc \notin {"handle", "call"}
        BY <1>0 DEF Sound, Received
    <2>5. rcv.pc \in {"finish", "threw"} => Fits(rcv.msg)' /\ (rcv.rec.req # Nobody => Suits(rcv.rec, rcv.msg.seq)')
        <3> SUFFICES ASSUME rcv.pc \in {"finish", "threw"}
                     PROVE  Fits(rcv.msg)' /\ (rcv.rec.req # Nobody => Suits(rcv.rec, rcv.msg.seq)')
            OBVIOUS
        <3> PICK r : r = rcv
            OBVIOUS
        <3>1. Fits(r.msg)' /\ (r.rec.req # Nobody => Suits(r.rec, r.msg.seq)')
            BY <1>5, FitsLater, SuitsLater DEF Sound, Received
        <3>2. rcv' = r
            BY <1>2
        <3>3. QED
            BY <3>1, <3>2 DEF Fits, Suits
    <2>6. rcv.pc = "finish" => ~Callable'
        <3>1. Callable' => Callable
            BY <1>2 DEF Callable, Live
        <3>2. rcv.pc = "finish" => ~Callable
            BY <1>0, InHand DEF Callable
        <3>3. QED
            BY <3>1, <3>2
    <2>7. \A b \in answers' : \A i \in 1..Len(b) : Fits(b[i])'
        BY <1>1, <2>1, <2>3
    <2>8. QED
        BY <1>2, <2>4, <2>5, <2>6, <2>7 DEF Received
<1>12. Ended'
    BY <1>0, <1>2, <1>3, <1>4 DEF Sound, Ended
<1>13. Known'
    BY <1>0, <1>2, <1>3, <1>4 DEF Sound, Known
<1>14. QED
    BY <1>7, <1>8, <1>9, <1>10, <1>11, <1>12, <1>13 DEF Sound

\* Send fails: its request is entered nowhere any more.
LEMMA NotSent ==
    ASSUME Sound, SendTo, ~open
    PROVE  Sound'
<1> PICK n : n = Last
    OBVIOUS
<1>0. /\ n \in Nat /\ caller \in CallerType /\ caller.pc = "made" /\ n # 0
      /\ data.seq = n
    BY Facts DEF SendTo, Sound, Turns, Msg
<1>1. /\ replies' = Without(replies, n) /\ known' = known \ {n}
      /\ caller' = [caller EXCEPT !.pc = "over", !.ret = "errno"]
      /\ UNCHANGED <<plan, rcv, data, sequence, fut, answers, open, stop>>
    BY <1>0 DEF SendTo
<1>2. /\ caller' \in CallerType /\ caller'.pc = "over" /\ caller'.at = caller.at
      /\ caller'.tries = caller.tries /\ caller'.req = caller.req
    <2> PICK c : c = caller
        OBVIOUS
    <2>1. "errno" \in Returns
        BY DEF Returns
    <2>2. c \in CallerType /\ caller' = [c EXCEPT !.pc = "over", !.ret = "errno"]
        BY <1>0, <1>1
    <2>3. LET d == [c EXCEPT !.pc = "over", !.ret = "errno"]
          IN  d \in CallerType /\ d.pc = "over" /\ d.at = c.at /\ d.tries = c.tries
              /\ d.req = c.req /\ d.got = c.got
        BY <2>1, <2>2, CallerEnds
    <2>4. QED
        BY <2>2, <2>3
<1>3. Last' = n /\ (Pending' <=> Pending)
    BY <1>1 DEF Last, Pending
<1>4. ASSUME NEW m, Fits(m)
      PROVE  Fits(m)' /\ (Pending => m.seq # n)
    BY <1>0, <1>3, <1>4 DEF Fits
<1>5. ASSUME NEW rec, NEW s, Suits(rec, s), Pending => s # n
      PROVE  Suits(rec, s)'
    BY <1>0, <1>3, <1>5 DEF Suits
<1>6. /\ DOMAIN replies' = DOMAIN replies \ {n}
      /\ \A s \in DOMAIN replies' : replies'[s] = replies[s]
    BY <1>1 DEF Without
<1>7. TypeOK'
    <2>1. replies' \in [DOMAIN replies' -> Recs] /\ DOMAIN replies' \subseteq Nat
        BY <1>1 DEF Sound, TypeOK, Without
    <2>2. QED
        BY <1>1, <1>2, <2>1 DEF Sound, TypeOK
<1>8. Counted'
    BY <1>0, <1>1, <1>2, <1>3 DEF Sound, Counted
<1>9. Turns'
    BY <1>0, <1>1, <1>2, <1>3 DEF Sound, Turns
<1>10. Entered'
    <2> PICK old : old = replies
        OBVIOUS
    <2>1. \A s \in DOMAIN old \ {n} : Suits(old[s], s)'
        BY <1>5 DEF Sound, Entered
    <2>2. \A s \in DOMAIN replies' : Suits(replies[s], s)'
        BY <1>6, <2>1 DEF Suits
    <2>3. QED
        BY <1>1, <1>2, <1>3, <2>2 DEF Sound, Entered
<1>11. Received'
    <2>1. \A b \in answers' : \A i \in 1..Len(b) : Fits(b[i])'
        BY <1>1, <1>4 DEF Sound, Received
    <2>2. rcv.pc \notin {"handle", "call"}
        BY <1>0 DEF Sound, Received
    <2>3. rcv.pc \in {"finish", "threw"} => Fits(rcv.msg)' /\ (rcv.rec.req # Nobody => Suits(rcv.rec, rcv.msg.seq)')
        <3> SUFFICES ASSUME rcv.pc \in {"finish", "threw"}
                     PROVE  Fits(rcv.msg)' /\ (rcv.rec.req # Nobody => Suits(rcv.rec, rcv.msg.seq)')
            OBVIOUS
        <3> PICK r : r = rcv
            OBVIOUS
        <3>1. Fits(r.msg) /\ (r.rec.req # Nobody => Suits(r.rec, r.msg.seq))
            BY DEF Sound, Received
        <3>2. Fits(r.msg)' /\ (r.rec.req # Nobody => Suits(r.rec, r.msg.seq)')
            BY <1>4, <1>5, <3>1
        <3>3. rcv' = r
            BY <1>1
        <3>4. QED
            BY <3>2, <3>3 DEF Fits, Suits
    <2>4. rcv.pc = "finish" => ~Callable'
        <3>1. Callable' => Callable
            BY <1>1 DEF Callable, Live
        <3>2. rcv.pc = "finish" => ~Callable
            BY <1>0, InHand DEF Callable
        <3>3. QED
            BY <3>1, <3>2
    <2>5. QED
        BY <1>1, <2>1, <2>2, <2>3, <2>4 DEF Received
<1>12. Ended' /\ Known'
    BY <1>1, <1>2 DEF Sound, Ended, Known
<1>13. QED
    BY <1>7, <1>8, <1>9, <1>10, <1>11, <1>12 DEF Sound

\* What SendReturn leaves, wherever its caller goes on.
LEMMA ReturnedTo ==
    ASSUME Sound, SendReturn,
           caller' \in CallerType, caller'.pc \in {"idle", "over"}, caller'.req = Last,
           caller'.at <= Len(plan), caller'.tries <= Retries,
           caller'.pc = "idle" => Last <= (caller'.at - 1) * (Retries + 1) + caller'.tries
    PROVE  Sound'
<1> PICK n : n = Last
    OBVIOUS
<1>0. n \in Nat /\ n # 0 /\ fut \in Seq(Values) /\ n = Len(fut)
    BY Facts DEF SendReturn, Sound, Turns, Last
<1>1. /\ fut' = [fut EXCEPT ![n] = "taken"]
      /\ UNCHANGED <<plan, rcv, data, replies, known, sequence, answers, open, stop>>
    BY Facts DEF SendReturn
<1>2. /\ Last' = n /\ ~Pending' /\ fut' \in Seq(Values)
      /\ \A r \in 1..n : fut'[r] = IF r = n THEN "taken" ELSE fut[r]
    <2>1. "taken" \in Values
        BY DEF Values
    <2>2. fut' \in Seq(Values) /\ Len(fut') = n
        BY <1>0, <1>1, <2>1
    <2>3. \A r \in 1..n : fut'[r] = IF r = n THEN "taken" ELSE fut[r]
        BY <1>0, <1>1
    <2>4. QED
        BY <1>0, <2>2, <2>3 DEF Last, Pending
<1>3. Later
    BY <1>0, <1>1, <1>2 DEF Later
<1>4. TypeOK'
    BY <1>1, <1>2 DEF Sound, TypeOK
<1>5. Counted'
    <2>1. /\ n < MaxSeq => sequence = n + 1
          /\ n <= MaxSeq
        BY DEF Sound, Counted
    <2>2. QED
        BY <1>1, <1>2, <2>1 DEF Counted
<1>6. Turns'
    <2>1. \A r \in 1..(Last' - 1) : fut'[r] # "none"
        BY <1>0, <1>2 DEF Sound, Turns
    <2>2. QED
        BY <1>2, <2>1 DEF Turns
<1>7. Entered'
    BY <1>1, <1>3, EnteredStays
<1>8. Received'
    <2>1. rcv.pc = "finish" => ~Callable'
        <3> SUFFICES ASSUME rcv.pc = "finish", Callable' PROVE FALSE
            OBVIOUS
        <3> PICK q : q = rcv.rec.req
            OBVIOUS
        <3>1. q # Nobody /\ fut'[q] = "none"
            BY <1>1 DEF Callable, Live
        <3>2. q \in 1..n
            BY <3>1 DEF Sound, Received, Suits
        <3>3. q # n /\ fut[q] = "none"
            BY <1>2, <3>1, <3>2
        <3>4. QED
            BY <3>2, <3>3, Facts
    <2>2. QED
        BY <1>1, <1>3, <2>1, ReceivedStays
<1>9. Ended' /\ Known'
    BY <1>1 DEF Sound, Ended, Known
<1>10. QED
    BY <1>4, <1>5, <1>6, <1>7, <1>8, <1>9 DEF Sound

\* Send returns what the future holds; Retry, and the caller, go on.
LEMMA Returned ==
    ASSUME Sound, SendReturn
    PROVE  Sound'
<1>1. PICK c \in CallerType : c = caller
    BY Facts
<1>2. PICK n \in Nat : n = Last
    BY Facts
<1>3. PICK k \in Nat \ {0} : k = c.at
    BY <1>1 DEF CallerType
<1>4. PICK t \in Nat : t = c.tries
    BY <1>1 DEF CallerType
<1>5. PICK len \in Nat : len = Len(plan)
    BY Facts
<1>6. PICK w \in Nat \ {0} : w = Retries + 1 /\ \A i \in Nat : i < w <=> i <= Retries
    BY NetlinkConstants
<1>7. PICK ret \in Returns :
          ret = IF fut[c.req] = "ok" /\ plan[c.at] = "get" /\ c.got = Nobody THEN "ENOMSG" ELSE fut[c.req]
    <2>1. Last \in 1..Len(fut) /\ fut \in Seq(Values) /\ c.req = Last
        BY <1>1, Facts DEF SendReturn, Sound, Turns, Last
    <2>2. fut[Last] \in Values
        BY <2>1
    <2>3. QED
        BY <2>1, <2>2 DEF Returns
<1>8. c.req = n
    BY <1>1, <1>2, Facts
<1>9. k <= len /\ t < w /\ n <= (k - 1) * w + t + 1
    <2>1. k <= len
        BY <1>1, <1>3, <1>5 DEF Sound, TypeOK
    <2>2. t < w
        BY <1>1, <1>4, <1>6 DEF Sound, Counted
    <2>3. n <= (k - 1) * w + t + 1
        BY <1>1, <1>2, <1>3, <1>4, <1>6 DEF SendReturn, Sound, Counted
    <2>4. QED
        BY <2>1, <2>2, <2>3
<1>10. caller' = [c EXCEPT !.pc = IF Again(ret) \/ (ret = "ok" /\ k < len) THEN "idle" ELSE "over",
                           !.ret = ret, !.got = Nobody,
                           !.at = IF ret = "ok" /\ k < len THEN k + 1 ELSE k,
                           !.tries = IF Again(ret) THEN t + 1 ELSE 0]
    BY <1>1, <1>3, <1>4, <1>5, <1>7 DEF SendReturn
<1>11. CASE Again(ret)
    <2>1. PICK u \in Nat : u = t + 1
        OBVIOUS
    <2>2. ret # "ok" /\ u <= Retries
        <3>1. ret = "ETIMEDOUT" /\ t < Retries
            BY <1>1, <1>4, <1>11 DEF Again
        <3>2. QED
            BY <2>1, <3>1, NetlinkConstants
    <2>3. caller' = Turned(c, "idle", ret, k, u)
        BY <1>10, <1>11, <2>1, <2>2 DEF Turned
    <2>4. LET d == Turned(c, "idle", ret, k, u)
          IN  d \in CallerType /\ d.pc = "idle" /\ d.at = k /\ d.tries = u /\ d.req = c.req
        BY CallerTurns
    <2>5. n <= (k - 1) * w + u
        BY <1>9, <2>1
    <2>6. QED
        BY <1>2, <1>5, <1>6, <1>8, <1>9, <2>2, <2>3, <2>4, <2>5, ReturnedTo
<1>12. CASE ~Again(ret) /\ ret = "ok" /\ k < len
    <2>1. PICK l \in Nat \ {0} : l = k + 1
        OBVIOUS
    <2>2. caller' = Turned(c, "idle", ret, l, 0)
        BY <1>10, <1>12, <2>1 DEF Turned
    <2>3. LET d == Turned(c, "idle", ret, l, 0)
          IN  d \in CallerType /\ d.pc = "idle" /\ d.at = l /\ d.tries = 0 /\ d.req = c.req
        BY CallerTurns
    <2>4. n <= (l - 1) * w + 0 /\ l <= len
        <3>1. PICK j \in Nat : j = k - 1
            OBVIOUS
        <3>2. (j + 1) * w = j * w + w /\ j * w \in Nat
            OBVIOUS
        <3>3. l - 1 = j + 1 /\ n <= j * w + t + 1 /\ l <= len
            BY <1>9, <1>12, <2>1, <3>1
        <3>4. QED
            BY <1>9, <3>2, <3>3
    <2>5. 0 <= Retries
        BY NetlinkConstants
    <2>6. QED
        BY <1>2, <1>5, <1>6, <1>8, <2>2, <2>3, <2>4, <2>5, ReturnedTo
<1>13. CASE ~Again(ret) /\ ~(ret = "ok" /\ k < len)
    <2>1. caller' = Turned(c, "over", ret, k, 0)
        BY <1>10, <1>13 DEF Turned
    <2>2. LET d == Turned(c, "over", ret, k, 0)
          IN  d \in CallerType /\ d.pc = "over" /\ d.at = k /\ d.tries = 0 /\ d.req = c.req
        BY CallerTurns
    <2>3. 0 <= Retries
        BY NetlinkConstants
    <2>4. QED
        BY <1>2, <1>5, <1>8, <1>9, <2>1, <2>2, <2>3, ReturnedTo
<1>14. QED
    <2>1. Again(ret) => ret # "ok"
        BY DEF Again
    <2>2. QED
        BY <2>1, <1>11, <1>12, <1>13

-----------------------------------------------------------------------------
(* The steps of run, of the kernel and of Stop *)

Elsewhere == {"check", "poll", "flush", "flushrecv", "recv", "ended"}

\* A step that leaves the requests alone.
LEMMA Passed ==
    ASSUME Sound, UNCHANGED <<plan, caller, data, replies, known, sequence, fut>>,
           stop' \in BOOLEAN, open' \in BOOLEAN, stop => stop',
           \A a \in answers' : a \in Seq(Message) /\ a # <<>> /\ \A i \in 1..Len(a) : Fits(a[i]),
           \/ rcv' = rcv
           \/ rcv' \in RcvType /\ rcv'.pc \in Elsewhere
           \/ rcv' \in RcvType /\ rcv'.pc = "onstop" /\ stop' /\ caller.pc # "built"
    PROVE  Sound'
<1>1. Last' = Last /\ (Pending' <=> Pending)
    BY DEF Last, Pending
<1>2. Later
    BY <1>1, CalmLater
<1>3. TypeOK'
    <2>1. rcv' \in RcvType
        BY Facts
    <2>2. QED
        BY <2>1 DEF Sound, TypeOK
<1>4. Counted' /\ Turns' /\ Known'
    <2>1. Counted'
        BY <1>1 DEF Sound, Counted
    <2>2. Turns'
        BY <1>1 DEF Sound, Turns
    <2>3. Known'
        BY <1>1 DEF Sound, Known
    <2>4. QED
        BY <2>1, <2>2, <2>3
<1>5. Entered'
    <2>1. caller.pc = "built" => Last' \notin DOMAIN replies \cup known
        BY <1>1 DEF Sound, Entered
    <2>2. QED
        BY <1>2, <2>1, EnteredStays
<1>6. Ended'
    <2>1. rcv'.pc \in {"onstop", "gone"} => stop' /\ caller.pc # "built"
        BY DEF Sound, Ended, Elsewhere
    <2>2. rcv'.pc = "gone" => rcv.pc = "gone"
        BY DEF Elsewhere
    <2>3. QED
        BY <1>1, <2>1, <2>2 DEF Sound, Ended
<1>7. Received'
    <2>1. \A a \in answers' : \A i \in 1..Len(a) : Fits(a[i])'
        BY <1>2, FitsLater
    <2>2. CASE rcv' = rcv
        <3>1. rcv.pc \in {"handle", "call"} => Fits(data)'
            <4> SUFFICES ASSUME rcv.pc \in {"handle", "call"} PROVE Fits(data)'
                OBVIOUS
            <4>1. PICK m : m = data
                OBVIOUS
            <4>2. Fits(m)'
                BY <1>2, <4>1, FitsLater DEF Sound, Received
            <4>3. QED
                BY <4>1, <4>2 DEF Fits
        <3>2. rcv.pc \in {"call", "finish", "threw"} =>
                 Fits(rcv.msg)' /\ (rcv.rec.req # Nobody => Suits(rcv.rec, rcv.msg.seq)')
            <4> SUFFICES ASSUME rcv.pc \in {"call", "finish", "threw"}
                         PROVE  Fits(rcv.msg)' /\ (rcv.rec.req # Nobody => Suits(rcv.rec, rcv.msg.seq)')
                OBVIOUS
            <4>1. PICK r : r = rcv
                OBVIOUS
            <4>2. Fits(r.msg)' /\ (r.rec.req # Nobody => Suits(r.rec, r.msg.seq)')
                BY <1>2, <4>1, FitsLater, SuitsLater DEF Sound, Received
            <4>3. QED
                BY <2>2, <4>1, <4>2 DEF Fits, Suits
        <3>3. Callable' => Callable
            BY <2>2 DEF Callable, Live
        <3>4. QED
            BY <2>1, <2>2, <3>1, <3>2, <3>3 DEF Sound, Received
    <2>3. CASE rcv'.pc \in Elsewhere \cup {"onstop"}
        BY <2>1, <2>3 DEF Received, Elsewhere
    <2>4. QED
        BY <2>2, <2>3
<1>8. QED
    BY <1>3, <1>4, <1>5, <1>6, <1>7 DEF Sound

\* What is still to come when a message has left.
LEMMA BehindFits ==
    ASSUME Sound, NEW a \in answers
    PROVE  /\ Head(a) \in Message /\ Fits(Head(a))
           /\ \A b \in Behind(a) : b \in Seq(Message) /\ b # <<>> /\ \A i \in 1..Len(b) : Fits(b[i])
<1>1. \A b \in answers : b \in Seq(Message) /\ b # <<>> /\ \A i \in 1..Len(b) : Fits(b[i])
    BY DEF Sound, TypeOK, Received
<1>2. Len(a) \in Nat /\ Len(a) >= 1 /\ 1 \in 1..Len(a) /\ Head(a) = a[1] /\ Head(a) \in Message
    BY <1>1
<1>3. ASSUME Len(a) # 1
      PROVE  /\ Tail(a) \in Seq(Message) /\ Tail(a) # <<>>
             /\ \A i \in 1..Len(Tail(a)) : Fits(Tail(a)[i])
    <2>1. /\ Tail(a) \in Seq(Message) /\ Len(Tail(a)) = Len(a) - 1
          /\ \A i \in 1..Len(Tail(a)) : Tail(a)[i] = a[i + 1] /\ i + 1 \in 1..Len(a)
        BY <1>1, <1>2
    <2>2. Tail(a) # <<>>
        <3>1. Len(Tail(a)) # 0
            BY <1>2, <1>3, <2>1
        <3>2. Len(<<>>) = 0
            OBVIOUS
        <3>3. QED
            BY <3>1, <3>2
    <2>3. QED
        BY <1>1, <2>1, <2>2
<1>4. QED
    BY <1>1, <1>2, <1>3 DEF Behind

LEMMA Lost ==
    ASSUME Sound, LoseAnswer
    PROVE  Sound'
<1>1. PICK a \in answers : answers' = Behind(a)
    BY DEF LoseAnswer
<1>2. UNCHANGED <<plan, caller, rcv, data, replies, known, sequence, fut, open, stop>>
    BY DEF LoseAnswer
<1>3. \A b \in answers' : b \in Seq(Message) /\ b # <<>> /\ \A i \in 1..Len(b) : Fits(b[i])
    BY <1>1, BehindFits
<1>4. stop' \in BOOLEAN /\ open' \in BOOLEAN
    BY <1>2 DEF Sound, TypeOK
<1>5. QED
    BY <1>2, <1>3, <1>4, Passed

LEMMA Checked ==
    ASSUME Sound, RunCheck
    PROVE  Sound'
<1>1. UNCHANGED <<plan, caller, data, replies, known, sequence, fut, answers, open, stop>>
    BY DEF RunCheck
<1>2. rcv' \in RcvType /\ rcv'.pc \in Elsewhere
    <2>1. PICK r \in RcvType : r = rcv
        BY Facts
    <2>2. CASE stop
        <3>1. rcv' = [r EXCEPT !.pc = "ended"]
            BY <2>1, <2>2 DEF RunCheck
        <3>2. QED
            BY <3>1 DEF RcvType, Elsewhere
    <2>3. CASE ~stop
        <3>1. PICK f \in BOOLEAN : f = (DOMAIN replies = {})
            OBVIOUS
        <3>2. rcv' = [r EXCEPT !.pc = "poll", !.forever = f]
            BY <2>1, <2>3, <3>1 DEF RunCheck
        <3>3. QED
            BY <3>2 DEF RcvType, Elsewhere
    <2>4. QED
        BY <2>2, <2>3
<1>3. stop' \in BOOLEAN /\ open' \in BOOLEAN
    BY <1>1 DEF Sound, TypeOK
<1>4. \A a \in answers' : a \in Seq(Message) /\ a # <<>> /\ \A i \in 1..Len(a) : Fits(a[i])
    BY <1>1 DEF Sound, TypeOK, Received
<1>5. QED
    BY <1>1, <1>2, <1>3, <1>4, Passed

LEMMA Polled ==
    ASSUME Sound, RunPoll
    PROVE  Sound'
<1>1. UNCHANGED <<plan, caller, data, replies, known, sequence, fut, answers, open, stop>>
    BY DEF RunPoll
<1>2. rcv' \in RcvType /\ rcv'.pc \in Elsewhere
    <2>1. Go("recv") \/ Go("flushrecv") \/ Go("flush") \/ Go("ended")
        BY DEF RunPoll
    <2>2. QED
        BY <2>1, Facts, Goes DEF Elsewhere
<1>3. stop' \in BOOLEAN /\ open' \in BOOLEAN
    BY <1>1 DEF Sound, TypeOK
<1>4. \A a \in answers' : a \in Seq(Message) /\ a # <<>> /\ \A i \in 1..Len(a) : Fits(a[i])
    BY <1>1 DEF Sound, TypeOK, Received
<1>5. QED
    BY <1>1, <1>2, <1>3, <1>4, Passed

LEMMA Closed ==
    ASSUME Sound, RunEnded \/ StopBegin \/ OnStopping \/ StopSignal \/ StopJoin \/ UNCHANGED nvars
    PROVE  Sound'
<1>1. UNCHANGED <<plan, caller, data, replies, known, sequence, fut, answers>>
    BY DEF RunEnded, StopBegin, OnStopping, StopSignal, StopJoin, nvars
<1>2. stop' \in BOOLEAN /\ open' \in BOOLEAN /\ (stop => stop')
    BY DEF Sound, TypeOK, RunEnded, StopBegin, OnStopping, StopSignal, StopJoin, nvars
<1>3. \/ rcv' = rcv
      \/ rcv' \in RcvType /\ rcv'.pc \in Elsewhere
      \/ rcv' \in RcvType /\ rcv'.pc = "onstop" /\ stop' /\ caller.pc # "built"
    <2>1. CASE RunEnded
        <3>1. stop' /\ caller.pc # "built" /\ Go("onstop")
            BY <2>1 DEF RunEnded, Locked
        <3>2. QED
            BY <3>1, Facts, Goes
    <2>2. CASE StopSignal
        <3>1. PICK r \in RcvType : r = rcv
            BY Facts
        <3>2. rcv' = rcv \/ rcv' = [r EXCEPT !.pc = "ended"]
            BY <2>2, <3>1 DEF StopSignal
        <3>3. QED
            BY <3>2 DEF RcvType, Elsewhere
    <2>3. QED
        BY <2>1, <2>2 DEF StopBegin, OnStopping, StopJoin, nvars
<1>4. \A a \in answers' : a \in Seq(Message) /\ a # <<>> /\ \A i \in 1..Len(a) : Fits(a[i])
    BY <1>1 DEF Sound, TypeOK, Received
<1>5. QED
    BY <1>1, <1>2, <1>3, <1>4, Passed

\* A message is received in _data, outside of the lock.
LEMMA Filled ==
    ASSUME Sound, RunRecv, ~torn'
    PROVE  Sound'
<1>1. UNCHANGED <<plan, caller, replies, known, sequence, fut, open, stop>>
    BY DEF RunRecv
<1>2. stop' \in BOOLEAN /\ open' \in BOOLEAN
    BY <1>1 DEF Sound, TypeOK
<1>3. CASE UNCHANGED data /\ UNCHANGED answers /\ (Go("ended") \/ Go("check"))
    <2>1. rcv' \in RcvType /\ rcv'.pc \in Elsewhere
        BY <1>3, Facts, Goes DEF Elsewhere
    <2>2. \A a \in answers' : a \in Seq(Message) /\ a # <<>> /\ \A i \in 1..Len(a) : Fits(a[i])
        BY <1>3 DEF Sound, TypeOK, Received
    <2>3. QED
        BY <1>1, <1>2, <1>3, <2>1, <2>2, Passed
<1>4. ASSUME NEW a \in answers, data' = Head(a), answers' = Behind(a), Go("handle"),
             caller.pc \notin {"built", "made"}
      PROVE  Sound'
    <2>1. PICK m : m = Head(a)
        OBVIOUS
    <2>2. /\ m \in Message /\ Fits(m)
          /\ \A b \in answers' : b \in Seq(Message) /\ b # <<>> /\ \A i \in 1..Len(b) : Fits(b[i])
        BY <1>4, <2>1, BehindFits
    <2>3. rcv' \in RcvType /\ rcv'.pc = "handle"
        BY <1>4, Facts, Goes
    <2>4. Last' = Last /\ (Pending' <=> Pending)
        BY <1>1 DEF Last, Pending
    <2>5. Later
        BY <1>1, <2>4, CalmLater
    <2>6. TypeOK'
        BY <1>1, <1>2, <1>4, <2>1, <2>2, <2>3 DEF Sound, TypeOK
    <2>7. Counted'
        BY <1>1, <2>4 DEF Sound, Counted
    <2>8. Turns'
        BY <1>1, <1>4, <2>4 DEF Sound, Turns
    <2>9. Entered'
        BY <1>1, <1>4, <2>5, EnteredStays
    <2>10. Received'
        <3>1. Fits(m)'
            BY <2>2, <2>5, FitsLater
        <3>2. Fits(data)'
            BY <1>4, <2>1, <3>1 DEF Fits
        <3>3. \A b \in answers' : \A i \in 1..Len(b) : Fits(b[i])'
            BY <2>2, <2>5, FitsLater
        <3>4. QED
            BY <1>1, <1>4, <2>3, <3>2, <3>3 DEF Received
    <2>11. Ended' /\ Known'
        <3>1. Ended'
            BY <1>1, <2>3, <2>4 DEF Sound, Ended
        <3>2. Known'
            BY <1>1, <2>4 DEF Sound, Known
        <3>3. QED
            BY <3>1, <3>2
    <2>12. QED
        BY <2>6, <2>7, <2>8, <2>9, <2>10, <2>11 DEF Sound
<1>5. QED
    BY <1>3, <1>4 DEF RunRecv

LEMMA LookedUp ==
    ASSUME Sound, Lookup
    PROVE  Sound'
<1>1. PICK m \in Message : m = data
    BY DEF Sound, TypeOK
<1>2. PICK r \in RcvType : r = rcv
    BY Facts
<1>3. PICK rec : rec = IF m.seq \in DOMAIN replies THEN replies[m.seq] ELSE NoRec
    OBVIOUS
<1>4. /\ r.pc = "handle" /\ caller.pc \notin {"built", "made"}
      /\ rcv' = [r EXCEPT !.pc = "call", !.msg = m, !.rec = rec]
      /\ known' = IF m.seq \in DOMAIN replies THEN known \cup {m.seq} ELSE known
      /\ UNCHANGED <<plan, caller, data, replies, sequence, fut, answers, open, stop>>
    BY <1>1, <1>2, <1>3 DEF Lookup, Sound, Received
<1>5. Fits(m)
    BY <1>1, <1>2, <1>4 DEF Sound, Received
<1>6. rec \in Recs /\ (rec.req # Nobody => Suits(rec, m.seq))
    <2>1. NoRec \in Recs /\ NoRec.req = Nobody
        BY DEF NoRec, Recs, Nobody, Kinds
    <2>2. m.seq \in DOMAIN replies => replies[m.seq] \in Recs /\ Suits(replies[m.seq], m.seq)
        BY DEF Sound, TypeOK, Entered
    <2>3. QED
        BY <1>3, <2>1, <2>2
<1>7. rcv' \in RcvType /\ rcv'.pc = "call" /\ rcv'.msg = m /\ rcv'.rec = rec
    <2>1. PICK r1 : r1 = [r EXCEPT !.pc = "call"]
        OBVIOUS
    <2>2. PICK r2 : r2 = [r1 EXCEPT !.msg = m]
        OBVIOUS
    <2>3. r1 \in RcvType /\ r1.pc = "call"
        BY <2>1 DEF RcvType
    <2>4. r2 \in RcvType /\ r2.pc = "call" /\ r2.msg = m
        BY <2>2, <2>3 DEF RcvType
    <2>5. rcv' = [r2 EXCEPT !.rec = rec]
        BY <1>4, <2>1, <2>2
    <2>6. QED
        BY <1>6, <2>4, <2>5 DEF RcvType
<1>8. Last' = Last /\ (Pending' <=> Pending)
    BY <1>4 DEF Last, Pending
<1>9. Later
    BY <1>4, <1>8, CalmLater
<1>10. m.seq \in 1..Last /\ Last \in Nat
    BY <1>5, Facts DEF Fits
<1>11. TypeOK'
    <2>1. known' \subseteq Nat
        BY <1>4, <1>10 DEF Sound, TypeOK
    <2>2. QED
        BY <1>4, <1>7, <2>1 DEF Sound, TypeOK
<1>12. Counted' /\ Turns'
    <2>1. Counted'
        BY <1>4, <1>8 DEF Sound, Counted
    <2>2. Turns'
        BY <1>4, <1>8 DEF Sound, Turns
    <2>3. QED
        BY <2>1, <2>2
<1>13. Entered'
    <2>1. PICK old : old = replies
        OBVIOUS
    <2>2. \A s \in DOMAIN old : Suits(old[s], s)'
        BY <1>9, <2>1, SuitsLater DEF Sound, Entered
    <2>3. \A s \in DOMAIN replies' : Suits(replies[s], s)'
        BY <1>4, <2>1, <2>2 DEF Suits
    <2>4. known' \subseteq 1..Last'
        BY <1>4, <1>8, <1>10 DEF Sound, Entered
    <2>5. QED
        BY <1>4, <2>3, <2>4 DEF Entered
<1>14. Received'
    <2>1. \A a \in answers' : \A i \in 1..Len(a) : Fits(a[i])'
        BY <1>4, <1>9, FitsLater DEF Sound, Received
    <2>2. Fits(m)' /\ (rec.req # Nobody => Suits(rec, m.seq)')
        BY <1>5, <1>6, <1>9, FitsLater, SuitsLater
    <2>3. Fits(data)' /\ Fits(rcv.msg)' /\ (rcv'.rec.req # Nobody => Suits(rcv.rec, rcv.msg.seq)')
        BY <1>1, <1>4, <1>7, <2>2 DEF Fits, Suits
    <2>4. data' = rcv'.msg
        BY <1>1, <1>4, <1>7
    <2>5. QED
        BY <1>4, <1>7, <2>1, <2>3, <2>4 DEF Received
<1>15. Ended' /\ Known'
    <2>1. Ended'
        BY <1>4, <1>7, <1>8 DEF Sound, Ended
    <2>2. Known'
        BY <1>4, <1>8 DEF Sound, Known
    <2>3. QED
        BY <2>1, <2>2
<1>16. QED
    BY <1>11, <1>12, <1>13, <1>14, <1>15 DEF Sound

\* The reply function of the request that is waited for gets its answer.
LEMMA Called ==
    ASSUME Sound, CallReply
    PROVE  Sound'
<1>1. PICK r \in RcvType : r = rcv
    BY Facts
<1>2. /\ r.pc = "call" /\ UNCHANGED <<plan, data, replies, known, sequence, fut, answers, open, stop>>
      /\ Go("finish") \/ Go("threw")
    BY <1>1 DEF CallReply
<1>3. /\ rcv' \in RcvType /\ rcv'.pc \in {"finish", "threw"} /\ rcv'.msg = r.msg /\ rcv'.rec = r.rec
    BY <1>1, <1>2, Goes
<1>4. data = r.msg /\ Fits(r.msg) /\ (r.rec.req # Nobody => Suits(r.rec, r.msg.seq))
    BY <1>1, <1>2 DEF Sound, Received
<1>5. Callable => Pending /\ r.rec.req = Last /\ data.from = Last /\ Last \in Nat
    <2>1. Callable => Pending /\ r.rec.req = Last /\ r.msg.seq = Last
        BY <1>1, <1>2, InHand DEF Callable
    <2>2. QED
        BY <1>4, <2>1, Facts DEF Fits
<1>6. /\ caller' \in CallerType /\ caller'.pc = caller.pc /\ caller'.at = caller.at
      /\ caller'.tries = caller.tries /\ caller'.req = caller.req
      /\ caller'.got = IF Callable /\ rcv'.pc = "finish" THEN Last ELSE caller.got
    <2>1. CASE Callable /\ rcv'.pc = "finish"
        <3>1. caller' = [caller EXCEPT !.got = data.from]
            <4>1. Go("finish") => rcv'.pc = "finish"
                BY <1>3, Facts, Goes
            <4>2. Go("threw") => rcv'.pc = "threw"
                BY <1>3, Facts, Goes
            <4>3. rcv.rec.req = caller.req
                BY <1>1, <1>5, <2>1, Facts
            <4>4. QED
                BY <2>1, <4>2, <4>3 DEF CallReply
        <3>2. PICK c \in CallerType : c = caller
            BY Facts
        <3>3. PICK g \in Nat : g = data.from
            BY <1>5, <2>1
        <3>4. LET d == [c EXCEPT !.got = g]
              IN  d \in CallerType /\ d.pc = c.pc /\ d.at = c.at /\ d.tries = c.tries
                  /\ d.req = c.req /\ d.got = g
            BY CallerGets
        <3>5. QED
            BY <1>5, <2>1, <3>1, <3>2, <3>3, <3>4
    <2>2. CASE ~(Callable /\ rcv'.pc = "finish")
        <3>1. Go("finish") => rcv'.pc = "finish"
            BY Facts, Goes
        <3>2. caller' = caller
            BY <2>2, <3>1 DEF CallReply
        <3>3. QED
            BY <2>2, <3>2, Facts
    <2>3. QED
        BY <2>1, <2>2
<1>7. Last' = Last /\ (Pending' <=> Pending)
    BY <1>2 DEF Last, Pending
<1>8. Later
    BY <1>2, <1>6, <1>7, CalmLater
<1>9. TypeOK'
    BY <1>2, <1>3, <1>6 DEF Sound, TypeOK
<1>10. Counted' /\ Turns'
    <2>1. Counted'
        BY <1>2, <1>6, <1>7 DEF Sound, Counted
    <2>2. Turns'
        BY <1>2, <1>6, <1>7 DEF Sound, Turns
    <2>3. QED
        BY <2>1, <2>2
<1>11. Entered'
    <2>1. caller'.pc = "built" => Last' \notin DOMAIN replies \cup known
        BY <1>6, <1>7 DEF Sound, Entered
    <2>2. QED
        BY <1>2, <1>8, <2>1, EnteredStays
<1>12. Received'
    <2>1. \A a \in answers' : \A i \in 1..Len(a) : Fits(a[i])'
        BY <1>2, <1>8, FitsLater DEF Sound, Received
    <2>2. Fits(r.msg)' /\ (r.rec.req # Nobody => Suits(r.rec, r.msg.seq)')
        BY <1>4, <1>8, FitsLater, SuitsLater
    <2>3. Fits(rcv.msg)' /\ (rcv'.rec.req # Nobody => Suits(rcv.rec, rcv.msg.seq)')
        BY <1>3, <2>2 DEF Fits, Suits
    <2>4. rcv'.pc = "finish" /\ Callable' => caller'.got = rcv'.rec.req
        <3>1. Callable' => Callable
            BY <1>1, <1>2, <1>3 DEF Callable, Live
        <3>2. QED
            BY <1>3, <1>5, <1>6, <3>1
    <2>5. QED
        BY <1>3, <2>1, <2>3, <2>4 DEF Received
<1>13. Ended'
    BY <1>2, <1>3, <1>6, <1>7 DEF Sound, Ended
<1>14. Known'
    <2>1. Callable => fut[Last] = "none"
        BY <1>5 DEF Pending
    <2>2. QED
        BY <1>2, <1>6, <1>7, <2>1 DEF Sound, Known
<1>15. QED
    BY <1>9, <1>10, <1>11, <1>12, <1>13, <1>14 DEF Sound

\* The request in hand is done, unless it was before.
LEMMA Completed ==
    ASSUME Sound, NEW value \in Values, value # "none", value # "taken", Complete(value),
           rcv.pc \in {"finish", "threw"}, caller.pc # "built",
           value = "ok" => rcv.pc = "finish" /\ Ends(rcv.msg, rcv.rec) /\ rcv.msg.type # "error",
           known' \subseteq known,
           rcv' = [rcv EXCEPT !.pc = "check", !.rec = NoRec, !.msg = Msg("none", 0, Nobody)],
           UNCHANGED <<plan, caller, data, sequence, answers, open, stop>>
    PROVE  Sound'
<1>1. PICK r \in RcvType : r = rcv
    BY Facts
<1>2. PICK q : q = r.rec.req
    OBVIOUS
<1>3. rcv' \in RcvType /\ rcv'.pc = "check"
    BY <1>1, RcvDone
<1>4. /\ Last \in Nat /\ fut \in Seq(Values) /\ Last = Len(fut)
    BY Facts DEF Last
<1>5. Live => Pending /\ q = Last /\ Last \in 1..Last
    <2>1. Live => Pending /\ q = Last
        BY <1>1, <1>2, InHand
    <2>2. QED
        BY <1>4, <2>1 DEF Pending
<1>6. /\ fut' \in Seq(Values) /\ Last' = Last
      /\ \A i \in 1..Last : fut'[i] = IF Live /\ i = Last THEN value ELSE fut[i]
    <2>1. CASE Live
        <3>1. fut' = [fut EXCEPT ![Last] = value]
            BY <1>1, <1>2, <1>5, <2>1 DEF Complete
        <3>2. fut' \in Seq(Values) /\ Len(fut') = Len(fut)
            BY <1>4, <1>5, <2>1, <3>1
        <3>3. \A i \in 1..Last : fut'[i] = IF i = Last THEN value ELSE fut[i]
            BY <1>4, <3>1
        <3>4. QED
            BY <2>1, <3>2, <3>3 DEF Last
    <2>2. CASE ~Live
        BY <1>4, <2>2 DEF Complete, Last
    <2>3. QED
        BY <2>1, <2>2
<1>7. Pending' <=> Pending /\ ~Live
    BY <1>4, <1>5, <1>6 DEF Pending
<1>8. Later
    BY <1>4, <1>6, <1>7 DEF Later
<1>9. /\ DOMAIN replies' \subseteq DOMAIN replies
      /\ \A s \in DOMAIN replies' : replies'[s] = replies[s]
      /\ replies' \in [DOMAIN replies' -> Recs]
      /\ q # Nobody => DOMAIN replies' = DOMAIN replies \ {r.msg.seq}
      /\ q = Nobody => replies' = replies
    BY <1>1, <1>2 DEF Complete, Without, Sound, TypeOK
<1>10. Pending' /\ Last \in DOMAIN replies => Last \in DOMAIN replies'
    <2> SUFFICES ASSUME Pending', q # Nobody, r.msg.seq = Last PROVE FALSE
        BY <1>9
    <2>1. q = Last /\ fut[Last] = "none"
        BY <1>1, <1>2, <1>7 DEF Sound, Received, Suits, Pending
    <2>2. QED
        BY <1>1, <1>2, <1>7, <2>1 DEF Live
<1>11. TypeOK'
    <2>1. DOMAIN replies' \subseteq Nat /\ known' \subseteq Nat
        BY <1>9 DEF Sound, TypeOK
    <2>2. QED
        BY <1>3, <1>6, <1>9, <2>1 DEF Sound, TypeOK
<1>12. Counted'
    BY <1>6 DEF Sound, Counted
<1>13. Turns'
    <2>1. \A i \in 1..(Last' - 1) : fut'[i] # "none"
        BY <1>4, <1>6 DEF Sound, Turns
    <2>2. QED
        BY <1>6, <1>7, <2>1 DEF Sound, Turns
<1>14. Entered'
    <2>1. PICK old : old = replies
        OBVIOUS
    <2>2. \A s \in DOMAIN old : Suits(old[s], s)'
        BY <1>8, <2>1, SuitsLater DEF Sound, Entered
    <2>3. \A s \in DOMAIN replies' : Suits(replies[s], s)'
        BY <1>9, <2>1, <2>2 DEF Suits
    <2>4. known' \subseteq 1..Last'
        BY <1>6 DEF Sound, Entered
    <2>5. QED
        BY <2>3, <2>4 DEF Entered
<1>15. Received'
    <2>1. \A a \in answers' : \A i \in 1..Len(a) : Fits(a[i])'
        BY <1>8, FitsLater DEF Sound, Received
    <2>2. QED
        BY <1>3, <2>1 DEF Received
<1>16. Ended'
    BY <1>3, <1>6, <1>7, <1>10 DEF Sound, Ended
<1>17. Known'
    <2>1. caller.pc = "made" => ~Live
        BY <1>1, InHand
    <2>2. ASSUME caller.pc = "wait", plan[caller.at] = "get", Live, value = "ok"
          PROVE  caller.got = Last
        <3>1. r.rec.kind = "get" /\ r.msg.type \in Says("get") /\ q = Last
            BY <1>1, <1>2, <2>2, InHand
        <3>2. r.msg.type # "ok" /\ r.msg.type # "error" /\ rcv.pc = "finish"
            BY <1>1, <2>2, <3>1 DEF Ends, Live
        <3>3. r.msg.type \notin Silent
            BY <3>1, <3>2 DEF Says, Silent, Verdicts
        <3>4. Callable
            BY <1>1, <2>2, <3>1, <3>3 DEF Callable
        <3>5. QED
            BY <1>1, <1>2, <3>1, <3>2, <3>4 DEF Sound, Received
    <2>3. Last # 0 => Last \in 1..Last
        BY <1>4
    <2>4. caller.pc \in {"made", "wait"} => Last # 0
        BY DEF Sound, Turns
    <2>5. QED
        BY <1>6, <2>1, <2>2, <2>3, <2>4 DEF Sound, Known
<1>18. QED
    BY <1>11, <1>12, <1>13, <1>14, <1>15, <1>16, <1>17 DEF Sound

LEMMA Finished ==
    ASSUME Sound, Finish
    PROVE  Sound'
<1>1. /\ rcv.pc \in {"finish", "threw"} /\ caller.pc # "built"
      /\ rcv' = [rcv EXCEPT !.pc = "check", !.rec = NoRec, !.msg = Msg("none", 0, Nobody)]
      /\ UNCHANGED <<plan, caller, data, sequence, answers, open, stop>>
    BY DEF Finish, Locked
<1>2. CASE rcv.pc = "threw"
    <2>1. Complete("exception") /\ known' \subseteq known
        BY <1>2 DEF Finish
    <2>2. "exception" \in Values
        BY DEF Values
    <2>3. QED
        BY <1>1, <2>1, <2>2, Completed
<1>3. CASE rcv.pc # "threw" /\ Ends(rcv.msg, rcv.rec) /\ rcv.msg.type = "error"
    <2>1. Complete("error") /\ known' \subseteq known
        BY <1>3 DEF Finish
    <2>2. "error" \in Values
        BY DEF Values
    <2>3. QED
        BY <1>1, <2>1, <2>2, Completed
<1>4. CASE rcv.pc # "threw" /\ Ends(rcv.msg, rcv.rec) /\ rcv.msg.type # "error"
    <2>1. Complete("ok") /\ known' \subseteq known
        BY <1>4 DEF Finish
    <2>2. "ok" \in Values
        BY DEF Values
    <2>3. rcv.pc = "finish"
        BY <1>1, <1>4
    <2>4. QED
        BY <1>1, <1>4, <2>1, <2>2, <2>3, Completed
<1>5. CASE rcv.pc # "threw" /\ ~Ends(rcv.msg, rcv.rec)
    <2>1. UNCHANGED <<fut, replies, known>>
        BY <1>5 DEF Finish
    <2>2. rcv' \in RcvType /\ rcv'.pc \in Elsewhere
        BY <1>1, Facts, RcvDone DEF Elsewhere
    <2>3. stop' \in BOOLEAN /\ open' \in BOOLEAN
        BY <1>1 DEF Sound, TypeOK
    <2>4. \A a \in answers' : a \in Seq(Message) /\ a # <<>> /\ \A i \in 1..Len(a) : Fits(a[i])
        BY <1>1 DEF Sound, TypeOK, Received
    <2>5. QED
        BY <1>1, <2>1, <2>2, <2>3, <2>4, Passed
<1>6. QED
    BY <1>2, <1>3, <1>4, <1>5

Dropped(old, value) ==
    /\ old \subseteq DOMAIN replies /\ SetAll(old, value)
    /\ DOMAIN replies' = DOMAIN replies \ old /\ \A s \in DOMAIN replies' : replies'[s] = replies[s]
    /\ replies' \in [DOMAIN replies' -> Recs]

\* Entries leave _replies with their promises set.
LEMMA Flushed ==
    ASSUME Sound, NEW old, NEW value, value \in {"ETIMEDOUT", "ECANCELED"}, Dropped(old, value),
           caller.pc # "built", known' \subseteq known, rcv' \in RcvType,
           rcv'.pc \in {"recv", "check"} \/ (rcv'.pc = "gone" /\ old = DOMAIN replies /\ stop),
           UNCHANGED <<plan, caller, data, sequence, answers, open, stop>>
    PROVE  Sound'
<1>0. /\ DOMAIN replies' = DOMAIN replies \ old /\ \A s \in DOMAIN replies' : replies'[s] = replies[s]
      /\ replies' \in [DOMAIN replies' -> Recs] /\ old \subseteq DOMAIN replies /\ SetAll(old, value)
    BY DEF Dropped
<1>1. Last \in Nat /\ fut \in Seq(Values) /\ Last = Len(fut) /\ DOMAIN fut = 1..Last
    BY Facts DEF Last
<1>2. \A s \in old : replies[s].req = s
    BY <1>0 DEF Sound, Entered, Suits
<1>3. /\ fut' \in Seq(Values) /\ Last' = Last
      /\ \A i \in 1..Last : fut'[i] = IF fut[i] = "none" /\ i \in old THEN value ELSE fut[i]
    <2>1. fut' = [i \in 1..Last |-> IF fut[i] = "none" /\ \E s \in old : replies[s].req = i THEN value ELSE fut[i]]
        BY <1>0, <1>1 DEF SetAll
    <2>2. \A i \in 1..Last : fut'[i] = IF fut[i] = "none" /\ i \in old THEN value ELSE fut[i]
        BY <1>2, <2>1
    <2>3. value \in Values
        BY DEF Values
    <2>4. \A i \in 1..Last : fut[i] \in Values
        BY <1>1
    <2>5. \A i \in 1..Last : fut'[i] \in Values
        BY <2>2, <2>3, <2>4
    <2>6. fut' \in Seq(Values) /\ Len(fut') = Last
        BY <1>1, <2>1, <2>5
    <2>7. QED
        BY <2>2, <2>6 DEF Last
<1>4. Last # 0 => Last \in 1..Last
    BY <1>1
<1>5. Pending' <=> Pending /\ Last \notin old
    BY <1>3, <1>4 DEF Pending
<1>6. Later
    BY <1>1, <1>3, <1>5 DEF Later
<1>7. TypeOK'
    <2>1. DOMAIN replies' \subseteq Nat /\ known' \subseteq Nat
        BY <1>0 DEF Sound, TypeOK
    <2>2. QED
        BY <1>0, <1>3, <2>1 DEF Sound, TypeOK
<1>8. Counted'
    BY <1>3 DEF Sound, Counted
<1>9. Turns'
    <2>1. \A i \in 1..(Last' - 1) : fut'[i] # "none"
        <3>1. \A i \in 1..(Last - 1) : i \in 1..Last /\ fut[i] # "none"
            BY <1>1 DEF Sound, Turns
        <3>2. QED
            BY <1>3, <3>1
    <2>2. QED
        BY <1>3, <1>5, <2>1 DEF Sound, Turns
<1>10. Entered'
    <2>1. PICK before : before = replies
        OBVIOUS
    <2>2. \A s \in DOMAIN before : Suits(before[s], s)'
        BY <1>6, <2>1, SuitsLater DEF Sound, Entered
    <2>3. \A s \in DOMAIN replies' : Suits(replies[s], s)'
        BY <1>0, <2>1, <2>2 DEF Suits
    <2>4. known' \subseteq 1..Last'
        BY <1>3 DEF Sound, Entered
    <2>5. QED
        BY <2>3, <2>4 DEF Entered
<1>11. Received'
    <2>1. \A a \in answers' : \A i \in 1..Len(a) : Fits(a[i])'
        BY <1>6, FitsLater DEF Sound, Received
    <2>2. QED
        BY <2>1 DEF Received
<1>12. Ended'
    <2>1. caller.pc \in {"made", "wait"} /\ Pending' => Last \in DOMAIN replies /\ Last \notin old
        BY <1>5 DEF Sound, Ended
    <2>2. QED
        BY <1>0, <1>3, <2>1 DEF Sound, Ended
<1>13. Known'
    <2>1. caller.pc \in {"made", "wait"} => Last # 0
        BY DEF Sound, Turns
    <2>2. Last # 0 /\ fut'[Last] = "ok" => fut[Last] = "ok"
        BY <1>3, <1>4
    <2>3. QED
        BY <1>3, <2>1, <2>2 DEF Sound, Known
<1>14. QED
    BY <1>7, <1>8, <1>9, <1>10, <1>11, <1>12, <1>13 DEF Sound

LEMMA FlushedByRun ==
    ASSUME Sound, RunFlush
    PROVE  Sound'
<1>1. /\ caller.pc # "built" /\ UNCHANGED <<plan, caller, data, sequence, answers, open, stop>>
      /\ UNCHANGED known
    BY DEF RunFlush, Locked
<1>2. CASE stop
    <2>1. rcv' \in RcvType /\ rcv'.pc \in Elsewhere /\ UNCHANGED <<replies, fut>>
        BY <1>2, Facts, Goes DEF RunFlush, Elsewhere
    <2>2. stop' \in BOOLEAN /\ open' \in BOOLEAN
        BY <1>1 DEF Sound, TypeOK
    <2>3. \A a \in answers' : a \in Seq(Message) /\ a # <<>> /\ \A i \in 1..Len(a) : Fits(a[i])
        BY <1>1 DEF Sound, TypeOK, Received
    <2>4. QED
        BY <1>1, <2>1, <2>2, <2>3, Passed
<1>3. CASE ~stop
    <2>1. PICK old \in SUBSET DOMAIN replies :
              /\ replies' = [s \in DOMAIN replies \ old |-> replies[s]]
              /\ SetAll(old, "ETIMEDOUT")
        BY <1>3 DEF RunFlush
    <2>2. rcv' \in RcvType /\ rcv'.pc \in {"recv", "check"}
        <3>1. Go("recv") \/ Go("check")
            BY <1>3 DEF RunFlush
        <3>2. QED
            BY <3>1, Facts, Goes
    <2>3. Dropped(old, "ETIMEDOUT")
        BY <2>1 DEF Dropped, Sound, TypeOK
    <2>4. /\ caller.pc # "built" /\ known' \subseteq known
          /\ UNCHANGED <<plan, caller, data, sequence, answers, open, stop>>
        BY <1>1
    <2>5. QED
        BY <2>2, <2>3, <2>4, Flushed
<1>4. QED
    BY <1>2, <1>3

LEMMA Canceled ==
    ASSUME Sound, OnStop
    PROVE  Sound'
<1>1. /\ caller.pc # "built" /\ UNCHANGED <<plan, caller, data, sequence, answers, open, stop>>
      /\ SetAll(DOMAIN replies, "ECANCELED") /\ replies' = <<>> /\ known' = {}
      /\ stop
    BY DEF OnStop, Locked, Sound, Ended
<1>2. rcv' \in RcvType /\ rcv'.pc = "gone"
    BY Facts, Goes DEF OnStop
<1>3. Dropped(DOMAIN replies, "ECANCELED")
    BY <1>1 DEF Dropped
<1>4. QED
    BY <1>1, <1>2, <1>3, Flushed

-----------------------------------------------------------------------------
(* The invariant, and what it says *)

LEMMA Initially ==
    ASSUME InitNetlink
    PROVE  Sound /\ torn \in BOOLEAN
<1>1. Last = 0 /\ fut = <<>> /\ ~Pending
    BY DEF InitNetlink, Last, Pending
<1>2. plan \in Plans /\ plan \in Seq(Kinds) /\ Len(plan) \in Nat /\ 1 <= Len(plan)
    <2>1. plan \in Plans /\ plan \in Seq(Kinds) /\ plan # <<>>
        BY NetlinkConstants DEF InitNetlink
    <2>2. QED
        BY <2>1
<1>3. Msg("none", 0, Nobody) \in Message /\ NoRec \in Recs /\ "none" \in Returns
    BY DEF NoRec, Recs, Nobody, Kinds, Msg, Message, Types, Returns, Values
<1>4. caller \in CallerType /\ caller.pc = "idle" /\ caller.at = 1 /\ caller.tries = 0 /\ caller.req = 0
    BY <1>3 DEF InitNetlink, CallerType, Nobody
<1>5. rcv \in RcvType /\ rcv.pc = "check"
    BY <1>3 DEF InitNetlink, RcvType
<1>6. TypeOK
    <2>1. replies \in [DOMAIN replies -> Recs] /\ DOMAIN replies = {}
        BY DEF InitNetlink
    <2>2. fut \in Seq(Values)
        BY <1>1
    <2>3. QED
        BY <1>2, <1>3, <1>4, <1>5, <2>1, <2>2 DEF InitNetlink, TypeOK
<1>7. Counted
    BY <1>1, <1>4, NetlinkConstants DEF InitNetlink, Counted
<1>8. Turns /\ Entered /\ Received /\ Ended /\ Known
    <2>1. Turns
        BY <1>1, <1>4 DEF Turns
    <2>2. Entered
        BY <1>4 DEF InitNetlink, Entered
    <2>3. Received /\ Ended /\ Known
        BY <1>4, <1>5 DEF InitNetlink, Received, Ended, Known
    <2>4. QED
        BY <2>1, <2>2, <2>3
<1>9. QED
    BY <1>6, <1>7, <1>8 DEF Sound, InitNetlink

\* An overlap is not forgotten.
LEMMA TornStays ==
    ASSUME torn \in BOOLEAN, [NextNetlink]_nvars
    PROVE  torn' \in BOOLEAN /\ (torn => torn')
BY DEF NextNetlink, CallerSteps, RunSteps, CloserSteps, nvars, SendBegin, SendEmplace, SendTo, SendReturn,
       LoseAnswer, RunCheck, RunPoll, RunFlush, RunRecv, Lookup, CallReply, Finish, RunEnded, OnStop,
       StopBegin, OnStopping, StopSignal, StopJoin

LEMMA InvStep ==
    ASSUME NoWrap, Inv, [NextNetlink]_nvars
    PROVE  Inv'
<1>1. torn' \in BOOLEAN /\ (torn => torn')
    BY TornStays DEF Inv
<1>2. ASSUME ~torn'
      PROVE  Sound'
    <2>1. Sound
        BY <1>1, <1>2 DEF Inv
    <2>2. CASE SendBegin
        BY <1>2, <2>1, <2>2, Refused, Begun
    <2>3. CASE SendEmplace
        BY <2>1, <2>3, Emplaced
    <2>4. CASE SendTo
        BY <2>1, <2>4, Sent, NotSent
    <2>5. CASE SendReturn
        BY <2>1, <2>5, Returned
    <2>6. CASE LoseAnswer
        BY <2>1, <2>6, Lost
    <2>7. CASE RunCheck
        BY <2>1, <2>7, Checked
    <2>8. CASE RunPoll
        BY <2>1, <2>8, Polled
    <2>9. CASE RunFlush
        BY <2>1, <2>9, FlushedByRun
    <2>10. CASE RunRecv
        BY <1>2, <2>1, <2>10, Filled
    <2>11. CASE Lookup
        BY <2>1, <2>11, LookedUp
    <2>12. CASE CallReply
        BY <2>1, <2>12, Called
    <2>13. CASE Finish
        BY <2>1, <2>13, Finished
    <2>14. CASE OnStop
        BY <2>1, <2>14, Canceled
    <2>15. CASE RunEnded \/ StopBegin \/ OnStopping \/ StopSignal \/ StopJoin \/ UNCHANGED nvars
        BY <2>1, <2>15, Closed
    <2>16. QED
        BY <2>2, <2>3, <2>4, <2>5, <2>6, <2>7, <2>8, <2>9, <2>10, <2>11, <2>12, <2>13, <2>14, <2>15
           DEF NextNetlink, CallerSteps, RunSteps, CloserSteps
<1>3. QED
    BY <1>1, <1>2 DEF Inv

LEMMA InvAlways ==
    ASSUME NoWrap
    PROVE  SpecNetlink => []Inv
<1>1. InitNetlink => Inv
    BY Initially DEF Inv
<1>2. Inv /\ [NextNetlink]_nvars => Inv'
    BY InvStep
<1>3. QED
    BY <1>1, <1>2, PTL DEF SpecNetlink

\* The thread that waits in Send can be reached by an answer, a timeout or
\* on_stop (Netlink.cpp Send, flush_replies, on_stop), unless _data was torn:
\* its entry leaves _replies only with its promise set.
THEOREM CallerReachable ==
    ASSUME NoWrap
    PROVE  SpecNetlink => []Reachable
<1>1. Inv => Reachable
    <2> SUFFICES ASSUME Sound, caller.pc \in {"made", "wait"}, fut[caller.req] = "none"
                 PROVE  /\ \E s \in DOMAIN replies : replies[s].req = caller.req
                        /\ rcv.pc # "gone"
        BY DEF Inv, Reachable
    <2>1. Pending /\ caller.req = Last
        BY Facts DEF Sound, Turns, Pending
    <2>2. Last \in DOMAIN replies /\ rcv.pc # "gone"
        BY <2>1 DEF Sound, Ended
    <2>3. replies[Last].req = Last
        BY <2>2 DEF Sound, Entered, Suits
    <2>4. QED
        BY <2>1, <2>2, <2>3
<1>2. QED
    BY <1>1, InvAlways, PTL

\* A reply function is called only while its own Send waits, with an answer to
\* its own request (Netlink.cpp handle_msg): a request that timed out or was
\* given up is done, and a repetition has a seq of its own.
THEOREM RepliesOwn ==
    ASSUME NoWrap
    PROVE  SpecNetlink => []OwnAnswer
<1>1. Inv => OwnAnswer
    <2> SUFFICES ASSUME Sound, rcv.pc = "call", Callable
                 PROVE  /\ data.from = rcv.rec.req
                        /\ rcv.rec.req = caller.req /\ caller.pc \in {"made", "wait"}
        BY DEF Inv, OwnAnswer
    <2>1. rcv.rec.req = Last /\ rcv.msg.seq = Last /\ Fits(rcv.msg) /\ caller.pc = "wait" /\ data = rcv.msg
        BY InHand DEF Callable, Sound, Received
    <2>2. QED
        BY <2>1, Facts DEF Fits
<1>2. QED
    BY <1>1, InvAlways, PTL

\* An AuditGet whose Send returns 0 has its status (NetlinkAudit.cpp AuditGet),
\* whichever of the answer and the ACK comes first.
THEOREM StatusHad ==
    ASSUME NoWrap
    PROVE  SpecNetlink => []GetsStatus
<1>1. Inv => GetsStatus
    <2> SUFFICES ASSUME Sound, caller.pc = "wait", plan[caller.at] = "get", fut[caller.req] = "ok"
                 PROVE  caller.got = caller.req
        BY DEF Inv, GetsStatus
    <2>1. QED
        BY Facts DEF Sound, Known
<1>2. QED
    BY <1>1, InvAlways, PTL
=============================================================================
