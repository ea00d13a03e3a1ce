--------------------------- MODULE BatcherProofs ---------------------------
(***************************************************************************)
(* Proofs about the batcher for every set of ops, every pool, every size   *)
(* of a batch and of the channel.                                          *)
(***************************************************************************)
EXTENDS Batcher, Integers, FiniteSetTheorems, TLAPS

\* No two places of s hold the same op.
Once(s) == \A j, k \in 1 .. Len(s) : s[j] = s[k] => j = k

\* Flush f answers the batch as a whole.
Whole(f) == flush[f].whole = TRUE

\* The dispatcher's batch and the batches of the flushes have the shape their
\* stage says.
ShapeInv ==
    /\ disp.pc = "recv" <=> disp.batch = <<>>
    /\ \A f \in Ops :
          LET F == flush[f] IN
          /\ F.pc = "none" => F.ops = <<>>
          /\ F.pc # "none" => /\ F.ops # <<>> /\ F.ops[1] = f
                              /\ Len(F.ops) <= MaxBatch
                              /\ F.i <= Len(F.ops)
                              /\ F.wallet \in Wallets
          /\ F.i = 0 => F.pc \notin {"answer", "done"}
          /\ Whole(f) => F.pc \in {"answer", "done"}
          /\ Whole(f) /\ F.out = "err" => Len(F.ops) = 1
          /\ F.pc = "done" => F.i = Len(F.ops)

\* An op is at one place of the channel, of the gathered batch or of a batch
\* that was started.
PlaceInv ==
    /\ Once(ch) /\ Once(disp.batch)
    /\ \A f \in Ops : Once(flush[f].ops)
    /\ Range(ch) \cap Range(disp.batch) = {}
    /\ \A f \in Ops : Range(flush[f].ops) \cap (Range(ch) \cup Range(disp.batch)) = {}
    /\ \A f, g \in Ops : f # g => Range(flush[f].ops) \cap Range(flush[g].ops) = {}

Flushed(o) == \E f \in Ops : o \in Range(flush[f].ops)

\* The op is queued, and its request has no answer yet.
Waiting(o) ==
    o \in Range(ch) \cup Range(disp.batch) \/ \E f \in Ops : o \in Unanswered(f)

\* What a request can tell from where its op is.
ReqInv ==
    \A o \in Ops :
        /\ o \notin Range(ch) \cup Range(disp.batch) /\ ~Flushed(o) =>
              res[o] = <<>> /\ req[o] \notin {"wait", "ok", "err"}
        /\ Waiting(o) => res[o] = <<>> /\ req[o] \in {"wait", "cancelled"}
        /\ Flushed(o) => req[o] \in {"wait", "cancelled", "ok", "err"}
        /\ Flushed(o) /\ ~Waiting(o) /\ req[o] = "wait" => res[o] # <<>>

\* The j-th op of flush f has its turn alone, now or later.
Due(f, j) ==
    /\ flush[f].i > 0 /\ ~Whole(f)
    /\ j > flush[f].i \/ (j = flush[f].i /\ flush[f].pc \in {"lock", "submit"})

\* How many transactions may hold the j-th op of flush f, and when one more
\* would be the second.
Counted(f, j) ==
    LET n == sends[flush[f].ops[j]] IN
    /\ flush[f].i = 0 /\ flush[f].pc \in {"lock", "submit"} => n = 0
    /\ flush[f].i = 0 \/ Whole(f) => n <= 1
    /\ Due(f, j) => n <= 1 /\ (n = 1 => flush[f].ops[j] \in unsure)
    /\ n <= 2 /\ (n = 2 => flush[f].ops[j] \in unsure)

SendInv ==
    /\ \A o \in Ops : ~Flushed(o) => sends[o] = 0
    /\ \A f \in Ops : \A j \in 1 .. Len(flush[f].ops) : Counted(f, j)

\* The ops of a transaction that is out, or that was executed, were sent.
TxInv ==
    /\ \A w \in Wallets : \A t \in Range(line[w]) :
          /\ flush[t[1]].pc # "none" /\ t[2] <= Len(flush[t[1]].ops)
          /\ \A o \in OpsOf(t[1], t[2]) : sends[o] > 0
    /\ \A o \in executed : sends[o] > 0

\* Why an op may be answered with an error.
Excused(o) == o \in bad \cup faulted \cup unsure /\ (sends[o] > 0 => o \in unsure)

ErrInv ==
    /\ \A f \in Ops : flush[f].pc = "answer" /\ flush[f].out = "err" =>
          Excused(flush[f].ops[flush[f].i])
    /\ \A o \in Ops : Answered(o, "err") => Excused(o)

IndInv == TypeOK /\ ShapeInv /\ PlaceInv /\ ReqInv /\ SendInv /\ TxInv /\ ErrInv

USE BatcherAssumption

-----------------------------------------------------------------------------
(***************************************************************************)
(* Sequences                                                               *)
(***************************************************************************)
LEMMA RangeFacts ==
    ASSUME NEW S, NEW s \in Seq(S)
    PROVE  /\ Len(s) \in Nat
           /\ Range(s) = {s[j] : j \in 1 .. Len(s)}
           /\ Range(s) \subseteq S
           /\ Range(s) = {} <=> s = <<>>
           /\ \A x : x \in Range(s) <=> \E j \in 1 .. Len(s) : s[j] = x
<1>1. Len(s) \in Nat /\ DOMAIN s = 1 .. Len(s) /\ \A j \in 1 .. Len(s) : s[j] \in S
  OBVIOUS
<1>2. Range(s) = {s[j] : j \in 1 .. Len(s)}
  BY <1>1 DEF Range
<1>3. s = <<>> <=> Len(s) = 0
  OBVIOUS
<1>4. Range(s) = {} <=> s = <<>>
  <2>1. CASE Len(s) = 0
    BY <1>2, <1>3, <2>1
  <2>2. CASE Len(s) # 0
    <3>1. s[1] \in Range(s)
      BY <1>1, <1>2, <2>2
    <3> QED BY <1>3, <2>2, <3>1
  <2> QED BY <2>1, <2>2
<1> QED BY <1>1, <1>2, <1>4

LEMMA SingleRange ==
    ASSUME NEW x
    PROVE  Range(<<x>>) = {x}
<1> DEFINE s == <<x>>
<1>1. s \in Seq({x}) /\ Len(s) = 1 /\ s[1] = x
  OBVIOUS
<1> HIDE DEF s
<1>2. Range(s) = {s[j] : j \in 1 .. Len(s)}
  BY <1>1, RangeFacts
<1>3. 1 .. 1 = {1}
  OBVIOUS
<1>4. Range(s) = {x}
  BY <1>1, <1>2, <1>3
<1> QED BY <1>4 DEF s

LEMMA AppendFacts ==
    ASSUME NEW S, NEW s \in Seq(S), NEW x \in S
    PROVE  /\ Append(s, x) \in Seq(S)
           /\ Len(Append(s, x)) = Len(s) + 1
           /\ Append(s, x) # <<>>
           /\ Range(Append(s, x)) = Range(s) \cup {x}
           /\ Once(s) /\ x \notin Range(s) => Once(Append(s, x))
<1> DEFINE t == Append(s, x)
<1>1. /\ t \in Seq(S) /\ Len(t) = Len(s) + 1 /\ Len(s) \in Nat /\ t # <<>>
      /\ \A j \in 1 .. Len(s) : t[j] = s[j]
      /\ t[Len(s) + 1] = x
  OBVIOUS
<1> HIDE DEF t
<1>2. 1 .. Len(t) = (1 .. Len(s)) \cup {Len(s) + 1}
  BY <1>1
<1>3. Range(s) = {s[j] : j \in 1 .. Len(s)} /\ Range(t) = {t[j] : j \in 1 .. Len(t)}
  BY <1>1, RangeFacts
<1>4. Range(t) = Range(s) \cup {x}
  BY <1>1, <1>2, <1>3
<1>5. ASSUME Once(s), x \notin Range(s)
      PROVE  Once(t)
  <2>1. ASSUME NEW j \in 1 .. Len(t), NEW k \in 1 .. Len(t), t[j] = t[k]
        PROVE  j = k
    <3>1. CASE j \in 1 .. Len(s) /\ k \in 1 .. Len(s)
      BY <1>1, <1>5, <2>1, <3>1 DEF Once
    <3>2. CASE j = Len(s) + 1 /\ k = Len(s) + 1
      BY <3>2
    <3>3. CASE j = Len(s) + 1 /\ k \in 1 .. Len(s)
      BY <1>1, <1>3, <1>5, <2>1, <3>3
    <3>4. CASE j \in 1 .. Len(s) /\ k = Len(s) + 1
      BY <1>1, <1>3, <1>5, <2>1, <3>4
    <3> QED BY <1>2, <2>1, <3>1, <3>2, <3>3, <3>4
  <2> QED BY <2>1 DEF Once
<1> QED BY <1>1, <1>4, <1>5 DEF t

LEMMA TailFacts ==
    ASSUME NEW S, NEW s \in Seq(S), s # <<>>
    PROVE  /\ Head(s) \in S /\ Head(s) = s[1]
           /\ Tail(s) \in Seq(S)
           /\ Len(Tail(s)) = Len(s) - 1
           /\ Range(s) = {Head(s)} \cup Range(Tail(s))
           /\ Once(s) => Once(Tail(s)) /\ Head(s) \notin Range(Tail(s))
<1> DEFINE t == Tail(s)
           n == Len(s)
<1>1. /\ n \in Nat \ {0} /\ Head(s) = s[1] /\ Head(s) \in S
      /\ t \in Seq(S) /\ Len(t) = n - 1
      /\ \A j \in 1 .. n - 1 : t[j] = s[j + 1]
  OBVIOUS
<1> HIDE DEF t, n
<1>2. Range(s) = {s[j] : j \in 1 .. n} /\ Range(t) = {t[j] : j \in 1 .. n - 1}
  <2>1. Range(t) = {t[j] : j \in 1 .. Len(t)}
    BY <1>1, RangeFacts
  <2>2. Range(s) = {s[j] : j \in 1 .. n}
    BY RangeFacts DEF n
  <2> QED BY <1>1, <2>1, <2>2
<1>3. Range(s) = {s[1]} \cup Range(t)
  <2>1. ASSUME NEW j \in 1 .. n
        PROVE  s[j] \in {s[1]} \cup Range(t)
    <3>1. CASE j = 1
      BY <3>1
    <3>2. CASE j # 1
      <4>1. j - 1 \in 1 .. n - 1 /\ (j - 1) + 1 = j
        BY <1>1, <3>2
      <4>2. t[j - 1] = s[j]
        BY <1>1, <4>1
      <4> QED BY <1>2, <4>1, <4>2
    <3> QED BY <3>1, <3>2
  <2>2. ASSUME NEW j \in 1 .. n - 1
        PROVE  t[j] \in Range(s)
    <3>1. j + 1 \in 1 .. n
      BY <1>1
    <3> QED BY <1>1, <1>2, <3>1
  <2>3. s[1] \in Range(s)
    BY <1>1, <1>2
  <2> QED BY <1>2, <2>1, <2>2, <2>3
<1>4. ASSUME Once(s)
      PROVE  Once(t) /\ s[1] \notin Range(t)
  <2>1. \A j \in 1 .. n - 1 : j + 1 \in 1 .. n /\ j + 1 # 1 /\ 1 \in 1 .. n
    BY <1>1
  <2>2. \A j, k \in 1 .. n : s[j] = s[k] => j = k
    BY <1>4 DEF Once, n
  <2>3. Once(t)
    <3> SUFFICES ASSUME NEW j \in 1 .. n - 1, NEW k \in 1 .. n - 1, t[j] = t[k]
                 PROVE  j = k
      BY <1>1 DEF Once
    <3>1. s[j + 1] = s[k + 1]
      BY <1>1
    <3>2. j + 1 = k + 1
      BY <2>1, <2>2, <3>1
    <3> QED BY <1>1, <3>2
  <2>4. s[1] \notin Range(t)
    <3> SUFFICES ASSUME NEW j \in 1 .. n - 1, t[j] = s[1]
                 PROVE  FALSE
      BY <1>2
    <3>1. s[j + 1] = s[1]
      BY <1>1
    <3> QED BY <2>1, <2>2, <3>1
  <2> QED BY <2>3, <2>4
<1> QED BY <1>1, <1>3, <1>4 DEF t, n

-----------------------------------------------------------------------------
(***************************************************************************)
(* Types, by name                                                          *)
(***************************************************************************)
ReqPCs == {"idle", "load", "offer", "wait", "cancelled", "refused"} \cup Answers
DispPCs == {"recv", "drain", "sem"}
FlushPCs == {"none", "done"} \cup Running
OpSeq == Seq(Ops)
AnswerSeq == Seq(Answers)
WalletSet == Wallets \cup {NoOp}
Index == 0 .. MaxBatch
Txs == Ops \X Index
TxSeq == Seq(Txs)
Flushes == [pc : FlushPCs, ops : OpSeq, wallet : WalletSet, i : Index,
            whole : BOOLEAN, out : Answers]
Dispatchers == [pc : DispPCs, batch : OpSeq]

Types ==
    /\ req \in [Ops -> ReqPCs]
    /\ mu \in Ops \cup {NoOp}
    /\ started \in BOOLEAN
    /\ ch \in OpSeq /\ Len(ch) <= ChanCap
    /\ disp \in Dispatchers
    /\ Len(disp.batch) <= MaxBatch
    /\ flush \in [Ops -> Flushes]
    /\ res \in [Ops -> AnswerSeq] /\ \A o \in Ops : Len(res[o]) <= 1
    /\ line \in [Wallets -> TxSeq]
    /\ mined \subseteq Txs
    /\ executed \subseteq Ops /\ bad \subseteq Ops
    /\ sends \in [Ops -> Nat]
    /\ unsure \subseteq Ops /\ faulted \subseteq Ops

LEMMA TypeParts == TypeOK <=> Types
  BY DEF TypeOK, Types, ReqPCs, DispPCs, FlushPCs, OpSeq, AnswerSeq, WalletSet, Index,
         Txs, TxSeq, Flushes, Dispatchers

LEMMA TypePartsNext == TypeOK' <=> Types'
  BY DEF TypeOK, Types, ReqPCs, DispPCs, FlushPCs, OpSeq, AnswerSeq, WalletSet, Index,
         Txs, TxSeq, Flushes, Dispatchers

LEMMA FlushFields ==
    ASSUME NEW F \in Flushes
    PROVE  /\ F.pc \in FlushPCs /\ F.ops \in OpSeq /\ F.wallet \in WalletSet
           /\ F.i \in Index /\ F.whole \in BOOLEAN /\ F.out \in Answers
  BY DEF Flushes

LEMMA DispFields ==
    ASSUME NEW D \in Dispatchers
    PROVE  D.pc \in DispPCs /\ D.batch \in OpSeq
  BY DEF Dispatchers

-----------------------------------------------------------------------------
(***************************************************************************)
(* The steps by what they change.                                          *)
(***************************************************************************)
SameQueue == UNCHANGED <<ch, disp>>
SameChain == UNCHANGED <<line, mined, executed, bad>>
SameHistory == UNCHANGED <<sends, unsure, faulted>>
SameRequests == UNCHANGED <<req, res>>

\* Only request o moves.
OnlyReq(o, pc) ==
    \A p \in Ops : req'[p] = IF p = o THEN pc ELSE req[p]

\* A step of Enqueue before the op is queued.
Comes(o) ==
    /\ req[o] \in {"idle", "load", "offer"}
    /\ \E pc \in {"load", "offer", "refused", "cancelled"} : OnlyReq(o, pc)
    /\ UNCHANGED <<flush, res>> /\ SameQueue /\ SameChain /\ SameHistory

Offers(o) ==
    /\ req[o] = "offer" /\ OnlyReq(o, "wait")
    /\ ch' = Append(ch, o)
    /\ UNCHANGED <<disp, flush, res>> /\ SameChain /\ SameHistory

Receives(o) ==
    /\ req[o] = "wait" /\ res[o] # <<>> /\ OnlyReq(o, Head(res[o]))
    /\ \A p \in Ops : res'[p] = IF p = o THEN <<>> ELSE res[p]
    /\ UNCHANGED flush /\ SameQueue /\ SameChain /\ SameHistory

Leaves(o) ==
    /\ req[o] = "wait" /\ OnlyReq(o, "cancelled")
    /\ UNCHANGED <<flush, res>> /\ SameQueue /\ SameChain /\ SameHistory

Gathers ==
    /\ ch # <<>>
    /\ disp'.pc = "drain" /\ disp'.batch = Append(disp.batch, Head(ch))
    /\ ch' = Tail(ch)
    /\ UNCHANGED <<req, flush, res>> /\ SameChain /\ SameHistory

Closes ==
    /\ disp.pc = "drain" /\ disp'.pc = "sem" /\ disp'.batch = disp.batch
    /\ UNCHANGED <<req, ch, flush, res>> /\ SameChain /\ SameHistory

\* Only the flush f changes.
OnlyFlush(f) == \A g \in Ops : g # f => flush'[g] = flush[g]

Starts(f) ==
    /\ f = Head(disp.batch)
    /\ disp.pc = "sem" /\ disp'.pc = "recv" /\ disp'.batch = <<>>
    /\ OnlyFlush(f)
    /\ flush'[f].pc = "lock" /\ flush'[f].ops = disp.batch
    /\ flush'[f].wallet \in Wallets
    /\ flush'[f].i = 0 /\ ~Whole(f)' /\ flush'[f].out = "err"
    /\ UNCHANGED <<req, ch, res>> /\ SameChain /\ SameHistory

\* Flush f goes to pc, otherwise as it was.
Goes(f, pc) ==
    /\ OnlyFlush(f)
    /\ flush'[f].pc = pc /\ flush'[f].ops = flush[f].ops
    /\ flush'[f].wallet = flush[f].wallet /\ flush'[f].i = flush[f].i
    /\ (Whole(f)' <=> Whole(f)) /\ flush'[f].out = flush[f].out

\* The submission of f ends with r: the ops are tried alone, or it is answered.
Settles(f, r) ==
    /\ OnlyFlush(f)
    /\ flush'[f].ops = flush[f].ops /\ flush'[f].wallet = flush[f].wallet
    /\ \/ /\ flush[f].i = 0 /\ r = "err" /\ Len(flush[f].ops) > 1
          /\ flush'[f].pc = "lock" /\ flush'[f].i = 1
          /\ (Whole(f)' <=> Whole(f)) /\ flush'[f].out = flush[f].out
       \/ /\ ~(flush[f].i = 0 /\ r = "err" /\ Len(flush[f].ops) > 1)
          /\ flush'[f].pc = "answer" /\ flush'[f].out = r
          /\ (Whole(f)' <=> flush[f].i = 0)
          /\ flush'[f].i = IF flush[f].i = 0 THEN 1 ELSE flush[f].i

Locks(f) ==
    /\ flush[f].pc = "lock" /\ Goes(f, "submit")
    /\ SameRequests /\ SameQueue /\ SameChain /\ SameHistory

Breaks(f) ==
    /\ flush[f].pc \in {"lock", "submit"} /\ Settles(f, "err")
    /\ faulted' = faulted \cup Alone(f)
    /\ SameRequests /\ SameQueue /\ SameChain /\ UNCHANGED <<sends, unsure>>

Reverts(f) ==
    /\ flush[f].pc = "submit" /\ Settles(f, "err")
    /\ CurrentOps(f) \cap (bad \cup executed \cup Pending) # {}
    /\ SameRequests /\ SameQueue /\ SameChain /\ SameHistory

\* The node takes the transaction.
Takes(f) ==
    /\ flush[f].pc = "submit"
    /\ CurrentOps(f) \cap (bad \cup executed) = {}
    /\ \A w \in Wallets :
          line'[w] = IF w = flush[f].wallet THEN Append(line[w], <<f, flush[f].i>>)
                                            ELSE line[w]
    /\ \A o \in Ops :
          sends'[o] = IF o \in CurrentOps(f) THEN sends[o] + 1 ELSE sends[o]
    /\ UNCHANGED <<mined, executed, bad>>

Sends(f) ==
    /\ Takes(f) /\ Goes(f, "wait")
    /\ SameRequests /\ SameQueue /\ UNCHANGED <<unsure, faulted>>

Loses(f) ==
    /\ Takes(f) /\ Settles(f, "err")
    /\ unsure' = unsure \cup CurrentOps(f)
    /\ faulted' = faulted \cup Alone(f)
    /\ SameRequests /\ SameQueue

Ends(f) ==
    /\ flush[f].pc = "wait" /\ <<f, flush[f].i>> \in mined /\ Settles(f, "ok")
    /\ SameRequests /\ SameQueue /\ SameChain /\ SameHistory

GivesUp(f) ==
    /\ flush[f].pc = "wait" /\ Settles(f, "err")
    /\ unsure' = unsure \cup CurrentOps(f)
    /\ faulted' = faulted \cup Alone(f)
    /\ SameRequests /\ SameQueue /\ SameChain /\ UNCHANGED sends

Replies(f) ==
    LET o == flush[f].ops[flush[f].i] IN
    /\ flush[f].pc = "answer" /\ res[o] = <<>>
    /\ \A p \in Ops : res'[p] = IF p = o THEN <<flush[f].out>> ELSE res[p]
    /\ OnlyFlush(f)
    /\ flush'[f].ops = flush[f].ops /\ flush'[f].wallet = flush[f].wallet
    /\ (Whole(f)' <=> Whole(f)) /\ flush'[f].out = flush[f].out
    /\ \/ /\ flush[f].i = Len(flush[f].ops)
          /\ flush'[f].pc = "done" /\ flush'[f].i = flush[f].i
       \/ /\ flush[f].i < Len(flush[f].ops)
          /\ flush'[f].pc = IF Whole(f) THEN "answer" ELSE "lock"
          /\ flush'[f].i = flush[f].i + 1
    /\ UNCHANGED req /\ SameQueue /\ SameChain /\ SameHistory

Mines(w) ==
    LET t == Head(line[w])
        S == OpsOf(t[1], t[2])
    IN
    /\ line[w] # <<>>
    /\ \A v \in Wallets : line'[v] = IF v = w THEN Tail(line[v]) ELSE line[v]
    /\ mined' = mined \cup {t}
    /\ executed' = IF S \cap (bad \cup executed) = {} THEN executed \cup S
                                                      ELSE executed
    /\ UNCHANGED <<bad, flush>> /\ SameRequests /\ SameQueue /\ SameHistory

Spoils ==
    /\ bad \subseteq bad'
    /\ UNCHANGED <<line, mined, executed, flush>>
    /\ SameRequests /\ SameQueue /\ SameHistory

Class ==
    \/ \E o \in Ops : Comes(o) \/ Offers(o) \/ Receives(o) \/ Leaves(o)
    \/ Gathers \/ Closes
    \/ \E f \in Ops : Starts(f) \/ Locks(f) \/ Breaks(f) \/ Reverts(f) \/ Sends(f) \/ Loses(f)
                         \/ Ends(f) \/ GivesUp(f) \/ Replies(f)
    \/ \E w \in Wallets : Mines(w)
    \/ Spoils

LEMMA FlushAssigned ==
    ASSUME Types, NEW f \in Ops, NEW v \in Flushes, flush' = [flush EXCEPT ![f] = v]
    PROVE  flush' \in [Ops -> Flushes] /\ OnlyFlush(f) /\ flush'[f] = v
  BY DEF Types, OnlyFlush

\* Ops, and what is current, of a flush that runs.
LEMMA FlushFacts ==
    ASSUME Types, ShapeInv, NEW f \in Ops, flush[f].pc # "none"
    PROVE  /\ flush[f] \in Flushes
           /\ flush[f].ops \in Seq(Ops) /\ flush[f].ops # <<>>
           /\ Len(flush[f].ops) \in Nat \ {0} /\ Len(flush[f].ops) <= MaxBatch
           /\ Head(flush[f].ops) = f /\ flush[f].ops[1] = f
           /\ flush[f].i \in Nat /\ flush[f].i <= Len(flush[f].ops)
           /\ flush[f].wallet \in Wallets
<1>1. flush[f] \in Flushes
  BY DEF Types
<1>2. flush[f].ops \in Seq(Ops) /\ flush[f].i \in Nat
  BY <1>1, FlushFields DEF OpSeq, Index
<1>3. /\ flush[f].ops # <<>> /\ flush[f].ops[1] = f
      /\ Len(flush[f].ops) <= MaxBatch /\ flush[f].i <= Len(flush[f].ops)
      /\ flush[f].wallet \in Wallets
  BY DEF ShapeInv
<1>4. Len(flush[f].ops) \in Nat \ {0} /\ Head(flush[f].ops) = flush[f].ops[1]
  BY <1>2, <1>3
<1> QED BY <1>1, <1>2, <1>3, <1>4

LEMMA GoFacts ==
    ASSUME Types, NEW f \in Ops, NEW pc \in Running, flush' = [flush EXCEPT ![f].pc = pc]
    PROVE  flush' \in [Ops -> Flushes] /\ Goes(f, pc)
<1> DEFINE v == [flush[f] EXCEPT !.pc = pc]
<1>1. pc \in FlushPCs /\ flush[f] \in Flushes /\ flush' = [flush EXCEPT ![f] = v]
  BY DEF Types, FlushPCs
<1>2. /\ v \in Flushes /\ v.pc = pc /\ v.ops = flush[f].ops
      /\ v.wallet = flush[f].wallet /\ v.i = flush[f].i
      /\ v.whole = flush[f].whole /\ v.out = flush[f].out
  BY <1>1 DEF Flushes
<1> HIDE DEF v
<1>3. flush' \in [Ops -> Flushes] /\ OnlyFlush(f) /\ flush'[f] = v
  BY <1>1, <1>2, FlushAssigned
<1> QED BY <1>2, <1>3 DEF Goes, Whole

LEMMA SettleFacts ==
    ASSUME Types, NEW f \in Ops, NEW r \in Answers, Settle(f, r)
    PROVE  flush' \in [Ops -> Flushes] /\ Settles(f, r)
<1> DEFINE F == flush[f]
           again == F.i = 0 /\ r = "err" /\ Len(F.ops) > 1
           a == [F EXCEPT !.pc = "lock", !.i = 1]
           b == [F EXCEPT !.pc = "answer", !.out = r, !.whole = (F.i = 0),
                          !.i = IF @ = 0 THEN 1 ELSE @]
           v == IF again THEN a ELSE b
<1>1. F \in Flushes /\ {"lock", "answer"} \subseteq FlushPCs
  BY DEF Types, FlushPCs, Running
<1>2. F.i \in Index /\ 1 \in Index /\ (F.i = 0) \in BOOLEAN
  BY <1>1, FlushFields DEF Index
<1>3. flush' = [flush EXCEPT ![f] = v]
  BY DEF Settle
<1>4. /\ a \in Flushes /\ a.pc = "lock" /\ a.i = 1 /\ a.ops = F.ops
      /\ a.wallet = F.wallet /\ a.whole = F.whole /\ a.out = F.out
  BY <1>1, <1>2 DEF Flushes
<1>5. /\ b \in Flushes /\ b.pc = "answer" /\ b.out = r /\ b.whole = (F.i = 0)
      /\ b.i = (IF F.i = 0 THEN 1 ELSE F.i) /\ b.ops = F.ops /\ b.wallet = F.wallet
  BY <1>1, <1>2 DEF Flushes
<1> HIDE DEF a, b
<1>6. v \in Flushes
  BY <1>4, <1>5
<1> HIDE DEF v
<1>7. flush' \in [Ops -> Flushes] /\ OnlyFlush(f) /\ flush'[f] = v
  BY <1>3, <1>6, FlushAssigned
<1>8. CASE again
  BY <1>4, <1>7, <1>8 DEF v, Settles, Whole
<1>9. CASE ~again
  BY <1>5, <1>7, <1>9 DEF v, Settles, Whole
<1> QED BY <1>7, <1>8, <1>9

LEMMA CurrentFacts ==
    ASSUME Types, ShapeInv, NEW f \in Ops, flush[f].pc # "none"
    PROVE  /\ CurrentOps(f) \subseteq Range(flush[f].ops)
           /\ CurrentOps(f) \subseteq Ops
           /\ Alone(f) \subseteq CurrentOps(f)
           /\ flush[f].i = 0 => CurrentOps(f) = Range(flush[f].ops)
           /\ flush[f].i # 0 => CurrentOps(f) = {flush[f].ops[flush[f].i]}
<1>1. /\ flush[f].ops \in Seq(Ops) /\ flush[f].i \in Nat
      /\ flush[f].i <= Len(flush[f].ops)
  BY FlushFacts
<1>2. flush[f].i = 0 \/ flush[f].i \in 1 .. Len(flush[f].ops)
  BY <1>1
<1>3. /\ Range(flush[f].ops) = {flush[f].ops[j] : j \in 1 .. Len(flush[f].ops)}
      /\ Range(flush[f].ops) \subseteq Ops
  BY <1>1, RangeFacts
<1>4. Alone(f) \subseteq CurrentOps(f)
  BY DEF Alone
<1>5. /\ flush[f].i = 0 => CurrentOps(f) = Range(flush[f].ops)
      /\ flush[f].i # 0 => CurrentOps(f) = {flush[f].ops[flush[f].i]}
  BY DEF CurrentOps, OpsOf
<1> QED BY <1>2, <1>3, <1>4, <1>5

LEMMA RequestClasses ==
    ASSUME Types, NEW o \in Ops, Request(o) \/ Cancel(o)
    PROVE  (Comes(o) \/ Offers(o) \/ Receives(o) \/ Leaves(o)) /\ Types'
<1> USE DEF Goto, chainVars, history, SameQueue, SameChain, SameHistory
<1>0. ASSUME NEW to \in ReqPCs, req' = [req EXCEPT ![o] = to]
      PROVE  req' \in [Ops -> ReqPCs] /\ OnlyReq(o, to)
  BY <1>0 DEF Types, OnlyReq
<1>p. {"load", "offer", "refused", "wait", "cancelled"} \subseteq ReqPCs
        /\ Answers \subseteq ReqPCs
  BY DEF ReqPCs
<1>1. CASE QueueFor(o) \/ PoolLoaded(o) \/ PoolFails(o)
  <2>1. PICK to \in {"load", "offer", "refused"} : req' = [req EXCEPT ![o] = to]
    BY <1>1 DEF QueueFor, PoolLoaded, PoolFails
  <2>2. req' \in [Ops -> ReqPCs] /\ OnlyReq(o, to)
    BY <1>0, <1>p, <2>1
  <2>3. /\ req[o] \in {"idle", "load", "offer"}
        /\ UNCHANGED <<flush, res>> /\ SameQueue /\ SameChain /\ SameHistory
        /\ mu' \in Ops \cup {NoOp} /\ started' \in BOOLEAN
    BY <1>1 DEF QueueFor, PoolLoaded, PoolFails, Types
  <2>4. Comes(o)
    BY <2>2, <2>3 DEF Comes
  <2> QED BY <2>2, <2>3, <2>4 DEF Types
<1>2. CASE Offer(o)
  <2>1. req' \in [Ops -> ReqPCs] /\ OnlyReq(o, "wait")
    BY <1>0, <1>2, <1>p DEF Offer
  <2>2. Offers(o)
    BY <1>2, <2>1 DEF Offer, Offers
  <2>3. ch' \in OpSeq /\ Len(ch') <= ChanCap
    BY <1>2, AppendFacts DEF Offer, Types, OpSeq
  <2> QED BY <1>2, <2>1, <2>2, <2>3 DEF Types, Offer
<1>3. CASE Receive(o)
  <2>1. res[o] \in Seq(Answers) /\ res[o] # <<>> /\ Len(res[o]) <= 1
    BY <1>3 DEF Types, AnswerSeq, Receive
  <2>2. Head(res[o]) \in Answers /\ Tail(res[o]) = <<>>
    BY <2>1
  <2>3. req' \in [Ops -> ReqPCs] /\ OnlyReq(o, Head(res[o]))
    BY <1>0, <1>3, <1>p, <2>2 DEF Receive
  <2>4. res' = [res EXCEPT ![o] = <<>>]
    BY <1>3, <2>2 DEF Receive
  <2>5. <<>> \in AnswerSeq /\ Len(<<>>) = 0
    BY DEF AnswerSeq
  <2>6. res' \in [Ops -> AnswerSeq] /\ \A p \in Ops : Len(res'[p]) <= 1
    BY <2>4, <2>5 DEF Types
  <2>7. Receives(o)
    BY <1>3, <2>3, <2>4 DEF Receive, Receives, Types
  <2> QED BY <1>3, <2>3, <2>6, <2>7 DEF Types, Receive
<1>4. CASE Cancel(o)
  <2>1. req' \in [Ops -> ReqPCs] /\ OnlyReq(o, "cancelled")
    BY <1>0, <1>4, <1>p DEF Cancel
  <2>2. Comes(o) \/ Leaves(o)
    BY <1>4, <2>1 DEF Cancel, Comes, Leaves
  <2> QED BY <1>4, <2>1, <2>2 DEF Types, Cancel
<1> QED BY <1>1, <1>2, <1>3, <1>4 DEF Request

LEMMA DispatchClasses ==
    ASSUME Types, ShapeInv, Dispatch
    PROVE  (Gathers \/ Closes \/ \E f \in Ops : Starts(f)) /\ Types'
<1> USE DEF requestVars, chainVars, history, SameChain, SameHistory
<1>0. /\ disp \in Dispatchers /\ disp.pc \in DispPCs /\ disp.batch \in Seq(Ops)
      /\ ch \in Seq(Ops) /\ Len(disp.batch) <= MaxBatch /\ Len(ch) <= ChanCap
  BY DispFields DEF Types, OpSeq
<1>p. {"recv", "drain", "sem"} = DispPCs /\ <<>> \in OpSeq
  BY DEF DispPCs, OpSeq
<1>1. CASE First \/ Drain
  <2>1. /\ ch # <<>> /\ Len(disp.batch) < MaxBatch
        /\ disp' = [pc |-> "drain", batch |-> Append(disp.batch, Head(ch))]
    <3>1. CASE First
      <4>1. disp.batch = <<>> /\ ch # <<>>
        BY <3>1 DEF First, ShapeInv
      <4>2. Append(<<>>, Head(ch)) = <<Head(ch)>> /\ Len(<<>>) = 0
        OBVIOUS
      <4> QED BY <3>1, <4>1, <4>2 DEF First
    <3>2. CASE Drain
      BY <1>0, <3>2 DEF Drain, Dispatchers
    <3> QED BY <1>1, <3>1, <3>2
  <2>2. /\ ch' = Tail(ch) /\ UNCHANGED <<req, mu, started, flush, res>>
        /\ SameChain /\ SameHistory
    BY <1>1 DEF First, Drain
  <2>3. /\ Append(disp.batch, Head(ch)) \in OpSeq
        /\ Len(Append(disp.batch, Head(ch))) <= MaxBatch
        /\ Tail(ch) \in OpSeq /\ Len(Tail(ch)) <= ChanCap
    BY <1>0, <2>1, AppendFacts, TailFacts DEF OpSeq
  <2>4. disp' \in Dispatchers /\ disp'.pc = "drain"
          /\ disp'.batch = Append(disp.batch, Head(ch))
    BY <1>p, <2>1, <2>3 DEF Dispatchers
  <2>5. Gathers
    BY <2>1, <2>2, <2>4 DEF Gathers
  <2> QED BY <2>2, <2>3, <2>4, <2>5 DEF Types
<1>2. CASE Drained
  <2>1. disp' \in Dispatchers /\ disp'.pc = "sem" /\ disp'.batch = disp.batch
    BY <1>0, <1>2, <1>p DEF Drained, Dispatchers
  <2>2. Closes
    BY <1>2, <2>1 DEF Drained, Closes
  <2> QED BY <1>2, <2>1, <2>2 DEF Types, Drained
<1>3. ASSUME NEW w \in Wallets, StartFlush(w)
      PROVE  (\E f \in Ops : Starts(f)) /\ Types'
  <2> DEFINE v == [Idle EXCEPT !.pc = "lock", !.ops = disp.batch, !.wallet = w]
  <2>1. disp.pc = "sem" /\ disp.batch # <<>>
    BY <1>3 DEF StartFlush, ShapeInv
  <2>2. PICK f \in Ops : f = Head(disp.batch)
    BY <1>0, <2>1
  <2>3. flush' = [flush EXCEPT ![f] = v]
    BY <1>3, <2>2 DEF StartFlush
  <2>4. /\ "lock" \in FlushPCs /\ disp.batch \in OpSeq /\ w \in WalletSet /\ 0 \in Index
        /\ FALSE \in BOOLEAN /\ "err" \in Answers
    BY <1>0 DEF FlushPCs, Running, OpSeq, WalletSet, Index, Answers
  <2>5. /\ v \in Flushes /\ v.pc = "lock" /\ v.ops = disp.batch /\ v.wallet = w
        /\ v.i = 0 /\ v.whole = FALSE /\ v.out = "err"
    BY <2>4 DEF Idle, Flushes
  <2> HIDE DEF v
  <2>6. flush' \in [Ops -> Flushes] /\ OnlyFlush(f) /\ flush'[f] = v
    BY <2>2, <2>3, <2>5, FlushAssigned
  <2>7. disp' = [pc |-> "recv", batch |-> <<>>]
    BY <1>3 DEF StartFlush
  <2>8. disp' \in Dispatchers /\ disp'.pc = "recv" /\ disp'.batch = <<>>
    BY <1>p, <2>7 DEF Dispatchers
  <2>9. Len(disp'.batch) <= MaxBatch
    BY <2>8
  <2>10. Starts(f)
    BY <1>3, <2>1, <2>2, <2>5, <2>6, <2>8 DEF StartFlush, Starts, Whole
  <2> QED BY <1>3, <2>6, <2>8, <2>9, <2>10 DEF StartFlush, Types
<1> QED BY <1>1, <1>2, <1>3 DEF Dispatch

LEMMA TakeFacts ==
    ASSUME Types, ShapeInv, NEW f \in Ops, Sent(f), UNCHANGED <<mined, executed, bad>>
    PROVE  /\ Takes(f)
           /\ line' \in [Wallets -> TxSeq]
           /\ sends' \in [Ops -> Nat]
<1> DEFINE w == flush[f].wallet
           t == <<f, flush[f].i>>
<1>1. /\ flush[f].pc = "submit" /\ CurrentOps(f) \cap (bad \cup executed) = {}
      /\ line' = [line EXCEPT ![w] = Append(@, t)]
      /\ sends' = [o \in Ops |-> IF o \in CurrentOps(f) THEN sends[o] + 1 ELSE sends[o]]
  BY DEF Sent
<1>2. w \in Wallets /\ flush[f] \in Flushes
  BY <1>1, FlushFacts
<1>3. t \in Txs
  BY <1>2, FlushFields DEF Txs
<1>4. line \in [Wallets -> TxSeq] /\ sends \in [Ops -> Nat]
  BY DEF Types
<1> HIDE DEF w, t
<1>5. Append(line[w], t) \in TxSeq
  BY <1>2, <1>3, <1>4 DEF TxSeq
<1>6. line' \in [Wallets -> TxSeq]
  BY <1>1, <1>2, <1>4, <1>5
<1>7. \A v \in Wallets : line'[v] = IF v = w THEN Append(line[v], t) ELSE line[v]
  BY <1>1, <1>2, <1>4
<1>8. sends' \in [Ops -> Nat]
  BY <1>1, <1>4
<1>9. \A o \in Ops : sends'[o] = IF o \in CurrentOps(f) THEN sends[o] + 1 ELSE sends[o]
  BY <1>1
<1> QED BY <1>1, <1>6, <1>7, <1>8, <1>9 DEF Takes, w, t

LEMMA AnswerClass ==
    ASSUME Types, ShapeInv, NEW f \in Ops, Answer(f)
    PROVE  Replies(f) /\ Types'
<1> DEFINE F == flush[f]
           o == F.ops[F.i]
           a == [F EXCEPT !.pc = "done"]
           b == [F EXCEPT !.i = @ + 1, !.pc = IF F.whole THEN "answer" ELSE "lock"]
           v == IF F.i = Len(F.ops) THEN a ELSE b
<1>1. /\ F.pc = "answer" /\ res[o] = <<>>
      /\ res' = [res EXCEPT ![o] = Append(@, F.out)]
      /\ flush' = [flush EXCEPT ![f] = v]
      /\ UNCHANGED <<req, mu, started>> /\ SameQueue /\ SameChain /\ SameHistory
  BY DEF Answer, requestVars, chainVars, history, SameQueue, SameChain, SameHistory
<1>2. /\ F \in Flushes /\ F.ops \in Seq(Ops) /\ F.i \in 1 .. Len(F.ops)
      /\ Len(F.ops) \in Nat /\ Len(F.ops) <= MaxBatch
  <2>1. F.i # 0
    BY <1>1 DEF ShapeInv
  <2> QED BY <1>1, <2>1, FlushFacts
<1>3. o \in Ops /\ F.out \in Answers
  BY <1>2, FlushFields
<1>4. Append(<<>>, F.out) = <<F.out>> /\ <<F.out>> \in AnswerSeq /\ Len(<<F.out>>) = 1
  BY <1>3 DEF AnswerSeq
<1>5. res' = [res EXCEPT ![o] = <<F.out>>]
  BY <1>1, <1>4
<1> HIDE DEF o
<1>6. /\ \A p \in Ops : res'[p] = IF p = o THEN <<F.out>> ELSE res[p]
      /\ res' \in [Ops -> AnswerSeq] /\ \A p \in Ops : Len(res'[p]) <= 1
  BY <1>3, <1>4, <1>5 DEF Types
<1>p. {"answer", "lock", "done"} \subseteq FlushPCs
  BY DEF FlushPCs, Running
<1>7. /\ a \in Flushes /\ a.pc = "done" /\ a.i = F.i /\ a.ops = F.ops
      /\ a.wallet = F.wallet /\ a.whole = F.whole /\ a.out = F.out
  BY <1>2, <1>p DEF Flushes
<1>8. F.i # Len(F.ops) => F.i + 1 \in Index /\ F.i < Len(F.ops)
  BY <1>2 DEF Index
<1>9. F.i # Len(F.ops) =>
      /\ b \in Flushes /\ b.i = F.i + 1 /\ b.ops = F.ops
      /\ b.pc = (IF F.whole THEN "answer" ELSE "lock")
      /\ b.wallet = F.wallet /\ b.whole = F.whole /\ b.out = F.out
  BY <1>2, <1>p, <1>8 DEF Flushes
<1> HIDE DEF a, b
<1>10. v \in Flushes
  BY <1>7, <1>9
<1> HIDE DEF v
<1>11. flush' \in [Ops -> Flushes] /\ OnlyFlush(f) /\ flush'[f] = v
  BY <1>1, <1>10, FlushAssigned
<1>12. \/ /\ F.i = Len(F.ops)
          /\ flush'[f].pc = "done" /\ flush'[f].i = F.i
       \/ /\ F.i < Len(F.ops)
          /\ flush'[f].pc = IF F.whole THEN "answer" ELSE "lock"
          /\ flush'[f].i = F.i + 1
  BY <1>7, <1>8, <1>9, <1>11 DEF v
<1>13. /\ flush'[f].ops = F.ops /\ flush'[f].wallet = F.wallet
       /\ flush'[f].whole = F.whole /\ flush'[f].out = F.out
  BY <1>7, <1>9, <1>11 DEF v
<1>w. \/ /\ F.i = Len(F.ops)
          /\ flush'[f].pc = "done" /\ flush'[f].i = F.i
       \/ /\ F.i < Len(F.ops)
          /\ flush'[f].pc = IF Whole(f) THEN "answer" ELSE "lock"
          /\ flush'[f].i = F.i + 1
  <2>1. F.whole \in BOOLEAN
    BY <1>2, FlushFields
  <2> QED BY <1>12, <2>1 DEF Whole
<1>14. Replies(f)
  BY <1>1, <1>6, <1>11, <1>13, <1>w DEF Replies, o, Whole
<1> QED BY <1>1, <1>6, <1>11, <1>14 DEF Types, SameQueue, SameChain, SameHistory

LEMMA FlushClasses ==
    ASSUME Types, ShapeInv, NEW f \in Ops, Flush(f)
    PROVE  /\ \/ Locks(f) \/ Breaks(f) \/ Reverts(f) \/ Sends(f) \/ Loses(f)
              \/ Ends(f) \/ GivesUp(f) \/ Replies(f)
           /\ Types'
<1> USE DEF requestVars, chainVars, history, SameQueue, SameChain, SameHistory,
            SameRequests
<1>a. {"err", "ok"} \subseteq Answers /\ {"submit", "wait"} \subseteq Running
  BY DEF Answers, Running
<1>c. flush[f].pc # "none" =>
         /\ faulted \cup Alone(f) \subseteq Ops /\ unsure \cup CurrentOps(f) \subseteq Ops
  BY CurrentFacts DEF Types
<1>1. CASE Locked(f)
  <2>1. flush' \in [Ops -> Flushes] /\ Goes(f, "submit")
    BY <1>1, <1>a, GoFacts DEF Locked
  <2>2. Locks(f)
    BY <1>1, <2>1 DEF Locked, Locks
  <2> QED BY <1>1, <2>1, <2>2 DEF Locked, Types
<1>2. CASE Outage(f)
  <2>1. flush[f].pc \in {"lock", "submit"} /\ Settle(f, "err")
    BY <1>2 DEF Outage
  <2>2. flush' \in [Ops -> Flushes] /\ Settles(f, "err")
    BY <1>a, <2>1, SettleFacts
  <2>3. Breaks(f)
    BY <1>2, <2>1, <2>2 DEF Outage, Breaks
  <2> QED BY <1>2, <1>c, <2>1, <2>2, <2>3 DEF Outage, Types
<1>3. CASE EstimateReverts(f)
  <2>1. flush' \in [Ops -> Flushes] /\ Settles(f, "err")
    BY <1>3, <1>a, SettleFacts DEF EstimateReverts
  <2>2. Reverts(f)
    BY <1>3, <2>1 DEF EstimateReverts, Reverts
  <2> QED BY <1>3, <2>1, <2>2 DEF EstimateReverts, Types
<1>4. CASE Broadcast(f)
  <2>1. flush' \in [Ops -> Flushes] /\ Goes(f, "wait")
    BY <1>4, <1>a, GoFacts DEF Broadcast
  <2>2. Takes(f) /\ line' \in [Wallets -> TxSeq] /\ sends' \in [Ops -> Nat]
    BY <1>4, TakeFacts DEF Broadcast
  <2>3. Sends(f)
    BY <1>4, <2>1, <2>2 DEF Broadcast, Sends
  <2> QED BY <1>4, <2>1, <2>2, <2>3 DEF Broadcast, Types
<1>5. CASE BroadcastLostReply(f)
  <2>1. flush' \in [Ops -> Flushes] /\ Settles(f, "err")
    BY <1>5, <1>a, SettleFacts DEF BroadcastLostReply
  <2>2. Takes(f) /\ line' \in [Wallets -> TxSeq] /\ sends' \in [Ops -> Nat]
    BY <1>5, TakeFacts DEF BroadcastLostReply
  <2>3. Loses(f)
    BY <1>5, <2>1, <2>2 DEF BroadcastLostReply, Loses
  <2>4. flush[f].pc # "none"
    BY <2>2 DEF Takes
  <2> QED BY <1>5, <1>c, <2>1, <2>2, <2>3, <2>4 DEF BroadcastLostReply, Types
<1>6. CASE WaitMined(f)
  <2>1. flush' \in [Ops -> Flushes] /\ Settles(f, "ok")
    BY <1>6, <1>a, SettleFacts DEF WaitMined
  <2>2. Ends(f)
    BY <1>6, <2>1 DEF WaitMined, Ends
  <2> QED BY <1>6, <2>1, <2>2 DEF WaitMined, Types
<1>7. CASE WaitTimeout(f)
  <2>1. flush' \in [Ops -> Flushes] /\ Settles(f, "err") /\ flush[f].pc # "none"
    BY <1>7, <1>a, SettleFacts DEF WaitTimeout
  <2>2. GivesUp(f)
    BY <1>7, <2>1 DEF WaitTimeout, GivesUp
  <2> QED BY <1>7, <1>c, <2>1, <2>2 DEF WaitTimeout, Types
<1>8. CASE Answer(f)
  BY <1>8, AnswerClass
<1> QED BY <1>1, <1>2, <1>3, <1>4, <1>5, <1>6, <1>7, <1>8 DEF Flush

\* The ops of a submission of a flush that was started.
LEMMA OpsOfFacts ==
    ASSUME Types, ShapeInv, NEW f \in Ops, NEW i \in Nat,
           flush[f].pc # "none", i <= Len(flush[f].ops)
    PROVE  OpsOf(f, i) \subseteq Range(flush[f].ops) /\ OpsOf(f, i) \subseteq Ops
<1>1. flush[f].ops \in Seq(Ops) /\ Len(flush[f].ops) \in Nat
  BY FlushFacts
<1>2. /\ Range(flush[f].ops) = {flush[f].ops[j] : j \in 1 .. Len(flush[f].ops)}
      /\ Range(flush[f].ops) \subseteq Ops
  BY <1>1, RangeFacts
<1>3. i = 0 \/ i \in 1 .. Len(flush[f].ops)
  BY <1>1
<1> QED BY <1>2, <1>3 DEF OpsOf

LEMMA NextTx ==
    ASSUME Types, ShapeInv, TxInv, NEW w \in Wallets, line[w] # <<>>
    PROVE  LET t == Head(line[w]) IN
           /\ t \in Range(line[w]) /\ t[1] \in Ops /\ t[2] \in Nat /\ t \in Txs
           /\ flush[t[1]].pc # "none" /\ t[2] <= Len(flush[t[1]].ops)
           /\ OpsOf(t[1], t[2]) \subseteq Ops
           /\ \A o \in OpsOf(t[1], t[2]) : sends[o] > 0
           /\ Tail(line[w]) \in TxSeq
           /\ Range(line[w]) = {t} \cup Range(Tail(line[w]))
<1> DEFINE t == Head(line[w])
<1>1. line[w] \in Seq(Txs)
  BY DEF Types, TxSeq
<1>2. /\ t \in Txs /\ Tail(line[w]) \in Seq(Txs)
      /\ Range(line[w]) = {t} \cup Range(Tail(line[w]))
  BY <1>1, TailFacts
<1>3. t[1] \in Ops /\ t[2] \in Nat
  BY <1>2 DEF Txs, Index
<1> HIDE DEF t
<1>4. t \in Range(line[w])
  BY <1>2
<1>5. /\ flush[t[1]].pc # "none" /\ t[2] <= Len(flush[t[1]].ops)
      /\ \A o \in OpsOf(t[1], t[2]) : sends[o] > 0
  BY <1>4 DEF TxInv
<1>6. OpsOf(t[1], t[2]) \subseteq Ops
  BY <1>3, <1>5, OpsOfFacts
<1> QED BY <1>2, <1>3, <1>4, <1>5, <1>6 DEF t, TxSeq

LEMMA NextClasses ==
    ASSUME Types, ShapeInv, TxInv, Next
    PROVE  Class /\ Types'
<1> USE DEF requestVars, chainVars, history, SameQueue, SameChain, SameHistory,
            SameRequests
<1>1. ASSUME NEW o \in Ops, Request(o) \/ Cancel(o)
      PROVE  Class /\ Types'
  BY <1>1, RequestClasses DEF Class
<1>2. CASE Dispatch
  BY <1>2, DispatchClasses DEF Class
<1>3. ASSUME NEW f \in Ops, Flush(f)
      PROVE  Class /\ Types'
  BY <1>3, FlushClasses DEF Class
<1>4. ASSUME NEW w \in Wallets, Mine(w)
      PROVE  Class /\ Types'
  <2> DEFINE t == Head(line[w])
             S == OpsOf(t[1], t[2])
  <2>1. /\ line[w] # <<>>
        /\ line' = [line EXCEPT ![w] = Tail(@)]
        /\ mined' = mined \cup {t}
        /\ executed' = IF S \cap (bad \cup executed) = {} THEN executed \cup S
                                                          ELSE executed
        /\ UNCHANGED <<req, mu, started, ch, disp, flush, res, bad, sends, unsure, faulted>>
    BY <1>4 DEF Mine
  <2>2. t \in Txs /\ S \subseteq Ops /\ Tail(line[w]) \in TxSeq
    BY <2>1, NextTx
  <2> HIDE DEF t, S
  <2>3. \A v \in Wallets : line'[v] = IF v = w THEN Tail(line[v]) ELSE line[v]
    BY <2>1 DEF Types
  <2>4. line' \in [Wallets -> TxSeq] /\ mined' \subseteq Txs /\ executed' \subseteq Ops
    BY <2>1, <2>2 DEF Types
  <2>5. Mines(w)
    BY <2>1, <2>3 DEF Mines, t, S
  <2> QED BY <2>1, <2>4, <2>5 DEF Types, Class
<1>5. ASSUME NEW o \in Ops, Spoil(o)
      PROVE  Class /\ Types'
  <2>1. Spoils
    BY <1>5 DEF Spoil, Spoils
  <2> QED BY <1>5, <2>1 DEF Class, Types, Spoil
<1> QED BY <1>1, <1>2, <1>3, <1>4, <1>5 DEF Next

-----------------------------------------------------------------------------
(***************************************************************************)
(* The parts of the invariant, step by step.                               *)
(***************************************************************************)
\* A flush on its way to an answer.
Progress(f) ==
    /\ flush[f].pc \in {"lock", "submit", "wait"}
    /\ OnlyFlush(f)
    /\ flush'[f].pc \in Running
    /\ flush'[f].ops = flush[f].ops /\ flush'[f].wallet = flush[f].wallet
    /\ \/ flush'[f].i = flush[f].i
       \/ flush[f].i = 0 /\ flush'[f].i = 1
    /\ SameRequests /\ SameQueue

Advances(f) ==
    Locks(f) \/ Breaks(f) \/ Reverts(f) \/ Sends(f) \/ Loses(f) \/ Ends(f) \/ GivesUp(f)

LEMMA AdvanceFacts ==
    ASSUME NEW f \in Ops, Advances(f)
    PROVE  Progress(f)
<1> USE DEF Running, Progress
<1>1. CASE Locks(f)
  BY <1>1 DEF Locks, Goes
<1>2. CASE Sends(f)
  BY <1>2 DEF Sends, Goes, Takes
<1>3. ASSUME NEW r, Settles(f, r), flush[f].pc \in {"lock", "submit", "wait"},
             SameRequests, SameQueue
      PROVE  Progress(f)
  BY <1>3 DEF Settles
<1>4. CASE Breaks(f) \/ Reverts(f)
  BY <1>3, <1>4 DEF Breaks, Reverts
<1>5. CASE Loses(f) \/ Ends(f) \/ GivesUp(f)
  BY <1>3, <1>5 DEF Loses, Ends, GivesUp, Takes
<1> QED BY <1>1, <1>2, <1>4, <1>5 DEF Advances

\* What does not concern the flushes.
Else ==
    \/ \E o \in Ops : Comes(o) \/ Offers(o) \/ Receives(o) \/ Leaves(o)
    \/ Gathers \/ Closes
    \/ \E w \in Wallets : Mines(w)
    \/ Spoils

LEMMA ElseFacts ==
    ASSUME Class
    PROVE  \/ Else /\ UNCHANGED flush
           \/ \E f \in Ops : Starts(f) \/ Advances(f) \/ Replies(f)
<1>1. Else \/ \E f \in Ops : Starts(f) \/ Advances(f) \/ Replies(f)
  BY DEF Class, Else, Advances
<1>2. Else => UNCHANGED flush
  BY DEF Else, Comes, Offers, Receives, Leaves, Gathers, Closes, Mines, Spoils
<1> QED BY <1>1, <1>2

LEMMA StepShape ==
    ASSUME Types, ShapeInv, Class
    PROVE  ShapeInv'
<1> DEFINE Disp == disp.pc = "recv" <=> disp.batch = <<>>
           Shape(f) ==
               /\ flush[f].pc = "none" => flush[f].ops = <<>>
               /\ flush[f].pc # "none" =>
                     /\ flush[f].ops # <<>> /\ flush[f].ops[1] = f
                     /\ Len(flush[f].ops) <= MaxBatch
                     /\ flush[f].i <= Len(flush[f].ops)
                     /\ flush[f].wallet \in Wallets
               /\ flush[f].i = 0 => flush[f].pc \notin {"answer", "done"}
               /\ Whole(f) => flush[f].pc \in {"answer", "done"}
               /\ Whole(f) /\ flush[f].out = "err" => Len(flush[f].ops) = 1
               /\ flush[f].pc = "done" => flush[f].i = Len(flush[f].ops)
<1>0. Disp /\ \A f \in Ops : Shape(f)
  BY DEF ShapeInv
<1>b. disp.batch \in Seq(Ops) /\ Len(disp.batch) <= MaxBatch /\ ch \in Seq(Ops)
  BY DispFields DEF Types, OpSeq
<1>1. Disp'
  <2>1. CASE Gathers
    BY <1>b, <2>1, AppendFacts, TailFacts DEF Gathers
  <2>2. CASE Closes
    BY <1>0, <2>2 DEF Closes
  <2>3. ASSUME NEW f \in Ops, Starts(f)
        PROVE  Disp'
    BY <2>3 DEF Starts
  <2>4. CASE ~Gathers /\ ~Closes /\ \A f \in Ops : ~Starts(f)
    <3>1. UNCHANGED disp
      BY <2>4 DEF Class, Comes, Offers, Receives, Leaves, Locks, Breaks, Reverts, Sends,
                  Loses, Ends, GivesUp, Replies, Mines, Spoils, SameQueue
    <3> QED BY <1>0, <3>1
  <2> QED BY <2>1, <2>2, <2>3, <2>4
<1>2. CASE UNCHANGED flush
  BY <1>0, <1>1, <1>2 DEF ShapeInv, Whole
<1>3. ASSUME NEW f \in Ops, Starts(f)
      PROVE  ShapeInv'
  <2>1. disp.batch # <<>>
    BY <1>0, <1>3 DEF Starts
  <2>2. f = disp.batch[1] /\ Len(disp.batch) \in Nat
    BY <1>3, <1>b, <2>1 DEF Starts
  <2>3. Shape(f)'
    BY <1>3, <1>b, <2>1, <2>2 DEF Starts
  <2>4. \A g \in Ops : g # f => Shape(g)'
    BY <1>0, <1>3 DEF Starts, OnlyFlush, Whole
  <2> QED BY <1>1, <2>3, <2>4 DEF ShapeInv
<1>4. ASSUME NEW f \in Ops, Advances(f) \/ Replies(f)
      PROVE  ShapeInv'
  <2>0. OnlyFlush(f) /\ flush[f].pc # "none"
    BY <1>4, AdvanceFacts DEF Progress, Replies
  <2>1. \A g \in Ops : g # f => Shape(g)'
    BY <1>0, <2>0 DEF OnlyFlush, Whole
  <2>2. Shape(f) /\ Len(flush[f].ops) \in Nat \ {0} /\ flush[f].i \in Nat
    BY <1>0, <2>0, FlushFacts
  <2>3. ASSUME NEW r \in Answers, Settles(f, r), flush[f].pc \in {"lock", "submit", "wait"}
        PROVE  Shape(f)'
    <3>1. ~Whole(f)
      BY <2>2, <2>3
    <3>2. CASE /\ flush[f].i = 0 /\ r = "err" /\ Len(flush[f].ops) > 1
               /\ flush'[f].pc = "lock" /\ flush'[f].i = 1
               /\ (Whole(f)' <=> Whole(f))
      BY <2>2, <2>3, <3>1, <3>2 DEF Settles
    <3>3. CASE /\ ~(flush[f].i = 0 /\ r = "err" /\ Len(flush[f].ops) > 1)
               /\ flush'[f].pc = "answer" /\ flush'[f].out = r
               /\ (Whole(f)' <=> flush[f].i = 0)
               /\ flush'[f].i = IF flush[f].i = 0 THEN 1 ELSE flush[f].i
      <4>1. /\ flush'[f].i \in Nat \ {0} /\ flush'[f].i <= Len(flush[f].ops)
            /\ flush'[f].ops = flush[f].ops /\ flush'[f].wallet = flush[f].wallet
        BY <2>2, <2>3, <3>3 DEF Settles
      <4>2. flush[f].i = 0 /\ r = "err" => Len(flush[f].ops) = 1
        <5> DEFINE n == Len(flush[f].ops)
        <5>1. n \in Nat \ {0} /\ ~(flush[f].i = 0 /\ r = "err" /\ n > 1)
          BY <2>2, <3>3
        <5> HIDE DEF n
        <5>2. ~(n > 1) => n = 1
          BY <5>1
        <5>3. flush[f].i = 0 /\ r = "err" => n = 1
          BY <5>1, <5>2
        <5> QED BY <5>3 DEF n
      <4> QED BY <2>0, <2>2, <3>3, <4>1, <4>2
    <3> QED BY <2>3, <3>2, <3>3 DEF Settles
  <2>4. Shape(f)'
    <3>1. CASE Locks(f) \/ Sends(f)
      BY <2>2, <3>1 DEF Locks, Sends, Takes, Goes
    <3>2. CASE Breaks(f) \/ Reverts(f) \/ Loses(f) \/ Ends(f) \/ GivesUp(f)
      BY <2>3, <3>2 DEF Breaks, Reverts, Loses, Ends, GivesUp, Takes, Answers
    <3>3. CASE Replies(f)
      <4>1. /\ flush'[f].ops = flush[f].ops /\ flush'[f].wallet = flush[f].wallet
            /\ (Whole(f)' <=> Whole(f)) /\ flush'[f].out = flush[f].out
            /\ flush[f].pc = "answer"
        BY <3>3 DEF Replies
      <4>2. CASE flush[f].i = Len(flush[f].ops) /\ flush'[f].pc = "done"
                   /\ flush'[f].i = flush[f].i
        BY <2>2, <4>1, <4>2
      <4>3. CASE /\ flush[f].i < Len(flush[f].ops) /\ flush'[f].i = flush[f].i + 1
                 /\ flush'[f].pc = IF Whole(f) THEN "answer" ELSE "lock"
        BY <2>2, <4>1, <4>3
      <4> QED BY <3>3, <4>2, <4>3 DEF Replies
    <3> QED BY <1>4, <3>1, <3>2, <3>3 DEF Advances
  <2> QED BY <1>1, <2>1, <2>4 DEF ShapeInv
<1> QED BY <1>2, <1>3, <1>4, ElseFacts

\* The ops of a flush that runs, by where they are.
LEMMA UnansweredFacts ==
    ASSUME Types, ShapeInv, NEW f \in Ops
    PROVE  /\ Unanswered(f) \subseteq Range(flush[f].ops)
           /\ flush[f].pc \notin Running => Unanswered(f) = {}
           /\ flush[f].pc \in Running =>
                 Unanswered(f) = {flush[f].ops[j] :
                     j \in (IF flush[f].i = 0 THEN 1 ELSE flush[f].i) .. Len(flush[f].ops)}
           /\ flush[f].pc \in Running /\ flush[f].i = 0 =>
                 Unanswered(f) = Range(flush[f].ops)
           /\ flush[f].pc \in Running => CurrentOps(f) \subseteq Unanswered(f)
<1>1. CASE flush[f].pc \notin Running
  BY <1>1 DEF Unanswered, InFlight
<1>2. CASE flush[f].pc \in Running
  <2> DEFINE s == flush[f].ops
             i == flush[f].i
             k == IF i = 0 THEN 1 ELSE i
  <2>1. flush[f].pc # "none"
    BY <1>2 DEF Running
  <2>2. s \in Seq(Ops) /\ i \in Nat /\ i <= Len(s) /\ Len(s) \in Nat \ {0}
    BY <2>1, FlushFacts
  <2>3. Range(s) = {s[j] : j \in 1 .. Len(s)}
    BY <2>2, RangeFacts
  <2>4. Unanswered(f) = {s[j] : j \in k .. Len(s)}
    BY <1>2 DEF Unanswered, InFlight
  <2>5. CurrentOps(f) = IF i = 0 THEN Range(s) ELSE {s[i]}
    BY DEF CurrentOps, OpsOf
  <2> HIDE DEF s
  <2>6. \A j \in k .. Len(s) : j \in 1 .. Len(s)
    BY <2>2
  <2>7. i # 0 => i \in k .. Len(s)
    BY <2>2
  <2> HIDE DEF i
  <2>8. Unanswered(f) \subseteq Range(s)
    BY <2>3, <2>4, <2>6
  <2>9. i = 0 => Unanswered(f) = Range(s)
    BY <2>3, <2>4
  <2>10. CurrentOps(f) \subseteq Unanswered(f)
    BY <2>4, <2>5, <2>7, <2>9
  <2> QED BY <1>2, <2>4, <2>8, <2>9, <2>10 DEF s, i
<1> QED BY <1>1, <1>2

LEMMA SameUnanswered ==
    ASSUME NEW g \in Ops, flush'[g] = flush[g]
    PROVE  Unanswered(g)' = Unanswered(g)
  BY DEF Unanswered, InFlight

LEMMA ProgressFacts ==
    ASSUME Types, ShapeInv, Types', ShapeInv', NEW f \in Ops, Progress(f)
    PROVE  /\ \A g \in Ops : flush'[g].ops = flush[g].ops
           /\ \A g \in Ops : Unanswered(g)' = Unanswered(g)
           /\ flush[f].pc \in Running
<1>1. \A g \in Ops : flush'[g].ops = flush[g].ops
  BY DEF Progress, OnlyFlush
<1>2. \A g \in Ops : g # f => Unanswered(g)' = Unanswered(g)
  BY SameUnanswered DEF Progress, OnlyFlush
<1>3. flush[f].pc \in Running /\ flush'[f].pc \in Running
  BY DEF Progress, Running
<1>4. Unanswered(f) = {flush[f].ops[j] :
         j \in (IF flush[f].i = 0 THEN 1 ELSE flush[f].i) .. Len(flush[f].ops)}
  BY <1>3, UnansweredFacts
<1>5. Unanswered(f)' = {flush'[f].ops[j] :
         j \in (IF flush'[f].i = 0 THEN 1 ELSE flush'[f].i) .. Len(flush'[f].ops)}
  BY <1>3 DEF Unanswered, InFlight
<1>6. (IF flush'[f].i = 0 THEN 1 ELSE flush'[f].i) =
      (IF flush[f].i = 0 THEN 1 ELSE flush[f].i)
  BY DEF Progress
<1>7. Unanswered(f)' = Unanswered(f)
  BY <1>1, <1>4, <1>5, <1>6
<1> QED BY <1>1, <1>2, <1>3, <1>7

\* The flush that is about to start has not been started before.
LEMMA StartFacts ==
    ASSUME Types, ShapeInv, PlaceInv, NEW f \in Ops, Starts(f)
    PROVE  /\ flush[f].pc = "none" /\ flush[f].ops = <<>>
           /\ f \in Range(disp.batch) /\ disp.batch \in Seq(Ops) /\ disp.batch # <<>>
           /\ Unanswered(f) = {}
<1>1. disp.batch # <<>> /\ disp.batch \in Seq(Ops)
  BY DispFields DEF Types, OpSeq, ShapeInv, Starts
<1>2. f \in Range(disp.batch)
  BY <1>1, TailFacts DEF Starts
<1>3. flush[f].pc = "none"
  <2> SUFFICES ASSUME flush[f].pc # "none"
               PROVE  FALSE
    OBVIOUS
  <2>1. flush[f].ops \in Seq(Ops) /\ flush[f].ops # <<>> /\ Head(flush[f].ops) = f
    BY FlushFacts
  <2>2. f \in Range(flush[f].ops)
    BY <2>1, TailFacts
  <2> QED BY <1>2, <2>2 DEF PlaceInv
<1>4. Unanswered(f) = {}
  BY <1>3, UnansweredFacts DEF Running
<1> QED BY <1>1, <1>2, <1>3, <1>4 DEF ShapeInv

LEMMA StepPlace ==
    ASSUME Types, ShapeInv, Types', ShapeInv', PlaceInv, ReqInv, Class
    PROVE  PlaceInv'
<1>b. disp.batch \in Seq(Ops) /\ ch \in Seq(Ops)
  BY DispFields DEF Types, OpSeq
<1>e. Range(<<>>) = {} /\ Once(<<>>)
  BY DEF Range, Once
<1>1. ASSUME ch' = ch, disp'.batch = disp.batch,
             \A f \in Ops : flush'[f].ops = flush[f].ops
      PROVE  PlaceInv'
  BY <1>1 DEF PlaceInv, Once
<1>2. ASSUME NEW o \in Ops, Comes(o) \/ Receives(o) \/ Leaves(o)
      PROVE  PlaceInv'
  BY <1>1, <1>2 DEF Comes, Receives, Leaves, SameQueue
<1>3. ASSUME NEW o \in Ops, Offers(o)
      PROVE  PlaceInv'
  <2>1. ch' = Append(ch, o) /\ UNCHANGED <<disp, flush>> /\ req[o] = "offer"
    BY <1>3 DEF Offers
  <2>2. ~Waiting(o) /\ ~Flushed(o)
    BY <2>1 DEF ReqInv
  <2>3. /\ o \notin Range(ch) \cup Range(disp.batch)
        /\ \A f \in Ops : o \notin Range(flush[f].ops)
    BY <2>2 DEF Waiting, Flushed
  <2>4. Range(ch') = Range(ch) \cup {o} /\ Once(ch')
    BY <1>b, <2>1, <2>3, AppendFacts DEF PlaceInv
  <2>5. /\ Once(disp'.batch) /\ \A f \in Ops : Once(flush'[f].ops)
    BY <2>1 DEF PlaceInv
  <2>6. Range(disp'.batch) = Range(disp.batch)
          /\ \A f \in Ops : Range(flush'[f].ops) = Range(flush[f].ops)
    BY <2>1
  <2> QED BY <2>3, <2>4, <2>5, <2>6 DEF PlaceInv
<1>4. CASE Gathers
  <2> DEFINE o == Head(ch)
  <2>1. /\ ch # <<>> /\ disp'.batch = Append(disp.batch, o) /\ ch' = Tail(ch)
        /\ UNCHANGED flush
    BY <1>4 DEF Gathers
  <2>2. /\ o \in Ops /\ Range(ch) = {o} \cup Range(ch')
        /\ Once(ch') /\ o \notin Range(ch')
    BY <1>b, <2>1, TailFacts DEF PlaceInv
  <2>3. o \notin Range(disp.batch)
    BY <2>2 DEF PlaceInv
  <2>4. Range(disp'.batch) = Range(disp.batch) \cup {o} /\ Once(disp'.batch)
    BY <1>b, <2>1, <2>2, <2>3, AppendFacts DEF PlaceInv
  <2>5. \A f \in Ops : Once(flush'[f].ops)
    BY <2>1 DEF PlaceInv
  <2> HIDE DEF o
  <2>6. Range(ch') \cap Range(disp'.batch) = {}
    BY <2>2, <2>4 DEF PlaceInv
  <2>7. Range(ch') \cup Range(disp'.batch) = Range(ch) \cup Range(disp.batch)
    BY <2>2, <2>4
  <2> QED BY <2>1, <2>2, <2>4, <2>5, <2>6, <2>7 DEF PlaceInv
<1>5. CASE Closes
  BY <1>1, <1>5 DEF Closes
<1>6. ASSUME NEW f \in Ops, Starts(f)
      PROVE  PlaceInv'
  <2>1. /\ disp'.batch = <<>> /\ ch' = ch /\ flush'[f].ops = disp.batch
        /\ \A g \in Ops : g # f => flush'[g].ops = flush[g].ops
    BY <1>6 DEF Starts, OnlyFlush
  <2>2. Once(ch') /\ Once(disp'.batch) /\ \A g \in Ops : Once(flush'[g].ops)
    BY <1>e, <2>1 DEF PlaceInv
  <2>3. Range(disp'.batch) = {} /\ Range(ch') = Range(ch)
    BY <1>e, <2>1
  <2>4. \A g \in Ops : Range(flush'[g].ops) =
                          IF g = f THEN Range(disp.batch) ELSE Range(flush[g].ops)
    BY <2>1
  <2> QED BY <2>2, <2>3, <2>4 DEF PlaceInv
<1>7. ASSUME NEW f \in Ops, Advances(f)
      PROVE  PlaceInv'
  <2>1. Progress(f)
    BY <1>7, AdvanceFacts
  <2> QED BY <1>1, <2>1, ProgressFacts DEF Progress, SameQueue
<1>8. ASSUME NEW f \in Ops, Replies(f)
      PROVE  PlaceInv'
  BY <1>1, <1>8 DEF Replies, SameQueue, OnlyFlush
<1>9. ASSUME NEW w \in Wallets, Mines(w)
      PROVE  PlaceInv'
  BY <1>1, <1>9 DEF Mines, SameQueue
<1>10. CASE Spoils
  BY <1>1, <1>10 DEF Spoils, SameQueue
<1> QED BY <1>2, <1>3, <1>4, <1>5, <1>6, <1>7, <1>8, <1>9, <1>10 DEF Class, Advances

Queued(o) == o \in Range(ch) \cup Range(disp.batch)
InRest(o) == \E f \in Ops : o \in Unanswered(f)

LEMMA RestFacts ==
    ASSUME Types, ShapeInv, PlaceInv, NEW o \in Ops
    PROVE  /\ Waiting(o) <=> Queued(o) \/ InRest(o)
           /\ InRest(o) => Flushed(o)
           /\ Queued(o) => ~Flushed(o)
<1>1. Waiting(o) <=> Queued(o) \/ InRest(o)
  BY DEF Waiting, Queued, InRest
<1>2. InRest(o) => Flushed(o)
  BY UnansweredFacts DEF InRest, Flushed
<1>3. Queued(o) => ~Flushed(o)
  BY DEF PlaceInv, Queued, Flushed
<1> QED BY <1>1, <1>2, <1>3

LEMMA StepReq ==
    ASSUME Types, ShapeInv, PlaceInv, Types', ShapeInv', PlaceInv', ReqInv, Class
    PROVE  ReqInv'
<1> DEFINE R(o) ==
        /\ ~Queued(o) /\ ~Flushed(o) =>
              res[o] = <<>> /\ req[o] \notin {"wait", "ok", "err"}
        /\ Queued(o) \/ InRest(o) => res[o] = <<>> /\ req[o] \in {"wait", "cancelled"}
        /\ Flushed(o) => req[o] \in {"wait", "cancelled", "ok", "err"}
        /\ Flushed(o) /\ ~InRest(o) /\ req[o] = "wait" => res[o] # <<>>
<1>0. \A o \in Ops : R(o)
  BY RestFacts DEF ReqInv, Queued
<1>f. \A o \in Ops : (InRest(o) => Flushed(o)) /\ (Queued(o) => ~Flushed(o))
  BY RestFacts
<1>g. SUFFICES \A o \in Ops : R(o)'
  <2> SUFFICES ASSUME \A o \in Ops : R(o)'
               PROVE  ReqInv'
    OBVIOUS
  <2>1. \A o \in Ops : Queued(o)' => ~Flushed(o)'
    BY DEF PlaceInv, Queued, Flushed
  <2>2. \A o \in Ops : /\ Waiting(o)' <=> Queued(o)' \/ InRest(o)'
                       /\ Queued(o)' <=> o \in Range(ch') \cup Range(disp'.batch)
    BY DEF Waiting, Queued, InRest
  <2>3. ASSUME NEW o \in Ops
        PROVE  /\ o \notin Range(ch') \cup Range(disp'.batch) /\ ~Flushed(o)' =>
                     res'[o] = <<>> /\ req'[o] \notin {"wait", "ok", "err"}
               /\ Waiting(o)' => res'[o] = <<>> /\ req'[o] \in {"wait", "cancelled"}
               /\ Flushed(o)' => req'[o] \in {"wait", "cancelled", "ok", "err"}
               /\ Flushed(o)' /\ ~Waiting(o)' /\ req'[o] = "wait" => res'[o] # <<>>
    <3>1. R(o)'
      OBVIOUS
    <3> QED BY <2>1, <2>2, <3>1
  <2> QED BY <2>3 DEF ReqInv
<1>b. disp.batch \in Seq(Ops) /\ ch \in Seq(Ops)
  BY DispFields DEF Types, OpSeq
<1>1. ASSUME UNCHANGED flush
      PROVE  \A o \in Ops : (Flushed(o)' <=> Flushed(o)) /\ (InRest(o)' <=> InRest(o))
  BY <1>1, SameUnanswered DEF Flushed, InRest
<1>2. ASSUME ch' = ch, disp'.batch = disp.batch
      PROVE  \A o \in Ops : Queued(o)' <=> Queued(o)
  BY <1>2 DEF Queued
<1>3. ASSUME NEW o \in Ops, Comes(o) \/ Receives(o) \/ Leaves(o)
      PROVE  \A p \in Ops : R(p)'
  <2>1. \A p \in Ops : /\ (Queued(p)' <=> Queued(p)) /\ (Flushed(p)' <=> Flushed(p))
                       /\ InRest(p)' <=> InRest(p)
    BY <1>1, <1>2, <1>3 DEF Comes, Receives, Leaves, SameQueue
  <2>2. \A p \in Ops : p # o => req'[p] = req[p] /\ res'[p] = res[p]
    BY <1>3 DEF Comes, Receives, Leaves, OnlyReq
  <2>3. \A p \in Ops : p # o => R(p)'
    BY <1>0, <2>1, <2>2
  <2>4. R(o)'
    <3>1. CASE Comes(o)
      <4>1. /\ req[o] \in {"idle", "load", "offer"} /\ res'[o] = res[o]
            /\ req'[o] \in {"load", "offer", "refused", "cancelled"}
        BY <3>1 DEF Comes, OnlyReq
      <4>2. ~Queued(o) /\ ~Flushed(o) /\ ~InRest(o)
        BY <1>0, <1>f, <4>1
      <4> QED BY <1>0, <2>1, <4>1, <4>2
    <3>2. CASE Receives(o)
      <4>1. /\ req[o] = "wait" /\ res[o] # <<>> /\ res'[o] = <<>>
            /\ req'[o] = Head(res[o])
        BY <3>2 DEF Receives, OnlyReq
      <4>2. Head(res[o]) \in {"ok", "err"}
        <5>1. res[o] \in Seq(Answers)
          BY DEF Types, AnswerSeq
        <5> QED BY <4>1, <5>1 DEF Answers
      <4>3. ~Queued(o) /\ Flushed(o) /\ ~InRest(o)
        BY <1>0, <4>1
      <4> QED BY <2>1, <4>1, <4>2, <4>3
    <3>3. CASE Leaves(o)
      <4>1. req[o] = "wait" /\ res'[o] = res[o] /\ req'[o] = "cancelled"
        BY <3>3 DEF Leaves, OnlyReq
      <4> QED BY <1>0, <2>1, <4>1
    <3> QED BY <1>3, <3>1, <3>2, <3>3
  <2> QED BY <2>3, <2>4
<1>4. ASSUME NEW o \in Ops, Offers(o)
      PROVE  \A p \in Ops : R(p)'
  <2>1. /\ ch' = Append(ch, o) /\ disp' = disp /\ res' = res
        /\ req[o] = "offer" /\ req'[o] = "wait"
        /\ \A p \in Ops : p # o => req'[p] = req[p]
    BY <1>4 DEF Offers, OnlyReq
  <2>2. \A p \in Ops : (Flushed(p)' <=> Flushed(p)) /\ (InRest(p)' <=> InRest(p))
    BY <1>1, <1>4 DEF Offers
  <2>3. Range(ch') = Range(ch) \cup {o}
    BY <1>b, <2>1, AppendFacts
  <2>4. \A p \in Ops : Queued(p)' <=> Queued(p) \/ p = o
    BY <2>1, <2>3 DEF Queued
  <2>5. ~Queued(o) /\ ~Flushed(o) /\ ~InRest(o) /\ res[o] = <<>>
    BY <1>0, <1>f, <2>1
  <2>6. R(o)'
    BY <2>1, <2>2, <2>4, <2>5
  <2>7. \A p \in Ops : p # o => R(p)'
    BY <1>0, <2>1, <2>2, <2>4
  <2> QED BY <2>6, <2>7
<1>5. CASE Gathers \/ Closes
  <2>1. UNCHANGED <<req, res>>
    BY <1>5 DEF Gathers, Closes
  <2>2. \A p \in Ops : (Flushed(p)' <=> Flushed(p)) /\ (InRest(p)' <=> InRest(p))
    BY <1>1, <1>5 DEF Gathers, Closes
  <2>3. \A p \in Ops : Queued(p)' <=> Queued(p)
    <3>1. CASE Closes
      BY <1>2, <3>1 DEF Closes
    <3>2. CASE Gathers
      <4>1. ch # <<>> /\ disp'.batch = Append(disp.batch, Head(ch)) /\ ch' = Tail(ch)
        BY <3>2 DEF Gathers
      <4>2. Head(ch) \in Ops /\ Range(ch) = {Head(ch)} \cup Range(ch')
        BY <1>b, <4>1, TailFacts
      <4>3. Range(disp'.batch) = Range(disp.batch) \cup {Head(ch)}
        BY <1>b, <4>1, <4>2, AppendFacts
      <4> QED BY <4>2, <4>3 DEF Queued
    <3> QED BY <1>5, <3>1, <3>2
  <2> QED BY <1>0, <2>1, <2>2, <2>3
<1>6. ASSUME NEW f \in Ops, Starts(f)
      PROVE  \A p \in Ops : R(p)'
  <2>1. /\ UNCHANGED <<req, res>> /\ disp'.batch = <<>> /\ ch' = ch
        /\ flush'[f].ops = disp.batch /\ OnlyFlush(f)
        /\ flush'[f].pc = "lock" /\ flush'[f].i = 0
    BY <1>6 DEF Starts
  <2>2. flush[f].ops = <<>> /\ Unanswered(f) = {}
    BY <1>6, StartFacts
  <2>3. Range(<<>>) = {}
    BY DEF Range
  <2>4. \A g \in Ops : g # f => /\ flush'[g].ops = flush[g].ops
                                /\ Unanswered(g)' = Unanswered(g)
    BY <2>1, SameUnanswered DEF OnlyFlush
  <2>5. Unanswered(f)' = Range(disp.batch)
    <3>1. Unanswered(f)' = {flush'[f].ops[j] : j \in 1 .. Len(flush'[f].ops)}
      BY <2>1 DEF Unanswered, InFlight, Running
    <3>2. Range(disp.batch) = {disp.batch[j] : j \in 1 .. Len(disp.batch)}
      BY <1>b, RangeFacts
    <3> QED BY <2>1, <3>1, <3>2
  <2>6. \A p \in Ops : Queued(p)' <=> p \in Range(ch)
    BY <2>1, <2>3 DEF Queued
  <2>7. \A p \in Ops : Flushed(p)' <=> Flushed(p) \/ p \in Range(disp.batch)
    BY <2>1, <2>2, <2>3, <2>4 DEF Flushed
  <2>8. \A p \in Ops : InRest(p)' <=> InRest(p) \/ p \in Range(disp.batch)
    BY <2>2, <2>4, <2>5 DEF InRest
  <2>9. \A p \in Ops : Queued(p) <=> p \in Range(ch) \/ p \in Range(disp.batch)
    BY DEF Queued
  <2> QED BY <1>0, <2>1, <2>6, <2>7, <2>8, <2>9
<1>7. ASSUME NEW f \in Ops, Advances(f)
      PROVE  \A p \in Ops : R(p)'
  <2>1. Progress(f)
    BY <1>7, AdvanceFacts
  <2>2. UNCHANGED <<req, res>> /\ \A p \in Ops : Queued(p)' <=> Queued(p)
    BY <1>2, <2>1 DEF Progress, SameRequests, SameQueue
  <2>3. \A g \in Ops : flush'[g].ops = flush[g].ops /\ Unanswered(g)' = Unanswered(g)
    BY <2>1, ProgressFacts
  <2>4. \A p \in Ops : (Flushed(p)' <=> Flushed(p)) /\ (InRest(p)' <=> InRest(p))
    BY <2>3 DEF Flushed, InRest
  <2> QED BY <1>0, <2>2, <2>4
<1>8. ASSUME NEW f \in Ops, Replies(f)
      PROVE  \A p \in Ops : R(p)'
  <2> DEFINE s == flush[f].ops
             i == flush[f].i
  <2>0. PICK o \in Ops : o = s[i]
    <3>1. i \in 1 .. Len(s) /\ s \in Seq(Ops)
      BY <1>8, FlushFacts DEF Replies, ShapeInv
    <3> QED BY <3>1
  <2>1. /\ UNCHANGED req /\ SameQueue /\ OnlyFlush(f)
        /\ flush'[f].ops = s /\ flush[f].pc = "answer"
        /\ res'[o] = <<flush[f].out>>
        /\ \A p \in Ops : p # o => res'[p] = res[p]
    BY <1>8, <2>0 DEF Replies
  <2>2. \A p \in Ops : Queued(p)' <=> Queued(p)
    BY <1>2, <2>1 DEF SameQueue
  <2>3. \A g \in Ops : g # f => /\ flush'[g].ops = flush[g].ops
                                /\ Unanswered(g)' = Unanswered(g)
    BY <2>1, SameUnanswered DEF OnlyFlush
  <2>4. \A p \in Ops : Flushed(p)' <=> Flushed(p)
    BY <2>1, <2>3 DEF Flushed
  <2>5. /\ s \in Seq(Ops) /\ i \in 1 .. Len(s) /\ Len(s) \in Nat /\ Once(s)
        /\ o \in Range(s)
    <3>1. i \in 1 .. Len(s) /\ s \in Seq(Ops) /\ Len(s) \in Nat
      BY <1>8, FlushFacts DEF Replies, ShapeInv
    <3>2. Once(s)
      BY DEF PlaceInv
    <3> QED BY <2>0, <3>1, <3>2, RangeFacts
  <2>6. Unanswered(f) = {s[j] : j \in i .. Len(s)}
    <3>1. i # 0
      BY <2>5
    <3> QED BY <2>1, <3>1, UnansweredFacts DEF Running
  <2>7. Unanswered(f)' = Unanswered(f) \ {o}
    <3>1. CASE i = Len(s) /\ flush'[f].pc = "done"
      <4>1. Unanswered(f)' = {}
        BY <3>1 DEF Unanswered, InFlight, Running
      <4>2. i .. Len(s) = {i}
        BY <2>5, <3>1
      <4> QED BY <2>0, <2>6, <4>1, <4>2
    <3>2. CASE /\ i < Len(s) /\ flush'[f].pc \in Running /\ flush'[f].i = i + 1
      <4>1. flush'[f].i # 0
        BY <2>5, <3>2
      <4>2. Unanswered(f)' = {s[j] : j \in (i + 1) .. Len(s)}
        BY <2>1, <3>2, <4>1 DEF Unanswered, InFlight
      <4> HIDE DEF s, i
      <4>3. i .. Len(s) = {i} \cup ((i + 1) .. Len(s)) /\ i \notin (i + 1) .. Len(s)
              /\ \A j \in (i + 1) .. Len(s) : j \in 1 .. Len(s)
        BY <2>5, <3>2
      <4>4. \A j \in (i + 1) .. Len(s) : s[j] # o
        BY <2>0, <2>5, <4>3 DEF Once
      <4> QED BY <2>0, <2>6, <4>2, <4>3, <4>4
    <3> QED BY <1>8, <3>1, <3>2 DEF Replies, Running
  <2>8. \A g \in Ops : g # f => o \notin Unanswered(g)
    BY <2>5, UnansweredFacts DEF PlaceInv
  <2>9. o \in Unanswered(f)
    <3>1. i \in i .. Len(s)
      BY <2>5
    <3> QED BY <2>0, <2>6, <3>1
  <2>10. \A p \in Ops : InRest(p)' <=> InRest(p) /\ p # o
    BY <2>3, <2>7, <2>8 DEF InRest
  <2>11. InRest(o)
    BY <2>9 DEF InRest
  <2>12. <<flush[f].out>> # <<>>
    OBVIOUS
  <2>13. R(o)'
    BY <1>0, <1>f, <2>1, <2>2, <2>4, <2>10, <2>11, <2>12
  <2>14. \A p \in Ops : p # o => R(p)'
    BY <1>0, <2>1, <2>2, <2>4, <2>10
  <2> QED BY <2>13, <2>14
<1>9. CASE Spoils \/ \E w \in Wallets : Mines(w)
  <2>1. UNCHANGED <<req, res>>
    BY <1>9 DEF Spoils, Mines, SameRequests
  <2>2. \A p \in Ops : /\ (Flushed(p)' <=> Flushed(p)) /\ (InRest(p)' <=> InRest(p))
                       /\ Queued(p)' <=> Queued(p)
    BY <1>1, <1>2, <1>9 DEF Spoils, Mines, SameQueue
  <2> QED BY <1>0, <2>1, <2>2
<1> QED BY <1>3, <1>4, <1>5, <1>6, <1>7, <1>8, <1>9 DEF Class, Advances

\* A flush that does not change, while its ops are in no new transaction.
LEMMA SameCounted ==
    ASSUME NEW g \in Ops, NEW j, Counted(g, j), flush'[g] = flush[g],
           sends'[flush[g].ops[j]] = sends[flush[g].ops[j]], unsure \subseteq unsure'
    PROVE  Counted(g, j)'
  BY DEF Counted, Due, Whole

\* The steps of flush f that count one more transaction, or none.
LEMMA SettleCounted ==
    ASSUME NEW f \in Ops, NEW j \in 1 .. Len(flush[f].ops), NEW r \in Answers,
           Types, ShapeInv, Counted(f, j), Settles(f, r),
           flush[f].pc \in {"lock", "submit", "wait"},
           sends'[flush[f].ops[j]] = sends[flush[f].ops[j]], unsure \subseteq unsure',
           \/ flush[f].pc \in {"lock", "submit"} \/ r = "ok"
           \/ flush[f].i = 0 => flush[f].ops[j] \in unsure'
    PROVE  Counted(f, j)'
<1> DEFINE o == flush[f].ops[j]
           n == sends[o]
<1>1. flush[f].i \in Nat /\ Len(flush[f].ops) \in Nat /\ ~Whole(f)
  BY FlushFacts DEF ShapeInv
<1>2. o \in Ops /\ n \in Nat
  <2>1. flush[f].ops \in Seq(Ops)
    BY FlushFacts
  <2> QED BY <2>1 DEF Types
<1>3. /\ flush[f].i = 0 /\ flush[f].pc \in {"lock", "submit"} => n = 0
      /\ flush[f].i = 0 => n <= 1
      /\ Due(f, j) => n <= 1 /\ (n = 1 => o \in unsure)
      /\ n <= 2 /\ (n = 2 => o \in unsure)
  BY DEF Counted
<1>4. flush'[f].ops[j] = o /\ sends'[o] = n
  BY DEF Settles
<1> HIDE DEF o, n
<1>5. CASE /\ flush[f].i = 0 /\ r = "err"
           /\ flush'[f].pc = "lock" /\ flush'[f].i = 1 /\ ~Whole(f)'
  <2>1. n <= 1 /\ (n = 1 => o \in unsure')
    BY <1>2, <1>3, <1>5 DEF o
  <2> QED BY <1>2, <1>4, <1>5, <2>1 DEF Counted
<1>6. CASE /\ flush'[f].pc = "answer" /\ (Whole(f)' <=> flush[f].i = 0)
           /\ flush'[f].i = IF flush[f].i = 0 THEN 1 ELSE flush[f].i
  <2>1. Due(f, j)' => Due(f, j)
    BY <1>1, <1>6 DEF Due
  <2>2. flush'[f].i # 0 /\ n <= 2 /\ (n = 2 => o \in unsure')
    BY <1>3, <1>6
  <2>3. Whole(f)' => n <= 1
    BY <1>3, <1>6
  <2>4. Due(f, j)' => n <= 1 /\ (n = 1 => o \in unsure')
    BY <1>3, <2>1
  <2> QED BY <1>4, <2>2, <2>3, <2>4 DEF Counted
<1> QED BY <1>1, <1>5, <1>6 DEF Settles

LEMMA TakeCounted ==
    ASSUME NEW f \in Ops, NEW j \in 1 .. Len(flush[f].ops),
           Types, ShapeInv, PlaceInv, Counted(f, j), Takes(f), unsure \subseteq unsure',
           \/ Goes(f, "wait")
           \/ Settles(f, "err") /\ CurrentOps(f) \subseteq unsure'
    PROVE  Counted(f, j)'
<1> DEFINE o == flush[f].ops[j]
           n == sends[o]
           m == sends'[o]
           i == flush[f].i
<1>1. /\ flush[f].ops \in Seq(Ops) /\ i \in Nat /\ i <= Len(flush[f].ops)
      /\ Len(flush[f].ops) \in Nat /\ flush[f].pc = "submit" /\ ~Whole(f)
  BY FlushFacts DEF ShapeInv, Takes
<1>2. o \in Ops /\ n \in Nat
  BY <1>1 DEF Types
<1>3. o \in CurrentOps(f) <=> i = 0 \/ j = i
  <2>1. CASE i = 0
    <3>1. CurrentOps(f) = Range(flush[f].ops)
      BY <1>1, <2>1, CurrentFacts
    <3> QED BY <1>1, <2>1, <3>1, RangeFacts
  <2>2. CASE i # 0
    <3>1. CurrentOps(f) = {flush[f].ops[i]} /\ i \in 1 .. Len(flush[f].ops)
      BY <1>1, <2>2, CurrentFacts
    <3>2. o = flush[f].ops[i] <=> j = i
      BY <3>1 DEF PlaceInv, Once
    <3> QED BY <2>2, <3>1, <3>2
  <2> QED BY <2>1, <2>2
<1>4. m = IF i = 0 \/ j = i THEN n + 1 ELSE n
  BY <1>2, <1>3 DEF Takes
<1>5. /\ i = 0 => n = 0
      /\ Due(f, j) => n <= 1 /\ (n = 1 => o \in unsure)
      /\ n <= 2 /\ (n = 2 => o \in unsure)
  BY <1>1 DEF Counted
<1>6. Due(f, j) <=> i > 0 /\ (j > i \/ j = i)
  BY <1>1 DEF Due
<1>7. flush'[f].ops[j] = o
  BY DEF Goes, Settles
<1>8. m \in Nat /\ m <= 2 /\ (m = 2 => o \in unsure) /\ (i = 0 => m = 1)
  <2> HIDE DEF o, n, m
  <2>1. CASE i = 0
    BY <1>2, <1>4, <1>5, <2>1
  <2>2. CASE i # 0 /\ j = i
    BY <1>1, <1>2, <1>4, <1>5, <1>6, <2>2
  <2>3. CASE i # 0 /\ j # i
    BY <1>1, <1>2, <1>4, <1>5, <2>3
  <2> QED BY <2>1, <2>2, <2>3
<1>9. i > 0 /\ j > i => m <= 1 /\ (m = 1 => o \in unsure)
  BY <1>1, <1>4, <1>5, <1>6
<1> HIDE DEF o, n, m
<1>10. CASE Goes(f, "wait")
  <2>1. flush'[f].pc = "wait" /\ flush'[f].i = i /\ ~Whole(f)'
    BY <1>1, <1>10 DEF Goes
  <2>2. Due(f, j)' => i > 0 /\ j > i
    BY <2>1 DEF Due
  <2>3. Due(f, j)' => m <= 1 /\ (m = 1 => o \in unsure')
    BY <1>9, <2>2
  <2>4. flush'[f].i = 0 \/ Whole(f)' => m <= 1
    BY <1>8, <2>1
  <2> QED BY <1>7, <1>8, <2>1, <2>3, <2>4 DEF Counted, m
<1>11. CASE Settles(f, "err") /\ CurrentOps(f) \subseteq unsure'
  <2>1. CASE i = 0 /\ flush'[f].pc = "lock" /\ flush'[f].i = 1 /\ ~Whole(f)'
    <3>1. o \in unsure' /\ m = 1
      BY <1>3, <1>8, <1>11, <2>1
    <3> QED BY <1>7, <2>1, <3>1 DEF Counted, m
  <2>2. CASE /\ flush'[f].pc = "answer" /\ (Whole(f)' <=> i = 0)
             /\ flush'[f].i = IF i = 0 THEN 1 ELSE i
    <3>1. Due(f, j)' => i > 0 /\ j > i
      BY <1>1, <2>2 DEF Due
    <3>2. Due(f, j)' => m <= 1 /\ (m = 1 => o \in unsure')
      BY <1>9, <3>1
    <3>3. flush'[f].i # 0 /\ (Whole(f)' => m <= 1)
      BY <1>8, <2>2
    <3> QED BY <1>7, <1>8, <2>2, <3>2, <3>3 DEF Counted, m
  <2> QED BY <1>1, <1>11, <2>1, <2>2 DEF Settles
<1> QED BY <1>10, <1>11

\* What a step never undoes.
Grows ==
    /\ \A g \in Ops : flush[g].pc # "none" =>
          flush'[g].pc # "none" /\ flush'[g].ops = flush[g].ops
    /\ \A o \in Ops : Flushed(o) => Flushed(o)'
    /\ \A o \in Ops : sends'[o] \in Nat /\ sends'[o] >= sends[o]
    /\ bad \subseteq bad' /\ unsure \subseteq unsure' /\ faulted \subseteq faulted'

LEMMA StepGrows ==
    ASSUME Types, ShapeInv, PlaceInv, Types', Class
    PROVE  Grows
<1>1. \A g \in Ops : flush[g].pc # "none" =>
         flush'[g].pc # "none" /\ flush'[g].ops = flush[g].ops
  <2>1. CASE UNCHANGED flush
    BY <2>1
  <2>2. ASSUME NEW f \in Ops, Starts(f)
        PROVE  \A g \in Ops : g # f => flush'[g] = flush[g]
    BY <2>2 DEF Starts, OnlyFlush
  <2>3. ASSUME NEW f \in Ops, Starts(f)
        PROVE  flush[f].pc = "none"
    BY <2>3, StartFacts
  <2>4. ASSUME NEW f \in Ops, Advances(f)
        PROVE  \A g \in Ops : g # f => flush'[g] = flush[g]
    BY <2>4, AdvanceFacts DEF Progress, OnlyFlush
  <2>5. ASSUME NEW f \in Ops, Advances(f)
        PROVE  flush'[f].pc # "none" /\ flush'[f].ops = flush[f].ops
    BY <2>5, AdvanceFacts DEF Progress, Running
  <2>6. ASSUME NEW f \in Ops, Replies(f)
        PROVE  \A g \in Ops : g # f => flush'[g] = flush[g]
    BY <2>6 DEF Replies, OnlyFlush
  <2>7. ASSUME NEW f \in Ops, Replies(f)
        PROVE  flush'[f].pc # "none" /\ flush'[f].ops = flush[f].ops
    BY <2>7 DEF Replies
  <2> QED BY <2>1, <2>2, <2>3, <2>4, <2>5, <2>6, <2>7, ElseFacts
<1>2. \A o \in Ops : Flushed(o) => Flushed(o)'
  <2>1. \A g \in Ops : flush[g].pc = "none" => Range(flush[g].ops) = {}
    BY DEF ShapeInv, Range
  <2> QED BY <1>1, <2>1 DEF Flushed
<1>3. sends \in [Ops -> Nat] /\ sends' \in [Ops -> Nat]
  BY DEF Types
<1>4. UNCHANGED sends \/ \E f \in Ops : Takes(f)
  BY DEF Class, Comes, Offers, Receives, Leaves, Gathers, Closes, Starts, Locks, Breaks,
         Reverts, Sends, Loses, Ends, GivesUp, Replies, Mines, Spoils, SameHistory
<1>5. \A o \in Ops : sends'[o] = sends[o] \/ sends'[o] = sends[o] + 1
  BY <1>3, <1>4 DEF Takes
<1>6. \A o \in Ops : sends'[o] \in Nat /\ sends'[o] >= sends[o]
  BY <1>3, <1>5
<1>7. bad \subseteq bad' /\ unsure \subseteq unsure' /\ faulted \subseteq faulted'
  BY DEF Class, Comes, Offers, Receives, Leaves, Gathers, Closes, Starts, Locks, Breaks,
         Reverts, Sends, Loses, Ends, GivesUp, Replies, Mines, Spoils, SameHistory,
         SameChain, Takes
<1> QED BY <1>1, <1>2, <1>6, <1>7 DEF Grows

\* The ops of another flush are in no transaction of this one.
LEMMA OtherFlush ==
    ASSUME Types, ShapeInv, PlaceInv, NEW f \in Ops, NEW g \in Ops, f # g,
           NEW j \in 1 .. Len(flush[g].ops), flush[f].pc # "none"
    PROVE  flush[g].ops[j] \in Ops /\ flush[g].ops[j] \notin CurrentOps(f)
<1>1. flush[g].ops \in Seq(Ops)
  BY FlushFields DEF Types, OpSeq
<1>2. flush[g].ops[j] \in Range(flush[g].ops) /\ flush[g].ops[j] \in Ops
  BY <1>1, RangeFacts
<1>3. CurrentOps(f) \subseteq Range(flush[f].ops)
  BY CurrentFacts
<1> QED BY <1>2, <1>3 DEF PlaceInv

LEMMA StepSend ==
    ASSUME Types, ShapeInv, PlaceInv, SendInv, Types', ShapeInv', Class
    PROVE  SendInv'
<1>g. Grows
  BY StepGrows
<1>u. unsure \subseteq unsure'
  BY <1>g DEF Grows
<1>1. \A o \in Ops : ~Flushed(o)' => sends'[o] = 0
  <2>1. ASSUME NEW o \in Ops, ~Flushed(o)
        PROVE  sends'[o] = sends[o]
    <3>1. CASE UNCHANGED sends
      BY <3>1
    <3>2. ASSUME NEW f \in Ops, Takes(f)
          PROVE  sends'[o] = sends[o]
      <4>1. flush[f].pc # "none"
        BY <3>2 DEF Takes
      <4>2. o \notin CurrentOps(f)
        BY <2>1, <4>1, CurrentFacts DEF Flushed
      <4> QED BY <3>2, <4>2 DEF Takes
    <3>3. UNCHANGED sends \/ \E f \in Ops : Takes(f)
      BY DEF Class, Comes, Offers, Receives, Leaves, Gathers, Closes, Starts, Locks,
             Breaks, Reverts, Sends, Loses, Ends, GivesUp, Replies, Mines, Spoils,
             SameHistory
    <3> QED BY <3>1, <3>2, <3>3
  <2> QED BY <1>g, <2>1 DEF SendInv, Grows
<1>2. \A f \in Ops : \A j \in 1 .. Len(flush[f].ops) : Counted(f, j)
  BY DEF SendInv
<1>3. ASSUME NEW f \in Ops, OnlyFlush(f), flush'[f].ops = flush[f].ops,
             UNCHANGED sends \/ Takes(f),
             \A j \in 1 .. Len(flush[f].ops) : Counted(f, j)'
      PROVE  \A g \in Ops : \A j \in 1 .. Len(flush'[g].ops) : Counted(g, j)'
  <2> SUFFICES ASSUME NEW g \in Ops, g # f, NEW j \in 1 .. Len(flush[g].ops)
               PROVE  Counted(g, j)'
    BY <1>3 DEF OnlyFlush
  <2>1. sends'[flush[g].ops[j]] = sends[flush[g].ops[j]]
    <3>1. CASE UNCHANGED sends
      BY <3>1
    <3>2. CASE Takes(f)
      <4>1. flush[g].ops[j] \in Ops /\ flush[g].ops[j] \notin CurrentOps(f)
        BY <3>2, OtherFlush DEF Takes
      <4> QED BY <3>2, <4>1 DEF Takes
    <3> QED BY <1>3, <3>1, <3>2
  <2>2. flush'[g] = flush[g] /\ Counted(g, j)
    BY <1>2, <1>3 DEF OnlyFlush
  <2> QED BY <1>u, <2>1, <2>2, SameCounted
<1>4. \A f \in Ops : \A j \in 1 .. Len(flush'[f].ops) : Counted(f, j)'
  <2>1. CASE Else /\ UNCHANGED flush
    <3>1. UNCHANGED sends
      BY <2>1 DEF Else, Comes, Offers, Receives, Leaves, Gathers, Closes, Mines, Spoils,
                  SameHistory
    <3> QED BY <1>2, <1>u, <2>1, <3>1, SameCounted
  <2>2. ASSUME NEW f \in Ops, Starts(f)
        PROVE  \A g \in Ops : \A j \in 1 .. Len(flush'[g].ops) : Counted(g, j)'
    <3>1. /\ UNCHANGED sends /\ OnlyFlush(f) /\ flush'[f].ops = disp.batch
          /\ flush'[f].i = 0 /\ ~Whole(f)'
      BY <2>2 DEF Starts, SameHistory
    <3>2. \A g \in Ops : g # f => \A j \in 1 .. Len(flush'[g].ops) : Counted(g, j)'
      BY <1>2, <1>u, <3>1, SameCounted DEF OnlyFlush
    <3>3. ASSUME NEW j \in 1 .. Len(disp.batch)
          PROVE  Counted(f, j)'
      <4>1. disp.batch \in Seq(Ops)
        BY <2>2, StartFacts
      <4>2. disp.batch[j] \in Range(disp.batch) /\ disp.batch[j] \in Ops
        BY <4>1, RangeFacts
      <4>3. ~Flushed(disp.batch[j])
        BY <4>2 DEF PlaceInv, Flushed
      <4>4. sends'[disp.batch[j]] = 0
        BY <3>1, <4>2, <4>3 DEF SendInv
      <4>5. ~Due(f, j)'
        BY <3>1 DEF Due
      <4> QED BY <3>1, <4>4, <4>5 DEF Counted
    <3> QED BY <3>1, <3>2, <3>3
  <2>3. ASSUME NEW f \in Ops, Locks(f)
        PROVE  \A g \in Ops : \A j \in 1 .. Len(flush'[g].ops) : Counted(g, j)'
    <3>1. /\ UNCHANGED <<sends, unsure>> /\ Goes(f, "submit") /\ flush[f].pc = "lock"
      BY <2>3 DEF Locks, SameHistory
    <3>2. ASSUME NEW j \in 1 .. Len(flush[f].ops)
          PROVE  Counted(f, j)'
      <4>1. Due(f, j)' <=> Due(f, j)
        BY <3>1 DEF Due, Goes
      <4>2. Counted(f, j)
        BY <1>2
      <4> QED BY <3>1, <4>1, <4>2 DEF Counted, Goes
    <3> QED BY <1>3, <3>1, <3>2 DEF Goes
  <2>4. ASSUME NEW f \in Ops, Breaks(f) \/ Reverts(f) \/ Ends(f) \/ GivesUp(f)
        PROVE  \A g \in Ops : \A j \in 1 .. Len(flush'[g].ops) : Counted(g, j)'
    <3>1. PICK r \in Answers :
             /\ UNCHANGED sends /\ Settles(f, r)
             /\ flush[f].pc \in {"lock", "submit", "wait"}
             /\ \/ flush[f].pc \in {"lock", "submit"} \/ r = "ok"
                \/ CurrentOps(f) \subseteq unsure'
      BY <2>4 DEF Breaks, Reverts, Ends, GivesUp, SameHistory, Answers
    <3>2. ASSUME NEW j \in 1 .. Len(flush[f].ops)
          PROVE  Counted(f, j)'
      <4>1. flush[f].i = 0 => flush[f].ops[j] \in CurrentOps(f)
        <5>1. flush[f].ops \in Seq(Ops)
          BY <3>1, FlushFacts
        <5> QED BY <3>1, <5>1, CurrentFacts, RangeFacts
      <4>2. \/ flush[f].pc \in {"lock", "submit"} \/ r = "ok"
            \/ flush[f].i = 0 => flush[f].ops[j] \in unsure'
        BY <3>1, <4>1
      <4>3. sends'[flush[f].ops[j]] = sends[flush[f].ops[j]] /\ Counted(f, j)
        BY <1>2, <3>1
      <4> QED BY <1>u, <3>1, <4>2, <4>3, SettleCounted
    <3> QED BY <1>3, <3>1, <3>2 DEF Settles
  <2>5. ASSUME NEW f \in Ops, Sends(f) \/ Loses(f)
        PROVE  \A g \in Ops : \A j \in 1 .. Len(flush'[g].ops) : Counted(g, j)'
    <3>1. /\ Takes(f)
          /\ \/ Goes(f, "wait")
             \/ Settles(f, "err") /\ CurrentOps(f) \subseteq unsure'
      BY <2>5 DEF Sends, Loses
    <3>2. \A j \in 1 .. Len(flush[f].ops) : Counted(f, j)'
      BY <1>2, <1>u, <3>1, TakeCounted
    <3> QED BY <1>3, <3>1, <3>2 DEF Settles, Goes
  <2>6. ASSUME NEW f \in Ops, Replies(f)
        PROVE  \A g \in Ops : \A j \in 1 .. Len(flush'[g].ops) : Counted(g, j)'
    <3>1. /\ UNCHANGED <<sends, unsure>> /\ OnlyFlush(f) /\ flush'[f].ops = flush[f].ops
          /\ flush[f].pc = "answer" /\ (Whole(f)' <=> Whole(f))
      BY <2>6 DEF Replies, SameHistory
    <3>2. flush[f].i \in Nat \ {0} /\ Len(flush[f].ops) \in Nat
      BY <3>1, FlushFacts DEF ShapeInv
    <3>3. flush'[f].i \in Nat \ {0}
      BY <2>6, <3>2 DEF Replies
    <3>4. ASSUME NEW j \in 1 .. Len(flush[f].ops)
          PROVE  Counted(f, j)'
      <4>1. Due(f, j)' => Due(f, j)
        <5>1. CASE flush'[f].pc = "done" /\ flush'[f].i = flush[f].i
          BY <3>1, <5>1 DEF Due
        <5>2. CASE flush'[f].i = flush[f].i + 1
          BY <3>1, <3>2, <5>2 DEF Due
        <5> QED BY <2>6, <5>1, <5>2 DEF Replies
      <4>2. Counted(f, j)
        BY <1>2
      <4>3. flush'[f].i # 0
        BY <3>3
      <4> QED BY <3>1, <4>1, <4>2, <4>3 DEF Counted
    <3> QED BY <1>3, <3>1, <3>4
  <2> QED BY <2>1, <2>2, <2>3, <2>4, <2>5, <2>6, ElseFacts DEF Advances
<1> QED BY <1>1, <1>4 DEF SendInv

\* A transaction that is out keeps its ops.
LEMMA StepTx ==
    ASSUME Types, ShapeInv, PlaceInv, TxInv, Types', ShapeInv', Class
    PROVE  TxInv'
<1> DEFINE Known(t) == /\ flush[t[1]].pc # "none" /\ t[2] <= Len(flush[t[1]].ops)
                       /\ \A o \in OpsOf(t[1], t[2]) : sends[o] > 0
<1>g. Grows
  BY StepGrows
<1>t. \A w \in Wallets : line[w] \in Seq(Txs) /\ line'[w] \in Seq(Txs)
  BY DEF Types, TxSeq
<1>s. sends \in [Ops -> Nat] /\ sends' \in [Ops -> Nat]
  BY DEF Types
<1>1. ASSUME NEW w \in Wallets, NEW t \in Range(line[w])
      PROVE  Known(t)'
  <2>1. t \in Txs
    BY <1>1, <1>t, RangeFacts
  <2>2. t[1] \in Ops /\ t[2] \in Nat
    BY <2>1 DEF Txs, Index
  <2>3. flush[t[1]].pc # "none" /\ t[2] <= Len(flush[t[1]].ops)
          /\ \A o \in OpsOf(t[1], t[2]) : sends[o] > 0
    BY <1>1 DEF TxInv
  <2>4. flush'[t[1]].pc # "none" /\ flush'[t[1]].ops = flush[t[1]].ops
    BY <1>g, <2>2, <2>3 DEF Grows
  <2>5. OpsOf(t[1], t[2])' = OpsOf(t[1], t[2])
    BY <2>4 DEF OpsOf
  <2>6. OpsOf(t[1], t[2]) \subseteq Ops
    BY <2>2, <2>3, OpsOfFacts
  <2>7. \A o \in Ops : sends[o] > 0 => sends'[o] > 0
    BY <1>g, <1>s DEF Grows
  <2> QED BY <2>3, <2>4, <2>5, <2>6, <2>7
<1>2. CASE line' = line /\ executed' = executed
  <2>1. \A w \in Wallets : \A t \in Range(line'[w]) : Known(t)'
    BY <1>1, <1>2
  <2>2. \A o \in executed' : sends'[o] > 0
    BY <1>2, <1>g, <1>s DEF TxInv, Types, Grows
  <2> QED BY <2>1, <2>2 DEF TxInv
<1>3. ASSUME NEW f \in Ops, Sends(f) \/ Loses(f)
      PROVE  TxInv'
  <2> DEFINE i == flush[f].i
             t == <<f, i>>
  <2>1. Takes(f) /\ flush[f].pc # "none" /\ executed' = executed
    BY <1>3 DEF Sends, Loses, Takes
  <2>2. flush[f] \in Flushes /\ i \in Nat /\ i <= Len(flush[f].ops) /\ i \in Index
    BY <2>1, FlushFacts, FlushFields
  <2>3. t \in Txs
    BY <2>2 DEF Txs
  <2>4. ASSUME NEW w \in Wallets
        PROVE  Range(line'[w]) \subseteq Range(line[w]) \cup {t}
    BY <1>t, <2>1, <2>3, <2>4, AppendFacts DEF Takes
  <2>5. flush'[f].pc # "none" /\ flush'[f].ops = flush[f].ops
    BY <1>g, <2>1 DEF Grows
  <2> HIDE DEF i
  <2>7. ASSUME NEW o \in CurrentOps(f)
        PROVE  sends'[o] > 0
    <3>1. o \in Ops
      BY <2>1, CurrentFacts
    <3>2. sends'[o] = sends[o] + 1 /\ sends[o] \in Nat
      BY <1>s, <2>1, <3>1 DEF Takes
    <3> QED BY <3>2
  <2>8. ASSUME NEW k, k = i
        PROVE  Known(<<f, k>>)'
    <3>1. OpsOf(f, k)' = CurrentOps(f)
      BY <2>5, <2>8 DEF OpsOf, CurrentOps, i
    <3> QED BY <2>2, <2>5, <2>7, <2>8, <3>1
  <2>9. \A w \in Wallets : \A u \in Range(line'[w]) : Known(u)'
    <3> SUFFICES ASSUME NEW w \in Wallets, NEW u \in Range(line'[w])
                 PROVE  Known(u)'
      OBVIOUS
    <3>1. PICK k : k = i
      OBVIOUS
    <3>2. u \in Range(line[w]) \/ u = <<f, k>>
      BY <2>4, <3>1
    <3> QED BY <1>1, <2>8, <3>1, <3>2
  <2>10. \A o \in executed' : sends'[o] > 0
    BY <1>g, <1>s, <2>1 DEF TxInv, Types, Grows
  <2> QED BY <2>9, <2>10 DEF TxInv
<1>4. ASSUME NEW w \in Wallets, Mines(w)
      PROVE  TxInv'
  <2>1. PICK t : t = Head(line[w])
    OBVIOUS
  <2>2. /\ line[w] # <<>> /\ UNCHANGED <<sends, flush>>
        /\ \A v \in Wallets : line'[v] = IF v = w THEN Tail(line[v]) ELSE line[v]
        /\ executed' \subseteq executed \cup OpsOf(t[1], t[2])
    BY <1>4, <2>1 DEF Mines, SameHistory
  <2>3. /\ \A o \in OpsOf(t[1], t[2]) : sends[o] > 0
        /\ Range(line[w]) = {t} \cup Range(Tail(line[w]))
    BY <2>1, <2>2, NextTx
  <2>4. \A v \in Wallets : Range(line'[v]) \subseteq Range(line[v])
    BY <2>2, <2>3
  <2>5. \A v \in Wallets : \A u \in Range(line'[v]) : Known(u)'
    BY <1>1, <2>4
  <2>6. \A o \in executed' : sends'[o] > 0
    BY <2>2, <2>3 DEF TxInv
  <2> QED BY <2>5, <2>6 DEF TxInv
<1>5. (line' = line /\ executed' = executed)
      \/ (\E f \in Ops : Sends(f) \/ Loses(f)) \/ (\E w \in Wallets : Mines(w))
  BY DEF Class, Comes, Offers, Receives, Leaves, Gathers, Closes, Starts, Locks, Breaks,
         Reverts, Ends, GivesUp, Replies, Spoils, SameChain
<1> QED BY <1>2, <1>3, <1>4, <1>5

-----------------------------------------------------------------------------
\* A submission that is not retried op by op is of one op.
LEMMA AloneFacts ==
    ASSUME Types, ShapeInv, NEW f \in Ops, flush[f].pc # "none",
           flush[f].i # 0 \/ Len(flush[f].ops) = 1
    PROVE  LET k == IF flush[f].i = 0 THEN 1 ELSE flush[f].i IN
           /\ k \in 1 .. Len(flush[f].ops) /\ flush[f].ops[k] \in Ops
           /\ CurrentOps(f) = {flush[f].ops[k]} /\ Alone(f) = {flush[f].ops[k]}
<1> DEFINE k == IF flush[f].i = 0 THEN 1 ELSE flush[f].i
<1>1. /\ flush[f].ops \in Seq(Ops) /\ flush[f].i \in Nat
      /\ flush[f].i <= Len(flush[f].ops) /\ Len(flush[f].ops) \in Nat \ {0}
  BY FlushFacts
<1>2. k \in 1 .. Len(flush[f].ops)
  BY <1>1
<1>3. flush[f].ops[k] \in Ops
  BY <1>1, <1>2
<1>4. CurrentOps(f) = {flush[f].ops[k]}
  <2>1. CASE flush[f].i # 0
    BY <2>1, CurrentFacts
  <2>2. CASE flush[f].i = 0 /\ Len(flush[f].ops) = 1
    <3>1. CurrentOps(f) = Range(flush[f].ops)
      BY <2>2, CurrentFacts
    <3>2. Range(flush[f].ops) = {flush[f].ops[j] : j \in 1 .. 1}
      BY <1>1, <2>2, RangeFacts
    <3>3. 1 .. 1 = {1}
      OBVIOUS
    <3> QED BY <2>2, <3>1, <3>2, <3>3
  <2> QED BY <2>1, <2>2
<1>5. Cardinality({flush[f].ops[k]}) = 1
  BY FS_Singleton
<1>6. Alone(f) = {flush[f].ops[k]}
  BY <1>4, <1>5 DEF Alone
<1> QED BY <1>2, <1>3, <1>4, <1>6

LEMMA PendingSent ==
    ASSUME TxInv, NEW o \in executed \cup Pending
    PROVE  sends[o] > 0
<1>1. CASE o \in executed
  BY <1>1 DEF TxInv
<1>2. CASE o \in Pending
  <2>1. PICK w \in Wallets : o \in UNION {OpsOf(t[1], t[2]) : t \in Range(line[w])}
    BY <1>2 DEF Pending
  <2>2. PICK t \in Range(line[w]) : o \in OpsOf(t[1], t[2])
    BY <2>1
  <2> QED BY <2>2 DEF TxInv
<1> QED BY <1>1, <1>2

\* What has an answer is in no new transaction.
LEMMA AnsweredRest ==
    ASSUME Types, ShapeInv, PlaceInv, ReqInv, NEW o \in Ops, NEW f \in Ops,
           flush[f].pc \in Running, o \in Unanswered(f)
    PROVE  ~Answered(o, "err") /\ res[o] = <<>>
<1>1. res[o] = <<>> /\ req[o] \in {"wait", "cancelled"}
  BY DEF ReqInv, Waiting
<1>2. Range(<<>>) = {}
  BY DEF Range
<1> QED BY <1>1, <1>2 DEF Answered

LEMMA StepErr ==
    ASSUME Types, ShapeInv, PlaceInv, ReqInv, SendInv, TxInv, ErrInv,
           Types', ShapeInv', Class
    PROVE  ErrInv'
<1>g. Grows
  BY StepGrows
<1>s. sends \in [Ops -> Nat]
  BY DEF Types
<1>e. Range(<<>>) = {} /\ Range(<<"err">>) = {"err"} /\ Range(<<"ok">>) = {"ok"}
  BY SingleRange DEF Range
<1>x. ASSUME NEW o, Excused(o), sends'[o] = sends[o] \/ o \in unsure'
      PROVE  Excused(o)'
  BY <1>g, <1>x DEF Excused, Grows
<1>1. ASSUME NEW o \in Ops, Answered(o, "err")
      PROVE  Excused(o)'
  <2>1. Excused(o)
    BY <1>1 DEF ErrInv
  <2>2. ASSUME NEW f \in Ops, Takes(f)
        PROVE  sends'[o] = sends[o]
    <3>1. flush[f].pc \in Running
      BY <2>2 DEF Takes, Running
    <3>2. o \notin CurrentOps(f)
      BY <1>1, <3>1, AnsweredRest, UnansweredFacts
    <3> QED BY <2>2, <3>2 DEF Takes
  <2>3. UNCHANGED sends \/ \E f \in Ops : Takes(f)
    BY DEF Class, Comes, Offers, Receives, Leaves, Gathers, Closes, Starts, Locks, Breaks,
           Reverts, Sends, Loses, Ends, GivesUp, Replies, Mines, Spoils, SameHistory
  <2> QED BY <1>x, <2>1, <2>2, <2>3
<1>2. ASSUME NEW f \in Ops, NEW o, flush[f].pc = "answer", flush[f].out = "err",
             o = flush[f].ops[flush[f].i],
             UNCHANGED sends \/ \E g \in Ops : g # f /\ Takes(g)
      PROVE  Excused(o)'
  <2>1. flush[f].i \in 1 .. Len(flush[f].ops)
    BY <1>2, FlushFacts DEF ShapeInv
  <2>2. sends'[o] = sends[o]
    <3>1. ASSUME NEW g \in Ops, g # f, Takes(g)
          PROVE  sends'[o] = sends[o]
      <4>1. o \in Ops /\ o \notin CurrentOps(g)
        BY <1>2, <2>1, <3>1, OtherFlush DEF Takes
      <4> QED BY <3>1, <4>1 DEF Takes
    <3> QED BY <1>2, <3>1
  <2>3. Excused(o)
    BY <1>2 DEF ErrInv
  <2> QED BY <1>x, <2>2, <2>3
<1>3. ASSUME NEW f \in Ops, NEW o, flush'[f].pc = "answer", flush'[f].out = "err",
             o = flush'[f].ops[flush'[f].i]
      PROVE  Excused(o)'
  <2>1. CASE Else /\ UNCHANGED flush
    <3>1. UNCHANGED sends
      BY <2>1 DEF Else, Comes, Offers, Receives, Leaves, Gathers, Closes, Mines, Spoils,
                  SameHistory
    <3> QED BY <1>2, <1>3, <2>1, <3>1
  <2>2. ASSUME NEW g \in Ops, g # f, Starts(g) \/ Advances(g) \/ Replies(g)
        PROVE  Excused(o)'
    <3>1. OnlyFlush(g)
      BY <2>2, AdvanceFacts DEF Starts, Progress, Replies
    <3>2. UNCHANGED sends \/ Takes(g)
      BY <2>2 DEF Starts, Advances, Replies, Locks, Breaks, Reverts, Sends, Loses, Ends,
                  GivesUp, SameHistory
    <3>3. flush'[f] = flush[f]
      BY <2>2, <3>1 DEF OnlyFlush
    <3> QED BY <1>2, <1>3, <2>2, <3>2, <3>3
  <2>3. CASE Starts(f) \/ Locks(f) \/ Sends(f) \/ Ends(f)
    <3>1. flush'[f].pc # "answer" \/ flush'[f].out # "err"
      BY <2>3 DEF Starts, Locks, Sends, Ends, Goes, Settles
    <3> QED BY <1>3, <3>1
  <2>4. CASE Breaks(f) \/ Reverts(f) \/ Loses(f) \/ GivesUp(f)
    <3> DEFINE k == IF flush[f].i = 0 THEN 1 ELSE flush[f].i
    <3>1. Settles(f, "err") /\ flush[f].pc \in {"lock", "submit", "wait"}
      BY <2>4 DEF Breaks, Reverts, Loses, GivesUp, Takes
    <3>2. /\ ~(flush[f].i = 0 /\ Len(flush[f].ops) > 1)
          /\ flush'[f].i = k /\ flush'[f].ops = flush[f].ops
      BY <1>3, <3>1 DEF Settles
    <3>3. flush[f].i # 0 \/ Len(flush[f].ops) = 1
      <4>1. PICK n \in Nat \ {0} : n = Len(flush[f].ops)
        BY <3>1, FlushFacts
      <4>2. ~(n > 1) => n = 1
        OBVIOUS
      <4> QED BY <3>2, <4>1, <4>2
    <3>4. /\ k \in 1 .. Len(flush[f].ops) /\ o \in Ops /\ o = flush[f].ops[k]
          /\ CurrentOps(f) = {o} /\ Alone(f) = {o}
      BY <1>3, <3>1, <3>2, <3>3, AloneFacts
    <3>5. flush[f].pc \in {"lock", "submit"} => (sends[o] > 0 => o \in unsure)
      <4> SUFFICES ASSUME flush[f].pc \in {"lock", "submit"}, sends[o] > 0
                   PROVE  o \in unsure
        OBVIOUS
      <4>1. Counted(f, k) /\ sends[o] \in Nat /\ flush[f].i \in Nat /\ ~Whole(f)
        BY <1>s, <3>4, FlushFacts DEF SendInv, ShapeInv
      <4>2. flush[f].i = 0 => sends[o] = 0
        BY <3>4, <4>1 DEF Counted
      <4>3. flush[f].i # 0 => Due(f, k)
        BY <4>1 DEF Due
      <4>4. Due(f, k) => sends[o] <= 1 /\ (sends[o] = 1 => o \in unsure)
        BY <3>4, <4>1 DEF Counted
      <4> QED BY <4>1, <4>2, <4>3, <4>4
    <3>6. CASE Loses(f) \/ GivesUp(f)
      <4>1. o \in unsure'
        BY <3>4, <3>6 DEF Loses, GivesUp
      <4> QED BY <4>1 DEF Excused
    <3>7. CASE Breaks(f)
      <4>1. o \in faulted' /\ sends' = sends /\ unsure' = unsure
        BY <3>4, <3>7 DEF Breaks
      <4> QED BY <3>5, <3>7, <4>1 DEF Excused, Breaks
    <3>8. CASE Reverts(f)
      <4>1. o \in bad \cup (executed \cup Pending)
        BY <3>4, <3>8 DEF Reverts
      <4>2. sends[o] > 0 => o \in unsure
        BY <3>5, <3>8 DEF Reverts
      <4>3. Excused(o)
        BY <4>1, <4>2, PendingSent DEF Excused
      <4>4. UNCHANGED sends
        BY <3>8 DEF Reverts, SameHistory
      <4> QED BY <1>x, <4>3, <4>4
    <3> QED BY <2>4, <3>6, <3>7, <3>8
  <2>5. CASE Replies(f)
    <3>1. Whole(f) /\ flush[f].out = "err" /\ flush[f].i < Len(flush[f].ops)
      BY <1>3, <2>5 DEF Replies
    <3>2. Len(flush[f].ops) = 1 /\ flush[f].i \in Nat \ {0}
      BY <2>5, <3>1, FlushFacts DEF ShapeInv, Replies
    <3> QED BY <3>1, <3>2
  <2> QED BY <2>1, <2>2, <2>3, <2>4, <2>5, ElseFacts DEF Advances
<1>4. ASSUME NEW o \in Ops, Answered(o, "err")'
      PROVE  Excused(o)'
  <2>1. "err" \in Range(res'[o]) \/ req'[o] = "err"
    BY <1>4 DEF Answered
  <2>2. ASSUME NEW f \in Ops, Replies(f)
        PROVE  Excused(o)'
    <3>1. CASE o = flush[f].ops[flush[f].i]
      <4>1. /\ flush[f].pc = "answer" /\ UNCHANGED <<sends, req>>
            /\ res'[o] = <<flush[f].out>>
        BY <2>2, <3>1 DEF Replies, SameHistory
      <4>2. flush[f].out \in {"ok", "err"}
        BY FlushFields DEF Types, Answers
      <4>3. CASE flush[f].out = "err"
        BY <1>2, <3>1, <4>1, <4>3
      <4>4. CASE flush[f].out = "ok"
        BY <1>1, <1>e, <2>1, <4>1, <4>4 DEF Answered
      <4> QED BY <4>2, <4>3, <4>4
    <3>2. CASE o # flush[f].ops[flush[f].i]
      <4>1. res'[o] = res[o] /\ req' = req
        BY <2>2, <3>2 DEF Replies
      <4> QED BY <1>1, <2>1, <4>1 DEF Answered
    <3> QED BY <3>1, <3>2
  <2>3. ASSUME NEW p \in Ops, Comes(p) \/ Offers(p) \/ Receives(p) \/ Leaves(p)
        PROVE  Excused(o)'
    <3>1. CASE p # o
      <4>1. res'[o] = res[o] /\ req'[o] = req[o]
        BY <2>3, <3>1 DEF Comes, Offers, Receives, Leaves, OnlyReq
      <4> QED BY <1>1, <2>1, <4>1 DEF Answered
    <3>2. CASE p = o /\ ~Receives(o)
      <4>1. res'[o] = res[o] /\ req'[o] # "err"
        BY <2>3, <3>2 DEF Comes, Offers, Leaves, OnlyReq
      <4> QED BY <1>1, <2>1, <4>1 DEF Answered
    <3>3. CASE p = o /\ Receives(o)
      <4>1. res'[o] = <<>> /\ req'[o] = Head(res[o]) /\ res[o] # <<>>
        BY <3>3 DEF Receives, OnlyReq
      <4>2. Head(res[o]) = "err"
        BY <1>e, <2>1, <4>1
      <4>3. res[o] \in Seq(Answers)
        BY DEF Types, AnswerSeq
      <4>4. "err" \in Range(res[o])
        BY <4>1, <4>2, <4>3, TailFacts
      <4> QED BY <1>1, <4>4 DEF Answered
    <3> QED BY <2>3, <3>1, <3>2, <3>3
  <2>4. CASE UNCHANGED <<req, res>>
    BY <1>1, <2>1, <2>4 DEF Answered
  <2>5. \/ UNCHANGED <<req, res>>
        \/ \E p \in Ops : Comes(p) \/ Offers(p) \/ Receives(p) \/ Leaves(p)
        \/ \E f \in Ops : Replies(f)
    BY DEF Class, Gathers, Closes, Starts, Locks, Breaks, Reverts, Sends, Loses, Ends,
           GivesUp, Mines, Spoils, SameRequests
  <2> QED BY <2>2, <2>3, <2>4, <2>5
<1>5. \A f \in Ops : flush'[f].pc = "answer" /\ flush'[f].out = "err" =>
         LET o == flush'[f].ops[flush'[f].i] IN
         o \in bad' \cup faulted' \cup unsure' /\ (sends'[o] > 0 => o \in unsure')
  BY <1>3 DEF Excused
<1> QED BY <1>4, <1>5 DEF ErrInv, Excused
-----------------------------------------------------------------------------
(***************************************************************************)
(* The invariant                                                           *)
(***************************************************************************)
LEMMA InitIndInv == Init => IndInv
<1> SUFFICES ASSUME Init
             PROVE  IndInv
  OBVIOUS
<1>1. /\ \A f \in Ops : flush[f] = Idle /\ res[f] = <<>> /\ req[f] = "idle" /\ sends[f] = 0
      /\ \A w \in Wallets : line[w] = <<>>
      /\ ch = <<>> /\ disp.batch = <<>> /\ disp.pc = "recv" /\ executed = {}
  BY DEF Init
<1>2. \A f \in Ops : /\ flush[f].pc = "none" /\ flush[f].ops = <<>> /\ flush[f].i = 0
                     /\ ~Whole(f)
  BY <1>1 DEF Idle, Whole
<1>3. Range(<<>>) = {} /\ Once(<<>>) /\ Len(<<>>) = 0 /\ 1 .. 0 = {}
  BY DEF Range, Once
<1>4. \A f \in Ops : Unanswered(f) = {}
  BY <1>2 DEF Unanswered, InFlight, Running
<1>5. \A o \in Ops : ~Waiting(o) /\ ~Flushed(o)
  BY <1>1, <1>2, <1>3, <1>4 DEF Waiting, Flushed
<1>6. Types
  <2>1. Idle \in Flushes
    <3>1. 0 \in Index /\ NoOp \in WalletSet /\ <<>> \in OpSeq
      BY DEF Index, WalletSet, OpSeq
    <3> QED BY <3>1 DEF Idle, Flushes, FlushPCs, Answers
  <2>2. <<>> \in OpSeq /\ <<>> \in AnswerSeq /\ <<>> \in TxSeq
    BY DEF OpSeq, AnswerSeq, TxSeq
  <2>3. disp \in Dispatchers
    BY <2>2 DEF Init, Dispatchers, DispPCs
  <2>4. /\ req \in [Ops -> ReqPCs] /\ flush \in [Ops -> Flushes]
        /\ res \in [Ops -> AnswerSeq] /\ line \in [Wallets -> TxSeq]
        /\ sends \in [Ops -> Nat]
    BY <2>1, <2>2 DEF Init, ReqPCs
  <2>5. \A o \in Ops : Len(res[o]) <= 1
    BY <1>1, <1>3
  <2>6. Len(ch) <= ChanCap /\ Len(disp.batch) <= MaxBatch /\ ch \in OpSeq
    BY <1>1, <1>3, <2>2
  <2> QED BY <2>3, <2>4, <2>5, <2>6 DEF Init, Types
<1>7. ShapeInv
  BY <1>1, <1>2 DEF ShapeInv
<1>8. PlaceInv
  BY <1>1, <1>2, <1>3 DEF PlaceInv
<1>9. ReqInv
  BY <1>1, <1>5 DEF ReqInv
<1>10. SendInv
  BY <1>1, <1>2, <1>3 DEF SendInv
<1>11. TxInv
  BY <1>1, <1>3 DEF TxInv
<1>12. ErrInv
  BY <1>1, <1>2, <1>3 DEF ErrInv, Answered
<1> QED BY <1>6, <1>7, <1>8, <1>9, <1>10, <1>11, <1>12, TypeParts DEF IndInv

LEMMA StutterIndInv == IndInv /\ UNCHANGED vars => IndInv'
<1> SUFFICES ASSUME IndInv, UNCHANGED vars
             PROVE  IndInv'
  OBVIOUS
<1> USE DEF IndInv, vars
<1>1. Types'
  <2>1. Types
    BY TypeParts
  <2> QED BY <2>1 DEF Types
<1>2. ShapeInv'
  BY DEF ShapeInv, Whole
<1>3. PlaceInv'
  BY DEF PlaceInv, Once
<1>4. ReqInv'
  BY DEF ReqInv, Waiting, Flushed, Unanswered, InFlight
<1>5. SendInv'
  BY DEF SendInv, Counted, Due, Whole, Flushed
<1>6. TxInv'
  BY DEF TxInv, OpsOf
<1>7. ErrInv'
  BY DEF ErrInv, Excused, Answered
<1> QED BY <1>1, <1>2, <1>3, <1>4, <1>5, <1>6, <1>7, TypePartsNext

LEMMA NextIndInv == IndInv /\ [Next]_vars => IndInv'
<1> SUFFICES ASSUME IndInv, Next
             PROVE  IndInv'
  BY StutterIndInv
<1>0. Types /\ ShapeInv /\ PlaceInv /\ ReqInv /\ SendInv /\ TxInv /\ ErrInv
  BY TypeParts DEF IndInv
<1>1. Class /\ Types'
  BY <1>0, NextClasses
<1>2. ShapeInv'
  BY <1>0, <1>1, StepShape
<1>3. PlaceInv'
  BY <1>0, <1>1, <1>2, StepPlace
<1>4. ReqInv'
  BY <1>0, <1>1, <1>2, <1>3, StepReq
<1>5. SendInv'
  BY <1>0, <1>1, <1>2, StepSend
<1>6. TxInv'
  BY <1>0, <1>1, <1>2, StepTx
<1>7. ErrInv'
  BY <1>0, <1>1, <1>2, StepErr
<1> QED BY <1>1, <1>2, <1>3, <1>4, <1>5, <1>6, <1>7, TypePartsNext DEF IndInv

LEMMA Invariant == Spec => []IndInv
<1> QED BY InitIndInv, NextIndInv, PTL DEF Spec

\* An op in a sequence without repetition is at one place of it.
LEMMA OncePlace ==
    ASSUME NEW S, NEW s \in Seq(S), Once(s), NEW o
    PROVE  Cardinality({j \in DOMAIN s : s[j] = o}) = IF o \in Range(s) THEN 1 ELSE 0
<1> DEFINE P == {j \in DOMAIN s : s[j] = o}
<1>1. DOMAIN s = 1 .. Len(s)
  OBVIOUS
<1>2. CASE o \in Range(s)
  <2>1. PICK j \in 1 .. Len(s) : s[j] = o
    BY <1>2, RangeFacts
  <2>2. P = {j}
    BY <1>1, <2>1 DEF Once
  <2> HIDE DEF P
  <2>3. Cardinality(P) = 1
    BY <2>2, FS_Singleton
  <2> QED BY <1>2, <2>3 DEF P
<1>3. CASE o \notin Range(s)
  <2>1. P = {}
    BY <1>1, <1>3, RangeFacts
  <2> QED BY <1>3, <2>1, FS_EmptySet
<1> QED BY <1>2, <1>3

LEMMA RestPlace ==
    ASSUME Types, ShapeInv, PlaceInv, NEW o \in Ops
    PROVE  Cardinality({f \in Ops : o \in Unanswered(f)}) = IF InRest(o) THEN 1 ELSE 0
<1> DEFINE P == {f \in Ops : o \in Unanswered(f)}
<1>1. CASE InRest(o)
  <2>1. PICK f \in Ops : o \in Unanswered(f)
    BY <1>1 DEF InRest
  <2>2. \A g \in Ops : o \in Unanswered(g) => g = f
    BY <2>1, UnansweredFacts DEF PlaceInv
  <2>3. P = {f}
    BY <2>1, <2>2
  <2> HIDE DEF P
  <2>4. Cardinality(P) = 1
    BY <2>3, FS_Singleton
  <2> QED BY <1>1, <2>4 DEF P
<1>2. CASE ~InRest(o)
  <2>1. P = {}
    BY <1>2 DEF InRest
  <2> QED BY <1>2, <2>1, FS_EmptySet
<1> QED BY <1>1, <1>2

LEMMA PlacesFacts ==
    ASSUME Types, ShapeInv, PlaceInv, NEW o \in Ops
    PROVE  Places(o) = IF Waiting(o) THEN 1 ELSE 0
<1> DEFINE c == Cardinality({j \in DOMAIN ch : ch[j] = o})
           b == Cardinality({j \in DOMAIN disp.batch : disp.batch[j] = o})
           r == Cardinality({f \in Ops : o \in Unanswered(f)})
<1>1. Places(o) = c + b + r
  BY DEF Places
<1>2. disp.batch \in Seq(Ops) /\ ch \in Seq(Ops)
  BY DispFields DEF Types, OpSeq
<1>3. c = IF o \in Range(ch) THEN 1 ELSE 0
  BY <1>2, OncePlace DEF PlaceInv
<1>4. b = IF o \in Range(disp.batch) THEN 1 ELSE 0
  BY <1>2, OncePlace DEF PlaceInv
<1>5. r = IF InRest(o) THEN 1 ELSE 0
  BY RestPlace
<1> HIDE DEF c, b, r
<1>6. ~(o \in Range(ch) /\ o \in Range(disp.batch))
  BY DEF PlaceInv
<1>7. o \in Range(ch) \cup Range(disp.batch) => ~InRest(o)
  BY RestFacts DEF Queued
<1>8. Waiting(o) <=> o \in Range(ch) \/ o \in Range(disp.batch) \/ InRest(o)
  BY DEF Waiting, InRest
<1> QED BY <1>1, <1>3, <1>4, <1>5, <1>6, <1>7, <1>8

-----------------------------------------------------------------------------
(***************************************************************************)
(* The theorems                                                            *)
(***************************************************************************)
\* Every state of the batcher has its types: channel, batches and result
\* channels keep to their capacities.
THEOREM TypeCorrect == Spec => []TypeOK
<1>1. IndInv => TypeOK
  BY DEF IndInv
<1> QED BY <1>1, Invariant, PTL

\* Enqueue, dispatch and flush neither lose an op nor handle it twice: until
\* its answer is written it is in the channel, in the gathered batch or in
\* one flush.
THEOREM OpInOnePlaceHolds == Spec => []OpInOnePlace
<1>1. IndInv => OpInOnePlace
  <2> SUFFICES ASSUME IndInv, NEW o \in Ops
               PROVE  /\ Places(o) <= 1
                      /\ req[o] = "wait" => Places(o) + Len(res[o]) = 1
                      /\ req[o] \in {"idle", "load", "offer"} =>
                            Places(o) + Len(res[o]) = 0
    BY DEF OpInOnePlace
  <2>0. Types /\ ShapeInv /\ PlaceInv /\ ReqInv
    BY TypeParts DEF IndInv
  <2>1. Places(o) = IF Waiting(o) THEN 1 ELSE 0
    BY <2>0, PlacesFacts
  <2>2. PICK n \in {0, 1} : n = Len(res[o]) /\ (n = 0 <=> res[o] = <<>>)
    <3>1. res[o] \in Seq(Answers) /\ Len(res[o]) <= 1
      BY <2>0 DEF Types, AnswerSeq
    <3>2. Len(res[o]) \in Nat /\ (Len(res[o]) = 0 <=> res[o] = <<>>)
      BY <3>1
    <3>3. \A k \in Nat : k <= 1 => k \in {0, 1}
      OBVIOUS
    <3> QED BY <3>1, <3>2, <3>3
  <2>3. /\ Waiting(o) => res[o] = <<>> /\ req[o] \in {"wait", "cancelled"}
        /\ req[o] = "wait" /\ ~Waiting(o) => res[o] # <<>>
        /\ req[o] \in {"idle", "load", "offer"} => res[o] = <<>>
    <3>1. o \notin Range(ch) \cup Range(disp.batch) \/ Waiting(o)
      BY DEF Waiting
    <3> QED BY <2>0, <3>1 DEF ReqInv
  <2>4. CASE Waiting(o)
    <3>1. n = 0 /\ Places(o) = 1 /\ req[o] \in {"wait", "cancelled"}
      BY <2>1, <2>2, <2>3, <2>4
    <3> QED BY <2>2, <3>1
  <2>5. CASE ~Waiting(o)
    <3>1. Places(o) = 0 /\ (req[o] = "wait" => n = 1)
      <4>1. Places(o) = 0
        BY <2>1, <2>5
      <4>2. req[o] = "wait" => n # 0
        BY <2>2, <2>3, <2>5
      <4> QED BY <4>1, <4>2
    <3>2. req[o] \in {"idle", "load", "offer"} => n = 0
      BY <2>2, <2>3
    <3> QED BY <2>2, <3>1, <3>2
  <2> QED BY <2>4, <2>5
<1> QED BY <1>1, Invariant, PTL

\* The buffer of one of queuedOp.res is enough: a flush finds it empty,
\* whether or not the request is still there.
THEOREM AnswerNeverBlocksHolds == Spec => []AnswerNeverBlocks
<1>1. IndInv => AnswerNeverBlocks
  <2> SUFFICES ASSUME IndInv, NEW f \in Ops, flush[f].pc = "answer"
               PROVE  res[flush[f].ops[flush[f].i]] = <<>>
    BY DEF AnswerNeverBlocks
  <2>0. Types /\ ShapeInv /\ PlaceInv /\ ReqInv
    BY TypeParts DEF IndInv
  <2>1. flush[f].pc \in Running /\ flush[f].i # 0
    BY <2>0 DEF Running, ShapeInv
  <2>2. flush[f].ops[flush[f].i] \in CurrentOps(f)
    BY <2>1 DEF CurrentOps, OpsOf
  <2>3. flush[f].ops[flush[f].i] \in Unanswered(f)
    BY <2>0, <2>1, <2>2, UnansweredFacts
  <2>4. flush[f].ops[flush[f].i] \in Ops
    BY <2>0, <2>2, CurrentFacts
  <2> QED BY <2>0, <2>3, <2>4 DEF ReqInv, Waiting
<1> QED BY <1>1, Invariant, PTL

\* The retry of flush op by op isolates failures: a request gets an error
\* only for its own op, its own outage or a transaction that was given up.
THEOREM FailureIsIsolatedHolds == Spec => []FailureIsIsolated
<1>1. IndInv => FailureIsIsolated
  BY DEF IndInv, ErrInv, Excused, FailureIsIsolated
<1> QED BY <1>1, Invariant, PTL

\* An op is sent a second time only by the retry after an unanswered batch,
\* and never a third time.
THEOREM ResentOnlyIfUnsureHolds == Spec => []ResentOnlyIfUnsure
<1>1. IndInv => ResentOnlyIfUnsure
  <2> SUFFICES ASSUME IndInv, NEW o \in Ops, sends[o] > 1
               PROVE  o \in unsure /\ sends[o] = 2
    BY DEF ResentOnlyIfUnsure
  <2>0. Types /\ SendInv
    BY TypeParts DEF IndInv
  <2>1. PICK n \in Nat : n = sends[o] /\ n > 1
    BY <2>0 DEF Types
  <2>2. PICK f \in Ops : o \in Range(flush[f].ops)
    <3>1. n # 0
      BY <2>1
    <3> QED BY <2>0, <2>1, <3>1 DEF SendInv, Flushed
  <2>3. flush[f].ops \in Seq(Ops)
    BY <2>0, FlushFields DEF Types, OpSeq
  <2>4. PICK j \in 1 .. Len(flush[f].ops) : flush[f].ops[j] = o
    BY <2>2, <2>3, RangeFacts
  <2>5. n <= 2 /\ (n = 2 => o \in unsure)
    <3>1. Counted(f, j)
      BY <2>0 DEF SendInv
    <3> QED BY <2>1, <2>4, <3>1 DEF Counted
  <2> QED BY <2>1, <2>5
<1> QED BY <1>1, Invariant, PTL

\* A caller that gets an error may tell its user that the op did not happen,
\* unless flush gave up a transaction that holds it.
THEOREM ErrorIsFinalHolds == Spec => []ErrorIsFinal
<1>1. IndInv => ErrorIsFinal
  <2> SUFFICES ASSUME IndInv, NEW o \in Ops, Answered(o, "err"), o \notin unsure,
                      o \in executed \cup Pending
               PROVE  FALSE
    BY DEF ErrorIsFinal
  <2>1. TxInv /\ Excused(o)
    BY DEF IndInv, ErrInv
  <2>2. sends[o] > 0
    BY <2>1, PendingSent
  <2> QED BY <2>1, <2>2 DEF Excused
<1> QED BY <1>1, Invariant, PTL
=============================================================================
