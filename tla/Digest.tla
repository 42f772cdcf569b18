------------------------------- MODULE Digest -------------------------------
(***************************************************************************)
(* Identification (src/c4/id.cpp): every thread has one OpenSSL digest       *)
(* context, which Identify and Sum initialise, feed and finalise in several  *)
(* calls.  A source of data may fail at any read, and any call to the digest *)
(* library may fail, which leaves the context as it is.                      *)
(*                                                                         *)
(* SHA-512 is taken to be free of collisions: a digest is what was hashed.   *)
(***************************************************************************)
EXTENDS Integers, Sequences

CONSTANTS Threads,
          Bytes,        \* what data is made of; an operand of Sum is one too
          Inputs,       \* data to identify
          BlockSize     \* bytes asked of a stream or descriptor at a time

ASSUME DigestAssumption ==
  /\ Bytes \subseteq Nat
  /\ Inputs \subseteq Seq(Bytes)
  /\ BlockSize \in Nat \ {0}

VARIABLES ctx,          \* per thread: the bytes its context holds
          call,         \* per thread: the call under way
          answer        \* per thread: the last call, with its outcome

state == <<ctx, call, answer>>

Ops == {"buffer", "stream", "fd", "sum"}

\* phase: "read" gathers a descriptor's bytes, "init", "feed" and "final" are
\* the three steps of a digest.  taken: bytes read or hashed so far.  failed:
\* the source reported an error.
NewCall(op, data) ==
  [op |-> op, data |-> data, taken |-> 0, failed |-> FALSE,
   phase |-> IF op = "fd" THEN "read" ELSE "init"]

Idle == [op |-> "idle", data |-> <<>>, taken |-> 0, failed |-> FALSE, phase |-> "idle"]

Unanswered ==
  [op |-> "idle", data |-> <<>>, failed |-> FALSE, outcome |-> "none", digest |-> <<>>]

NoCalls ==
  /\ ctx = [t \in Threads |-> <<>>]
  /\ call = [t \in Threads |-> Idle]
  /\ answer = [t \in Threads |-> Unanswered]

\* Identify of a buffer, of a stream (IdentifyFile opens one), c4_identify_fd.
BeginIdentify(t) ==
  /\ call[t].op = "idle"
  /\ \E op \in {"buffer", "stream", "fd"}, data \in Inputs :
       call' = [call EXCEPT ![t] = NewCall(op, data)]
  /\ UNCHANGED <<ctx, answer>>

\* Sum of two different IDs.
BeginSum(t) ==
  /\ call[t].op = "idle"
  /\ \E a, b \in Bytes : a # b /\ call' = [call EXCEPT ![t] = NewCall("sum", <<a, b>>)]
  /\ UNCHANGED <<ctx, answer>>

\* Sum of an ID with itself returns it and hashes nothing.
SumOfEqual(t) ==
  /\ call[t].op = "idle"
  /\ \E a \in Bytes :
       answer' = [answer EXCEPT ![t] = [op |-> "sum", data |-> <<a, a>>, failed |-> FALSE,
                                        outcome |-> "ok", digest |-> <<a>>]]
  /\ UNCHANGED <<ctx, call>>

Return(t, outcome, digest) ==
  /\ answer' = [answer EXCEPT ![t] =
       [op |-> call[t].op, data |-> call[t].data, failed |-> call[t].failed,
        outcome |-> outcome, digest |-> digest]]
  /\ call' = [call EXCEPT ![t] = Idle]

-----------------------------------------------------------------------------
(* c4_identify_fd: read until read() returns 0, then Identify the whole.     *)

Left(t) == Len(call[t].data) - call[t].taken

\* At most one block; a descriptor may give less.
FdRead(t) ==
  /\ call[t].phase = "read"
  /\ IF Left(t) = 0
     THEN call' = [call EXCEPT ![t].phase = "init", ![t].taken = 0]
     ELSE \E n \in 1..BlockSize :
            n <= Left(t) /\ call' = [call EXCEPT ![t].taken = @ + n]
  /\ UNCHANGED <<ctx, answer>>

FdError(t) ==
  /\ call[t].phase = "read"
  /\ Return(t, "error", <<>>)
  /\ UNCHANGED ctx

-----------------------------------------------------------------------------
(* The digest.                                                               *)

InitDigestKeepingContext(t) ==
  /\ call[t].phase = "init"
  /\ call' = [call EXCEPT ![t].phase = "feed"]
  /\ UNCHANGED <<ctx, answer>>

\* EVP_DigestInit_ex on the context the thread used before.
InitDigest(t) ==
  /\ call[t].phase = "init"
  /\ ctx' = [ctx EXCEPT ![t] = <<>>]
  /\ call' = [call EXCEPT ![t].phase = "feed"]
  /\ UNCHANGED answer

SumTextAsGiven(data) == data

\* Sum hashes the smaller operand first.
SumText(data) == IF data[1] < data[2] THEN data ELSE <<data[2], data[1]>>

\* The bytes a call hashes, in order.
Text(c) == IF c.op = "sum" THEN SumText(c.data) ELSE c.data

\* EVP_DigestUpdate with the next n bytes.
Update(t, n) ==
  ctx' = [ctx EXCEPT ![t] =
            @ \o SubSeq(Text(call[t]), call[t].taken + 1, call[t].taken + n)]

\* A buffer is one update, the operands of Sum are one each.
Feed(t) ==
  /\ call[t].phase = "feed"
  /\ call[t].op \in {"buffer", "fd", "sum"}
  /\ LET n == IF call[t].op = "sum" THEN 1 ELSE Left(t)
     IN /\ Update(t, n)
        /\ call' = [call EXCEPT ![t].taken = @ + n,
                                ![t].phase = IF Left(t) = n THEN "final" ELSE "feed"]
  /\ UNCHANGED answer

\* stream.read gives less than a block only at the end, where gcount tells how
\* much; the read after that gives nothing.
ReadBlock(t) ==
  /\ call[t].phase = "feed"
  /\ call[t].op = "stream"
  /\ LET n == IF Left(t) < BlockSize THEN Left(t) ELSE BlockSize
     IN /\ Update(t, n)
        /\ call' = [call EXCEPT ![t].taken = @ + n,
                                ![t].phase = IF n < BlockSize THEN "final" ELSE "feed"]
  /\ UNCHANGED answer

\* The source fails before the end.  istream::read sets badbit, which ends the
\* loop as the end of the stream does; what it got before is hashed.
StreamError(t) ==
  /\ call[t].phase = "feed"
  /\ call[t].op = "stream"
  /\ \E n \in 0..(BlockSize - 1) :
       /\ n < Left(t)
       /\ Update(t, n)
       /\ call' = [call EXCEPT ![t].taken = @ + n, ![t].failed = TRUE, ![t].phase = "final"]
  /\ UNCHANGED answer

\* EVP_DigestFinal_ex.
Finish(t) ==
  /\ call[t].phase = "final"
  /\ Return(t, "ok", ctx[t])
  /\ UNCHANGED ctx

\* A library call fails: Identify throws, the context stays as it is.
LibraryFault(t) ==
  /\ call[t].phase \in {"init", "feed", "final"}
  /\ Return(t, "error", <<>>)
  /\ UNCHANGED ctx

Step(t) ==
  \/ BeginIdentify(t) \/ BeginSum(t) \/ SumOfEqual(t)
  \/ FdRead(t) \/ FdError(t)
  \/ InitDigest(t) \/ Feed(t) \/ ReadBlock(t) \/ StreamError(t)
  \/ Finish(t) \/ LibraryFault(t)

AnyStep == \E t \in Threads : Step(t)

Identifying == NoCalls /\ [][AnyStep]_state

-----------------------------------------------------------------------------
CallType ==
  {c \in [op : Ops \cup {"idle"}, data : Seq(Bytes), taken : Nat, failed : BOOLEAN,
          phase : {"idle", "read", "init", "feed", "final"}] : c.taken <= Len(c.data)}

AnswerType ==
  [op : Ops \cup {"idle"}, data : Seq(Bytes), failed : BOOLEAN,
   outcome : {"none", "ok", "error"}, digest : Seq(Bytes)]

\* Contexts hold bytes, calls and answers are records of their kinds, and no
\* call has taken more than there is.
TypeOK ==
  /\ ctx \in [Threads -> Seq(Bytes)]
  /\ call \in [Threads -> CallType]
  /\ answer \in [Threads -> AnswerType]

IsOwnDigest(a) ==
  a.outcome = "ok" /\ a.op # "sum" =>
    IF a.failed
    THEN /\ a.op = "stream"
         /\ \E n \in 0..(Len(a.data) - 1) : a.digest = SubSeq(a.data, 1, n)
    ELSE a.digest = a.data

\* An Identify that returned hashed its own input from first byte to last, or,
\* of a stream that failed, the part before the failure: nothing of an earlier
\* or abandoned call on the thread's context, of another thread's, and no byte
\* dropped or taken twice at a block boundary.
OwnDigest == \A t \in Threads : IsOwnDigest(answer[t])

\* Sum does not depend on the order of its operands, nor on the thread.
SumCommutes ==
  \A s, t \in Threads :
    /\ answer[s].op = "sum" /\ answer[s].outcome = "ok"
    /\ answer[t].op = "sum" /\ answer[t].outcome = "ok"
    /\ answer[s].data[1] = answer[t].data[2] /\ answer[s].data[2] = answer[t].data[1]
    => answer[s].digest = answer[t].digest
=============================================================================
