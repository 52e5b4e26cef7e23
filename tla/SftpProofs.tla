---------------------------- MODULE SftpProofs ----------------------------
(***************************************************************************)
(* Proofs about Sftp, for transfers of any size with any buffer length and *)
(* number of requests under way: a transfer that reports success has made  *)
(* an exact copy, which only a truncation that failed may leave followed   *)
(* by the rest of an old file, and one that fails leaves no hole.          *)
(*                                                                         *)
(* The invariant says of every block of the source where it is: in the     *)
(* destination, in a request the client still waits for, or in a write the *)
(* server has still to do, unless an error is on record or on its way.     *)
(***************************************************************************)
EXTENDS Sftp, SequenceTheorems, WellFoundedInduction, TLAPS

----------------------------------------------------------------------------
(* Types.                                                                  *)

Op == {"open", "read", "write", "fsetstat", "close"}
ReqRec == [op : Op, id : Nat, off : Nat, len : Nat, trunc : BOOLEAN, append : BOOLEAN]
RepRec == [id : Nat, type : {"HANDLE", "OK", "DATA", "EOF", "FAILURE"}, len : Nat]
Server == [in : Seq(ReqRec), iqueue : Seq(ReqRec), oqueue : Seq(RepRec), out : Seq(RepRec), append : BOOLEAN]
Block == [id : Nat, off : Nat, len : Nat]
PC == {"open_from", "opening_from", "open_to", "opening_to", "local", "loop", "wait", "settle", "drain",
       "discard", "discarding", "reopen", "reopening", "close_from", "closing_from", "close_to", "closing_to",
       "up", "ack", "uploaded", "truncating", "finish", "finishing", "done", "fatal", "zerolen"}
Status == {"", "ok", "failure"}
Locals ==
    [pc : PC, msg_id : [Servers -> Nat], requests : Seq(Block), offset : Nat, max_req : Nat,
     buflen : Nat, seen_zerolen : BOOLEAN, read_error : BOOLEAN, write_error : BOOLEAN,
     highwater : Nat, maxack : Nat, reordered : BOOLEAN, status : Status, num_upload : Int,
     id : Nat, ackid : Nat, startid : Nat, to_open : BOOLEAN, uncut : BOOLEAN]

TypeInv == /\ job \in Jobs /\ x \in Locals /\ srv \in [Servers -> Server] /\ file \in Seq(Int)
           /\ interrupted \in BOOLEAN /\ failed \in Nat

----------------------------------------------------------------------------
(* The invariant.                                                          *)

\* What a server has still to do, and has answered, in order.
Work(s) == srv[s].iqueue \o srv[s].in
Answers(s) == srv[s].out \o srv[s].oqueue
Quiet(s) == Work(s) = <<>> /\ Answers(s) = <<>>
\* One call, not yet answered or answered.
Calling(s) == Len(Work(s)) + Len(Answers(s)) = 1
El(s) == {s[i] : i \in 1..Len(s)}
Asked(s) == El(Work(s))
Told(s) == El(Answers(s))
Wanted == El(x.requests)

\* Block b of the destination is the source's.
Good(f, b) == b \in 1..Len(f) /\ f[b] = b
In(q, b) == q.off < b /\ b <= q.off + q.len

\* A file that is what it was or the beginning of the source.
Fine(f) == f = Before(job) \/ IsPrefix(f, Source)

\* A copy made in place, which the rest of the old file may follow.
Followed == job.inplace /\ IsPrefix(Source, file)

\* Replies of "from" belong to the requests with their ids.
MatchInv ==
    /\ \A q \in Asked("from") : q.id < x.msg_id["from"] /\ q.op \in {"open", "read", "close"}
    /\ \A m \in Told("from") : m.id < x.msg_id["from"]
    /\ \A r \in Wanted :
        /\ r.id < x.msg_id["from"] /\ r.off + r.len <= x.offset
        /\ \A q \in Asked("from") : q.id = r.id => q.op = "read" /\ q.off = r.off /\ q.len = r.len
        /\ \A m \in Told("from") : m.id = r.id => /\ m.type = "DATA" => r.off + m.len <= job.size
                                                  /\ m.type = "EOF" => r.off >= job.size

\* A loop that stops asking has asked for everything, or has a reason.
EndInv == x.max_req = 0 => x.read_error \/ x.write_error \/ interrupted \/ x.offset >= job.size
Over == x.requests = <<>> /\ (x.max_req = 0 \/ interrupted)

Start == IF job.resume THEN job.old ELSE 0

Fresh == /\ x.requests = <<>> /\ x.offset = 0 /\ x.max_req = 1 /\ ~x.read_error /\ ~x.write_error
         /\ x.maxack = 0 /\ ~x.reordered /\ x.status = "" /\ x.num_upload = 0 /\ ~x.to_open
         /\ x.highwater = 0

DownLoop ==
    /\ EndInv /\ (x.write_error <=> failed > 0)
    /\ ~x.read_error /\ ~x.write_error => \A b \in 1..job.size : b <= x.offset =>
          (Good(file, b) /\ b <= x.maxack) \/ \E r \in Wanted : In(r, b)
    /\ x.maxack <= job.size /\ x.highwater <= x.maxack
    /\ ~job.inplace => Len(file) <= job.size
    /\ failed <= 1 => \A b \in 1..x.highwater : Good(file, b)
    /\ ~x.reordered => x.maxack = x.highwater
    /\ ~x.to_open

DownResult ==
    \/ (x.status = "ok" => file = Source) /\ (failed <= 1 => Fine(file))
    \/ x.uncut /\ (x.status = "ok" => Followed)

DownPhase ==
    \/ x.pc \in {"open_from", "opening_from", "local"} /\ Fresh /\ file = Before(job) /\ failed = 0
    \/ x.pc \in {"loop", "wait"} /\ DownLoop
    \/ x.pc = "settle" /\ DownLoop /\ Over
    \/ x.pc \in {"close_from", "closing_from", "done"} /\ x.requests = <<>> /\ ~x.to_open /\ DownResult

DownInv == srv["to"] = Idle /\ MatchInv /\ DownPhase

Failing(s) == \E m \in Told(s) : m.type = "FAILURE"

CrossLoop ==
    /\ EndInv
    /\ \A q \in Asked("to") : q.op = "write" /\ q.off + q.len <= job.size
    /\ \A m \in Told("to") : m.type \in {"OK", "FAILURE"}
    /\ x.num_upload = Len(Work("to")) + Len(Answers("to"))
    /\ Len(file) <= job.size
    /\ ~x.read_error /\ ~x.write_error /\ ~Failing("to") => \A b \in 1..job.size : b <= x.offset =>
          \/ Good(file, b) \/ \E r \in Wanted : In(r, b)
          \/ \E q \in Asked("to") : In(q, b)

CrossDone == (x.status = "ok" => file = Source) /\ (failed = 0 => Fine(file)) /\ x.requests = <<>>

\* The destination is being opened, to be truncated.
Truncating ==
    /\ Calling("to") /\ x.requests = <<>>
    /\ \A q \in Asked("to") : q.op = "open" /\ q.trunc /\ ~q.append
    /\ \A m \in Told("to") : \/ m.type = "HANDLE" /\ file = <<>>
                             \/ m.type = "FAILURE" /\ failed > 0

\* It is being closed.
Closing(s) == Calling(s) /\ \A q \in Asked(s) : q.op = "close"

CrossPhase ==
    \/ /\ x.pc \in {"open_from", "opening_from", "open_to"} /\ Quiet("to")
       /\ Fresh /\ file = Before(job) /\ failed = 0
    \/ x.pc = "opening_to" /\ Truncating /\ Fresh
    \/ x.pc \in {"loop", "wait"} /\ CrossLoop
    \/ x.pc = "drain" /\ CrossLoop /\ Over
    \/ x.pc \in {"discard", "reopen"} /\ x.status = "failure" /\ Quiet("to") /\ x.requests = <<>>
    \/ x.pc = "discarding" /\ x.status = "failure" /\ Closing("to") /\ x.requests = <<>>
    \/ x.pc = "reopening" /\ x.status = "failure" /\ Truncating
    \/ x.pc \in {"close_from", "closing_from", "close_to", "done"} /\ Quiet("to") /\ CrossDone
    \/ x.pc = "closing_to" /\ Closing("to") /\ CrossDone

CrossInv == MatchInv /\ ~srv["to"].append /\ CrossPhase

\* Where the next block the server writes begins.
Reached == IF Work("to") = <<>> THEN x.offset ELSE Work("to")[1].off

UpLoop ==
    /\ srv["to"].append = job.resume
    /\ \A i \in 1..Len(Work("to")) :
          /\ Work("to")[i].op = "write"
          /\ Work("to")[i].off + Work("to")[i].len =
                IF i = Len(Work("to")) THEN x.offset ELSE Work("to")[i + 1].off
    /\ \A m \in Told("to") : m.type \in {"OK", "FAILURE"}
    /\ Len(x.requests) = Len(Work("to")) + Len(Answers("to"))
    /\ failed > 0 <=> x.write_error \/ Failing("to")
    /\ failed = 0 => /\ \A b \in 1..Reached : Good(file, b)
                     /\ job.resume \/ ~job.inplace => Len(file) = Reached
    /\ Start <= x.offset /\ x.offset <= job.size /\ (job.resume => job.old < job.size)
    /\ \A r \in Wanted : r.off + r.len <= x.offset
    /\ x.maxack <= x.offset /\ x.highwater <= x.offset
    /\ \/ x.offset = Start \/ x.offset = x.maxack
       \/ \E r \in Wanted : r.off + r.len = x.offset

UpFinal(f) == /\ x.status = "ok" /\ ~interrupted => f = Source
              /\ failed = 0 => Fine(f)

\* What it must be if it could not be cut.
UpTail == x.status = "ok" /\ ~interrupted => Followed
UpUncut == failed # 0 /\ UpTail
UpResult == UpFinal(file) \/ (x.uncut /\ UpUncut)

UpPhase ==
    \/ x.pc = "open_to" /\ Quiet("to") /\ Fresh /\ file = Before(job) /\ failed = 0
    \/ /\ x.pc = "opening_to" /\ Calling("to") /\ Fresh /\ (job.resume => job.old < job.size)
       /\ \A q \in Asked("to") : /\ q.op = "open" /\ q.append = job.resume
                                 /\ q.trunc = ~(job.resume \/ job.inplace)
                                 /\ file = Before(job) /\ failed = 0
       /\ \A m \in Told("to") :
             \/ /\ m.type = "HANDLE" /\ srv["to"].append = job.resume /\ failed = 0
                /\ file = IF job.resume \/ job.inplace THEN Before(job) ELSE <<>>
             \/ m.type = "FAILURE" /\ failed > 0
    \/ x.pc \in {"up", "ack"} /\ UpLoop
    \/ /\ x.pc = "uploaded" /\ UpLoop /\ x.requests = <<>>
       /\ interrupted \/ x.write_error \/ x.offset = job.size
    \/ /\ x.pc = "truncating" /\ Calling("to")
       /\ \A q \in Asked("to") : q.op = "fsetstat" /\ UpFinal(Truncated(file, q.len)) /\ UpTail
       /\ \A m \in Told("to") : (m.type = "OK" /\ UpFinal(file)) \/ (m.type = "FAILURE" /\ UpUncut)
    \/ x.pc \in {"finish", "done"} /\ Quiet("to") /\ UpResult
    \/ x.pc = "finishing" /\ Closing("to") /\ UpResult

UpInv == srv["from"] = Idle /\ UpPhase

KindInv == /\ job.kind = "download" => DownInv
           /\ job.kind = "crossload" => CrossInv
           /\ job.kind = "upload" => UpInv
\* The client gave up on a server.
Broken == x.pc \in {"fatal", "zerolen"}
IInv == TypeInv /\ (Broken \/ KindInv)

----------------------------------------------------------------------------
(* Sequences and their elements.                                           *)

LEMMA ElType ==
    ASSUME NEW S, NEW s \in Seq(S)
    PROVE  /\ El(s) \subseteq S /\ Len(s) \in Nat /\ (El(s) = {} <=> s = <<>>) /\ (Len(s) = 0 <=> s = <<>>)
           /\ \A i \in 1..Len(s) : s[i] \in El(s)
<1>1. Len(s) \in Nat /\ \A i \in 1..Len(s) : s[i] \in S
  OBVIOUS
<1>2. Len(s) = 0 <=> s = <<>>
  BY EmptySeq
<1>3. El(s) = {} <=> Len(s) = 0
  BY <1>1 DEF El
<1> QED BY <1>1, <1>2, <1>3 DEF El

LEMMA ElCat ==
    ASSUME NEW S, NEW s \in Seq(S), NEW t \in Seq(S)
    PROVE  s \o t \in Seq(S) /\ Len(s \o t) = Len(s) + Len(t) /\ El(s \o t) = El(s) \cup El(t)
<1>1. s \o t \in Seq(S) /\ Len(s \o t) = Len(s) + Len(t) /\ Len(s) \in Nat /\ Len(t) \in Nat
  BY ConcatProperties
<1>2. \A i \in 1..Len(s) + Len(t) : (s \o t)[i] = IF i <= Len(s) THEN s[i] ELSE t[i - Len(s)]
  BY ConcatProperties
<1>3. El(s \o t) \subseteq El(s) \cup El(t)
  BY <1>1, <1>2 DEF El
<1>4. \A i \in 1..Len(s) : i \in 1..Len(s) + Len(t) /\ (s \o t)[i] = s[i]
  BY <1>1, <1>2
<1>5. \A i \in 1..Len(t) : Len(s) + i \in 1..Len(s) + Len(t) /\ (s \o t)[Len(s) + i] = t[i]
  BY <1>1, <1>2
<1>6. El(s) \subseteq El(s \o t) /\ El(t) \subseteq El(s \o t)
  BY <1>1, <1>4, <1>5 DEF El
<1> QED BY <1>1, <1>3, <1>6

LEMMA ElAppend ==
    ASSUME NEW S, NEW s \in Seq(S), NEW e \in S
    PROVE  Append(s, e) \in Seq(S) /\ Len(Append(s, e)) = Len(s) + 1 /\ El(Append(s, e)) = El(s) \cup {e}
<1>1. Append(s, e) \in Seq(S) /\ Len(Append(s, e)) = Len(s) + 1 /\ Len(s) \in Nat
  BY AppendProperties
<1>2. \A i \in 1..Len(s) : Append(s, e)[i] = s[i]
  BY AppendProperties
<1>3. Append(s, e)[Len(s) + 1] = e
  BY AppendProperties
<1> QED BY <1>1, <1>2, <1>3 DEF El

LEMMA ElTail ==
    ASSUME NEW S, NEW s \in Seq(S), s # <<>>
    PROVE  /\ Tail(s) \in Seq(S) /\ Len(Tail(s)) = Len(s) - 1 /\ Head(s) \in S /\ Head(s) = s[1]
           /\ El(s) = {Head(s)} \cup El(Tail(s))
           /\ \A i \in 1..Len(s) - 1 : Tail(s)[i] = s[i + 1]
<1>1. /\ Tail(s) \in Seq(S) /\ Len(Tail(s)) = Len(s) - 1 /\ Head(s) \in S /\ Head(s) = s[1]
      /\ Len(s) \in Nat /\ Len(s) > 0 /\ \A i \in 1..Len(s) - 1 : Tail(s)[i] = s[i + 1]
  BY HeadTailProperties
<1>2. El(Tail(s)) \subseteq El(s) /\ Head(s) \in El(s)
  BY <1>1 DEF El
<1>3. ASSUME NEW i \in 1..Len(s) PROVE s[i] \in {Head(s)} \cup El(Tail(s))
  <2>1. CASE i = 1
    BY <1>1, <2>1
  <2>2. CASE i # 1
    <3>1. i - 1 \in 1..Len(s) - 1 /\ Tail(s)[i - 1] = s[i]
      BY <1>1, <1>3, <2>2
    <3> QED BY <1>1, <3>1 DEF El
  <2> QED BY <2>1, <2>2
<1>4. El(s) \subseteq {Head(s)} \cup El(Tail(s))
  BY <1>3 DEF El
<1> QED BY <1>1, <1>2, <1>4

LEMMA SubSeqFacts ==
    ASSUME NEW S, NEW s \in Seq(S), NEW i \in 1..Len(s) + 1, NEW j \in 0..Len(s)
    PROVE  LET u == SubSeq(s, i, j)
           IN  /\ u \in Seq(S) /\ Len(u) = (IF i <= j THEN j - i + 1 ELSE 0)
               /\ \A k \in 1..Len(u) : u[k] = s[i + k - 1]
<1>1. Len(s) \in Nat
  OBVIOUS
<1>2. CASE i <= j
  <2>1. \A k \in i..j : s[k] \in S
    BY <1>1
  <2> QED BY <1>1, <1>2, <2>1, SubSeqProperties
<1>3. CASE ~(i <= j)
  BY <1>1, <1>3, SubSeqProperties
<1> QED BY <1>2, <1>3

LEMMA ElRemoveAt ==
    ASSUME NEW S, NEW s \in Seq(S), NEW i \in 1..Len(s)
    PROVE  LET u == RemoveAt(s, i)
           IN  /\ u \in Seq(S) /\ Len(u) = Len(s) - 1
               /\ El(u) \subseteq El(s) /\ El(s) \subseteq El(u) \cup {s[i]}
               /\ \A k \in 1..Len(u) : u[k] = IF k < i THEN s[k] ELSE s[k + 1]
<1> DEFINE a == SubSeq(s, 1, i - 1)
           b == SubSeq(s, i + 1, Len(s))
           u == a \o b
<1>1. Len(s) \in Nat
  OBVIOUS
<1>2. a \in Seq(S) /\ Len(a) = i - 1 /\ \A k \in 1..Len(a) : a[k] = s[k]
  BY <1>1, SubSeqFacts
<1>3. b \in Seq(S) /\ Len(b) = Len(s) - i /\ \A k \in 1..Len(b) : b[k] = s[i + k]
  BY <1>1, SubSeqFacts
<1> HIDE DEF a, b
<1>4. u \in Seq(S) /\ Len(u) = Len(s) - 1
  <2>1. u \in Seq(S) /\ Len(u) = Len(a) + Len(b)
    BY <1>2, <1>3, ConcatProperties
  <2> QED BY <1>1, <1>2, <1>3, <2>1
<1>5. ASSUME NEW k \in 1..Len(s) - 1 PROVE u[k] = IF k < i THEN s[k] ELSE s[k + 1]
  <2>1. u[k] = IF k <= Len(a) THEN a[k] ELSE b[k - Len(a)]
    BY <1>1, <1>2, <1>3, ConcatProperties
  <2> QED BY <1>1, <1>2, <1>3, <2>1
<1> HIDE DEF u
<1>6. El(u) \subseteq El(s)
  BY <1>1, <1>4, <1>5 DEF El
<1>7. ASSUME NEW j \in 1..Len(s), j # i PROVE s[j] \in El(u)
  <2>1. CASE j < i
    <3>1. j \in 1..Len(s) - 1 /\ u[j] = s[j]
      BY <1>1, <1>5, <2>1
    <3> QED BY <1>4, <3>1 DEF El
  <2>2. CASE j > i
    <3>1. j - 1 \in 1..Len(s) - 1 /\ u[j - 1] = s[j]
      BY <1>1, <1>5, <2>2
    <3> QED BY <1>4, <3>1 DEF El
  <2> QED BY <1>1, <1>7, <2>1, <2>2
<1>8. El(s) \subseteq El(u) \cup {s[i]}
  BY <1>7 DEF El
<1>9. u = RemoveAt(s, i)
  BY DEF RemoveAt, u, a, b
<1> QED BY <1>4, <1>5, <1>6, <1>8, <1>9

Replaced(s, i, e) == [s EXCEPT ![i] = e]

LEMMA ElReplace ==
    ASSUME NEW S, NEW s \in Seq(S), NEW i \in 1..Len(s), NEW e \in S
    PROVE  LET u == Replaced(s, i, e)
           IN  /\ u \in Seq(S) /\ Len(u) = Len(s)
               /\ El(u) \subseteq El(s) \cup {e} /\ e \in El(u) /\ El(s) \subseteq El(u) \cup {s[i]}
<1> DEFINE u == Replaced(s, i, e)
<1>1. u \in Seq(S) /\ Len(u) = Len(s) /\ Len(s) \in Nat
  BY ExceptSeq DEF Replaced
<1>2. \A k \in 1..Len(s) : u[k] = IF k = i THEN e ELSE s[k]
  BY ExceptSeq DEF Replaced
<1> HIDE DEF u
<1> QED BY <1>1, <1>2 DEF El, u

Joined(s, u, v, t) == (s \o u) \o v = s \o t

\* Moving the beginning of one queue to the end of the one before it.
LEMMA MovedQueue ==
    ASSUME NEW S, NEW s \in Seq(S), NEW t \in Seq(S), NEW n \in Nat, n <= Len(t)
    PROVE  /\ SubSeq(t, 1, n) \in Seq(S) /\ SubSeq(t, n + 1, Len(t)) \in Seq(S)
           /\ s \o SubSeq(t, 1, n) \in Seq(S)
           /\ Joined(s, SubSeq(t, 1, n), SubSeq(t, n + 1, Len(t)), t)
<1> DEFINE a == SubSeq(t, 1, n)
           b == SubSeq(t, n + 1, Len(t))
<1>1. Len(s) \in Nat /\ Len(t) \in Nat
  OBVIOUS
<1>2. a \in Seq(S) /\ Len(a) = n /\ \A k \in 1..n : a[k] = t[k]
  BY <1>1, SubSeqFacts
<1>3. b \in Seq(S) /\ Len(b) = Len(t) - n /\ \A k \in 1..Len(b) : b[k] = t[n + k]
  BY <1>1, SubSeqFacts
<1> HIDE DEF a, b
<1>4. s \o a \in Seq(S) /\ Len(s \o a) = Len(s) + n
      /\ \A k \in 1..Len(s) + n : (s \o a)[k] = IF k <= Len(s) THEN s[k] ELSE t[k - Len(s)]
  <2>1. /\ s \o a \in Seq(S) /\ Len(s \o a) = Len(s) + Len(a)
        /\ \A k \in 1..Len(s) + Len(a) : (s \o a)[k] = IF k <= Len(s) THEN s[k] ELSE a[k - Len(s)]
    BY <1>2, ConcatProperties
  <2>2. ASSUME NEW k \in 1..Len(s) + n, ~(k <= Len(s)) PROVE a[k - Len(s)] = t[k - Len(s)]
    <3>1. k - Len(s) \in 1..n
      BY <1>1, <2>2
    <3> QED BY <1>2, <3>1
  <2> QED BY <1>1, <1>2, <2>1, <2>2
<1> DEFINE c == s \o a
<1> HIDE DEF c
<1>5. c \in Seq(S) /\ Len(c) = Len(s) + n
      /\ \A k \in 1..Len(s) + n : c[k] = IF k <= Len(s) THEN s[k] ELSE t[k - Len(s)]
  BY <1>4 DEF c
<1>6. /\ c \o b \in Seq(S) /\ Len(c \o b) = Len(s) + Len(t)
      /\ s \o t \in Seq(S) /\ Len(s \o t) = Len(s) + Len(t)
  <2>1. /\ c \o b \in Seq(S) /\ Len(c \o b) = Len(c) + Len(b)
        /\ s \o t \in Seq(S) /\ Len(s \o t) = Len(s) + Len(t)
    BY <1>3, <1>5, ConcatProperties
  <2> QED BY <1>1, <1>3, <1>5, <2>1
<1>7. ASSUME NEW k \in 1..Len(s) + Len(t) PROVE (c \o b)[k] = (s \o t)[k]
  <2>1. (s \o t)[k] = IF k <= Len(s) THEN s[k] ELSE t[k - Len(s)]
    BY ConcatProperties
  <2>2. (c \o b)[k] = IF k <= Len(s) + n THEN c[k] ELSE b[k - (Len(s) + n)]
    <3>1. k \in 1..Len(c) + Len(b)
      BY <1>1, <1>3, <1>5
    <3>2. (c \o b)[k] = IF k <= Len(c) THEN c[k] ELSE b[k - Len(c)]
      BY ONLY <1>3, <1>5, <3>1, ConcatProperties
    <3> QED BY ONLY <1>5, <3>2
  <2>3. CASE k <= Len(s) + n
    <3>1. k \in 1..Len(s) + n
      BY <1>1, <2>3
    <3> QED BY <1>5, <2>1, <2>2, <2>3, <3>1
  <2>4. CASE ~(k <= Len(s) + n)
    <3>1. k - (Len(s) + n) \in 1..Len(b) /\ n + (k - (Len(s) + n)) = k - Len(s) /\ ~(k <= Len(s))
      BY <1>1, <1>3, <2>4
    <3> QED BY <1>3, <2>1, <2>2, <2>4, <3>1
  <2> QED BY <2>3, <2>4
<1>8. c \o b = s \o t
  BY <1>6, <1>7, SeqEqual
<1>9. Joined(s, a, b, t)
  BY <1>8 DEF Joined, c
<1> QED BY <1>2, <1>3, <1>4, <1>9 DEF a, b

\* The first element goes.
LEMMA TailCat ==
    ASSUME NEW S, NEW s \in Seq(S), NEW t \in Seq(S), s # <<>>
    PROVE  Head(s \o t) = Head(s) /\ Tail(s \o t) = Tail(s) \o t /\ s \o t # <<>>
<1>1. Len(s) \in Nat /\ Len(t) \in Nat /\ Len(s) > 0 /\ s \o t \in Seq(S) /\ Len(s \o t) = Len(s) + Len(t)
      /\ Head(s) = s[1] /\ Tail(s) \in Seq(S) /\ Len(Tail(s)) = Len(s) - 1
      /\ \A i \in 1..Len(s) - 1 : Tail(s)[i] = s[i + 1]
  BY HeadTailProperties, ConcatProperties
<1>2. \A i \in 1..Len(s) + Len(t) : (s \o t)[i] = IF i <= Len(s) THEN s[i] ELSE t[i - Len(s)]
  BY ConcatProperties
<1>3. s \o t # <<>>
  BY <1>1
<1>4. /\ Head(s \o t) = (s \o t)[1] /\ Tail(s \o t) \in Seq(S) /\ Len(Tail(s \o t)) = Len(s) + Len(t) - 1
      /\ \A i \in 1..Len(s) + Len(t) - 1 : Tail(s \o t)[i] = (s \o t)[i + 1]
  BY <1>1, <1>3, HeadTailProperties
<1>5. Head(s \o t) = Head(s)
  BY <1>1, <1>2, <1>4
<1>6. Tail(s) \o t \in Seq(S) /\ Len(Tail(s) \o t) = Len(s) + Len(t) - 1
  BY <1>1, ConcatProperties
<1>7. ASSUME NEW i \in 1..Len(s) + Len(t) - 1 PROVE Tail(s \o t)[i] = (Tail(s) \o t)[i]
  <2>1. (Tail(s) \o t)[i] = IF i <= Len(s) - 1 THEN Tail(s)[i] ELSE t[i - (Len(s) - 1)]
    BY <1>1, ConcatProperties
  <2>2. Tail(s \o t)[i] = IF i + 1 <= Len(s) THEN s[i + 1] ELSE t[i + 1 - Len(s)]
    BY <1>1, <1>2, <1>4
  <2> QED BY <1>1, <2>1, <2>2
<1>8. Tail(s \o t) = Tail(s) \o t
  BY <1>1, <1>4, <1>6, <1>7, SeqEqual
<1> QED BY <1>3, <1>5, <1>8

----------------------------------------------------------------------------
(* Files.                                                                  *)

LEMMA FunctionSeq ==
    ASSUME NEW n \in Nat, NEW f \in [1..n -> Int]
    PROVE  f \in Seq(Int) /\ Len(f) = n
BY SeqDef

\* What is written where it belongs is right, and so is what was right before.
LEMMA WrittenFacts ==
    ASSUME NEW f \in Seq(Int), NEW at \in Nat, NEW off \in Nat, NEW n \in Nat
    PROVE  LET w == Written(f, at, off, n)
           IN  /\ w \in Seq(Int) /\ Len(w) = (IF n > 0 /\ at + n > Len(f) THEN at + n ELSE Len(f))
               /\ at = off => \A b : Good(f, b) \/ (b \in Nat /\ off < b /\ b <= off + n) => Good(w, b)
<1> DEFINE w == Written(f, at, off, n)
           l == IF n > 0 /\ at + n > Len(f) THEN at + n ELSE Len(f)
<1>0. Len(f) \in Nat /\ \A i \in 1..Len(f) : f[i] \in Int
  OBVIOUS
<1>1. l \in Nat /\ l >= Len(f) /\ (n > 0 => l >= at + n)
  BY <1>0
<1>2. w = [i \in 1..l |-> IF i \in at+1..at+n THEN off + i - at ELSE IF i <= Len(f) THEN f[i] ELSE Hole]
  BY DEF Written
<1> HIDE DEF w, l
<1>3. ASSUME NEW i \in 1..l
      PROVE w[i] \in Int /\ w[i] = IF i \in at+1..at+n THEN off + i - at ELSE IF i <= Len(f) THEN f[i] ELSE Hole
  BY <1>0, <1>1, <1>2, <1>3 DEF Hole
<1>4. w \in [1..l -> Int]
  BY <1>2, <1>3
<1>5. w \in Seq(Int) /\ Len(w) = l
  BY <1>1, <1>4, FunctionSeq
<1>6. ASSUME at = off, NEW b, Good(f, b) PROVE Good(w, b)
  <2>1. b \in 1..l /\ b <= Len(f) /\ f[b] = b /\ off + b - at = b
    BY <1>0, <1>1, <1>6 DEF Good
  <2> QED BY <1>3, <1>5, <2>1 DEF Good
<1>7. ASSUME at = off, NEW b \in Nat, off < b, b <= off + n PROVE Good(w, b)
  <2>1. b \in 1..l /\ b \in at+1..at+n /\ off + b - at = b
    BY <1>1, <1>7
  <2> QED BY <1>3, <1>5, <2>1 DEF Good
<1> QED BY <1>5, <1>6, <1>7 DEF w, l

LEMMA TruncatedFacts ==
    ASSUME NEW f \in Seq(Int), NEW n \in Nat
    PROVE  LET t == Truncated(f, n)
           IN  t \in Seq(Int) /\ Len(t) = n /\ \A b : Good(f, b) /\ b <= n => Good(t, b)
<1> DEFINE t == Truncated(f, n)
<1>0. Len(f) \in Nat /\ \A i \in 1..Len(f) : f[i] \in Int
  OBVIOUS
<1>1. t = [i \in 1..n |-> IF i <= Len(f) THEN f[i] ELSE Hole]
  BY DEF Truncated
<1> HIDE DEF t
<1>2. t \in [1..n -> Int]
  BY <1>0, <1>1 DEF Hole
<1>3. t \in Seq(Int) /\ Len(t) = n
  BY <1>2, FunctionSeq
<1>4. ASSUME NEW b, Good(f, b), b <= n PROVE Good(t, b)
  <2>1. b \in 1..n /\ b <= Len(f) /\ f[b] = b
    BY <1>0, <1>4 DEF Good
  <2> QED BY <1>1, <1>3, <2>1 DEF Good
<1> QED BY <1>3, <1>4 DEF t

LEMMA SourceFacts ==
    ASSUME job \in Jobs
    PROVE  /\ Source \in Seq(Int) /\ Len(Source) = job.size /\ \A b \in 1..job.size : Source[b] = b
           /\ Before(job) \in Seq(Int) /\ Len(Before(job)) = job.old
           /\ job.resume => \A b \in 1..job.old : Good(Before(job), b)
<1>1. job.size \in Nat /\ job.old \in Nat /\ job.resume \in BOOLEAN
  BY JobAssumption
<1>2. Source \in [1..job.size -> Int] /\ Before(job) \in [1..job.old -> Int]
  BY <1>1 DEF Source, Before, Old
<1>3. Source \in Seq(Int) /\ Len(Source) = job.size /\ Before(job) \in Seq(Int) /\ Len(Before(job)) = job.old
  BY <1>1, <1>2, FunctionSeq
<1>4. \A b \in 1..job.size : Source[b] = b
  BY DEF Source
<1>5. job.resume => \A b \in 1..job.old : Before(job)[b] = b
  BY DEF Before
<1> QED BY <1>3, <1>4, <1>5 DEF Good

\* A file of the right blocks is a beginning of the source, or all of it.
LEMMA GoodFile ==
    ASSUME job \in Jobs, NEW f \in Seq(Int), Len(f) <= job.size, \A b \in 1..Len(f) : Good(f, b)
    PROVE  Fine(f) /\ (Len(f) = job.size => f = Source)
<1>1. /\ Source \in Seq(Int) /\ Len(Source) = job.size /\ job.size \in Nat /\ Len(f) \in Nat
      /\ \A b \in 1..job.size : Source[b] = b
  BY SourceFacts, JobAssumption
<1>2. \A b \in 1..Len(f) : f[b] = Source[b]
  BY <1>1 DEF Good
<1>3. Len(f) = job.size => f = Source
  BY <1>1, <1>2, SeqEqual
<1>4. SubSeq(f, 1, Len(f)) = SubSeq(Source, 1, Len(f))
  <2> DEFINE a == SubSeq(f, 1, Len(f))
             c == SubSeq(Source, 1, Len(f))
  <2>1. a \in Seq(Int) /\ Len(a) = Len(f) /\ \A k \in 1..Len(f) : a[k] = f[k]
    BY <1>1, SubSeqFacts
  <2>2. c \in Seq(Int) /\ Len(c) = Len(f) /\ \A k \in 1..Len(f) : c[k] = Source[k]
    <3>1. Len(f) \in 0..Len(Source) /\ 1 \in 1..Len(Source) + 1
      BY <1>1
    <3> QED BY <1>1, <3>1, SubSeqFacts
  <2> HIDE DEF a, c
  <2>3. a = c
    BY <1>2, <2>1, <2>2, SeqEqual
  <2> QED BY <2>3 DEF a, c
<1>5. IsPrefix(f, Source)
  BY <1>1, <1>4 DEF IsPrefix
<1> QED BY <1>3, <1>5 DEF Fine

\* A file that begins with the right blocks.
LEMMA GoodStart ==
    ASSUME job \in Jobs, NEW f \in Seq(Int), job.size <= Len(f), \A b \in 1..job.size : Good(f, b)
    PROVE  IsPrefix(Source, f)
<1>1. /\ Source \in Seq(Int) /\ Len(Source) = job.size /\ job.size \in Nat /\ Len(f) \in Nat
      /\ \A b \in 1..job.size : Source[b] = b
  BY SourceFacts, JobAssumption
<1>2. \A b \in 1..job.size : f[b] = Source[b]
  BY <1>1 DEF Good
<1>3. SubSeq(Source, 1, Len(Source)) = SubSeq(f, 1, Len(Source))
  <2> DEFINE n == Len(Source)
             a == SubSeq(Source, 1, n)
             c == SubSeq(f, 1, n)
  <2>1. a \in Seq(Int) /\ Len(a) = job.size /\ \A k \in 1..job.size : a[k] = Source[k]
    BY <1>1, SubSeqFacts
  <2>2. c \in Seq(Int) /\ Len(c) = job.size /\ \A k \in 1..job.size : c[k] = f[k]
    <3>1. n \in 0..Len(f) /\ 1 \in 1..Len(f) + 1
      BY <1>1
    <3> QED BY <1>1, <3>1, SubSeqFacts
  <2> HIDE DEF a, c
  <2>3. a = c
    BY <1>2, <2>1, <2>2, SeqEqual
  <2> QED BY <2>3 DEF a, c
<1> QED BY <1>1, <1>3 DEF IsPrefix

----------------------------------------------------------------------------
(* What a server does.                                                     *)

\* What each request may do to the file, and what it is answered.
Processed(s, q, d) ==
    /\ d.reply \in RepRec /\ d.reply.id = q.id /\ d.file \in Seq(Int) /\ d.append \in BOOLEAN
    /\ q.op = "open" =>
         \/ /\ d.reply.type = "HANDLE" /\ d.append = q.append
            /\ d.file = IF s = "to" /\ q.trunc THEN <<>> ELSE file
         \/ d.reply.type = "FAILURE" /\ d.file = file /\ ~d.append
    /\ q.op = "read" =>
         /\ d.file = file /\ d.append = srv[s].append
         /\ d.reply.type \in {"DATA", "EOF", "FAILURE"}
         /\ d.reply.type = "DATA" => q.off + d.reply.len <= job.size
         /\ d.reply.type = "EOF" => q.off >= job.size
    /\ q.op = "write" =>
         /\ d.append = srv[s].append
         /\ LET at == IF srv[s].append THEN Len(file) ELSE q.off
            IN  \/ d.reply.type = "OK" /\ d.file = Written(file, at, q.off, q.len)
                \/ d.reply.type = "FAILURE" /\ \E n \in 0..q.len : d.file = Written(file, at, q.off, n)
    /\ q.op = "fsetstat" =>
         /\ d.append = srv[s].append
         /\ \/ d.reply.type = "OK" /\ d.file = Truncated(file, q.len)
            \/ d.reply.type = "FAILURE" /\ d.file = file
    /\ q.op = "close" => d.reply.type \in {"OK", "FAILURE"} /\ d.file = file /\ ~d.append

LEMMA DoneFacts ==
    ASSUME NEW q \in ReqRec, NEW type \in {"HANDLE", "OK", "DATA", "EOF", "FAILURE"}, NEW f, NEW append
    PROVE  LET d == Done(q, type, f, append)
               e == [d EXCEPT !.cost = 1]
           IN  /\ d.reply \in RepRec /\ d.reply.id = q.id /\ d.reply.type = type /\ d.file = f /\ d.append = append
               /\ e.reply \in RepRec /\ e.reply.id = q.id /\ e.reply.type = type /\ e.file = f /\ e.append = append
BY DEF Done, Reply, ReqRec, RepRec

LEMMA ProcessFacts ==
    ASSUME TypeInv, NEW s \in Servers, NEW q \in ReqRec, NEW d \in process(s, q)
    PROVE  Processed(s, q, d)
<1>1. /\ file \in Seq(Int) /\ srv[s].append \in BOOLEAN /\ q.off \in Nat /\ q.len \in Nat /\ q.id \in Nat
      /\ q.trunc \in BOOLEAN /\ q.append \in BOOLEAN /\ q.op \in Op /\ job.size \in Nat /\ Len(file) \in Nat
  BY JobAssumption DEF TypeInv, Server, ReqRec
<1>2. CASE q.op = "open"
  <2>1. d \in process_open(s, q)
    BY <1>2 DEF process
  <2>2. <<>> \in Seq(Int)
    OBVIOUS
  <2> DEFINE f == IF s = "to" /\ q.trunc THEN <<>> ELSE file
  <2>3. f \in Seq(Int)
    BY <1>1, <2>2
  <2> HIDE DEF f
  <2>4. CASE d = Done(q, "HANDLE", f, q.append)
    <3>1. d.reply \in RepRec /\ d.reply.id = q.id /\ d.reply.type = "HANDLE" /\ d.file = f /\ d.append = q.append
      BY <2>4, DoneFacts
    <3> QED BY <1>1, <1>2, <2>3, <3>1 DEF Processed, f
  <2>5. CASE d = [Done(q, "FAILURE", file, FALSE) EXCEPT !.cost = 1]
    <3>1. d.reply \in RepRec /\ d.reply.id = q.id /\ d.reply.type = "FAILURE" /\ d.file = file /\ d.append = FALSE
      BY <1>1, <2>5 DEF Done, Reply, RepRec
    <3> QED BY <1>1, <1>2, <3>1 DEF Processed
  <2> QED BY <2>1, <2>4, <2>5 DEF process_open, f
<1>3. CASE q.op = "read"
  <2>1. d \in process_read(s, q)
    BY <1>3 DEF process
  <2> DEFINE left == job.size - q.off
             most == IF q.len < left THEN q.len ELSE left
             data(n, cost) == [reply |-> [Reply(q, "DATA") EXCEPT !.len = n], file |-> file,
                               append |-> srv[s].append, cost |-> cost]
  <2>2. \/ left <= 0 /\ d = Done(q, "EOF", file, srv[s].append)
        \/ left > 0 /\ \E n \in 0..most : \E cost \in {0, 1} : d = data(n, cost)
        \/ d = [Done(q, "FAILURE", file, srv[s].append) EXCEPT !.cost = 1]
    <3>1. left \in Int /\ most \in Int
      BY <1>1
    <3> DEFINE short == IF most > 0 THEN 1..most-1 \cup (IF job.order = "any" THEN {0} ELSE {}) ELSE {}
    <3>2. \/ d = IF left <= 0 THEN Done(q, "EOF", file, srv[s].append) ELSE data(most, 0)
          \/ \E n \in short : d = data(n, 1)
          \/ d = [Done(q, "FAILURE", file, srv[s].append) EXCEPT !.cost = 1]
      BY <2>1 DEF process_read
    <3>3. \A n \in short : n \in 0..most /\ left > 0
      BY <1>1, <3>1
    <3>4. left > 0 => most \in 0..most
      BY <1>1, <3>1
    <3> HIDE DEF short, left, most, data
    <3> QED BY <3>1, <3>2, <3>3, <3>4
  <2>3. CASE left <= 0 /\ d = Done(q, "EOF", file, srv[s].append)
    <3>1. d.reply \in RepRec /\ d.reply.id = q.id /\ d.reply.type = "EOF" /\ d.file = file /\ d.append = srv[s].append
      BY <2>3, DoneFacts
    <3> QED BY <1>1, <1>3, <2>3, <3>1 DEF Processed
  <2>4. ASSUME left > 0, NEW n \in 0..most, NEW cost \in {0, 1}, d = data(n, cost) PROVE Processed(s, q, d)
    <3>1. n \in Nat /\ q.off + n <= job.size
      BY <1>1, <2>4
    <3>2. /\ d.reply = [id |-> q.id, type |-> "DATA", len |-> n]
          /\ d.file = file /\ d.append = srv[s].append
      BY <2>4 DEF Reply
    <3> QED BY <1>1, <1>3, <3>1, <3>2 DEF Processed, RepRec
  <2>5. CASE d = [Done(q, "FAILURE", file, srv[s].append) EXCEPT !.cost = 1]
    <3>1. d.reply \in RepRec /\ d.reply.id = q.id /\ d.reply.type = "FAILURE" /\ d.file = file /\ d.append = srv[s].append
      BY <2>5, DoneFacts
    <3> QED BY <1>1, <1>3, <3>1 DEF Processed
  <2> HIDE DEF left, most, data
  <2> QED BY <2>2, <2>3, <2>4, <2>5
<1>4. CASE q.op = "write"
  <2>1. d \in process_write(s, q)
    BY <1>4 DEF process
  <2> DEFINE at == IF srv[s].append THEN Len(file) ELSE q.off
  <2>2. at \in Nat
    BY <1>1
  <2> HIDE DEF at
  <2>3. \A n \in Nat : Written(file, at, q.off, n) \in Seq(Int)
    BY <1>1, <2>2, WrittenFacts
  <2>4. \/ d = Done(q, "OK", Written(file, at, q.off, q.len), srv[s].append)
        \/ \E n \in 0..q.len-1 :
             d = [Done(q, "FAILURE", Written(file, at, q.off, n), srv[s].append) EXCEPT !.cost = 1]
    BY <2>1 DEF process_write, at
  <2>5. CASE d = Done(q, "OK", Written(file, at, q.off, q.len), srv[s].append)
    BY <1>1, <1>4, <2>3, <2>5 DEF Done, Reply, Processed, RepRec, at
  <2>6. ASSUME NEW n \in 0..q.len-1,
               d = [Done(q, "FAILURE", Written(file, at, q.off, n), srv[s].append) EXCEPT !.cost = 1]
        PROVE  Processed(s, q, d)
    <3>1. n \in Nat /\ n \in 0..q.len /\ Written(file, at, q.off, n) \in Seq(Int)
      BY <1>1, <2>3, <2>6
    <3>2. /\ d.reply = [id |-> q.id, type |-> "FAILURE", len |-> 0]
          /\ d.file = Written(file, at, q.off, n) /\ d.append = srv[s].append
      BY <2>6 DEF Done, Reply
    <3> QED BY <1>1, <1>4, <3>1, <3>2 DEF Processed, RepRec, at
  <2> QED BY <2>4, <2>5, <2>6
<1>5. CASE q.op = "fsetstat"
  <2>1. d \in process_fsetstat(s, q)
    BY <1>5 DEF process
  <2>2. Truncated(file, q.len) \in Seq(Int)
    BY <1>1, TruncatedFacts
  <2>3. CASE d = Done(q, "OK", Truncated(file, q.len), srv[s].append)
    <3>1. /\ d.reply \in RepRec /\ d.reply.id = q.id /\ d.reply.type = "OK"
          /\ d.file = Truncated(file, q.len) /\ d.append = srv[s].append
      BY <2>3, DoneFacts
    <3> QED BY <1>1, <1>5, <2>2, <3>1 DEF Processed
  <2>4. CASE d = [Done(q, "FAILURE", file, srv[s].append) EXCEPT !.cost = 1]
    <3>1. d.reply \in RepRec /\ d.reply.id = q.id /\ d.reply.type = "FAILURE" /\ d.file = file /\ d.append = srv[s].append
      BY <2>4, DoneFacts
    <3> QED BY <1>1, <1>5, <3>1 DEF Processed
  <2> QED BY <2>1, <2>3, <2>4 DEF process_fsetstat
<1>6. CASE q.op = "close"
  <2>1. d \in process_close(s, q)
    BY <1>6 DEF process
  <2>2. d \in {Done(q, "OK", file, FALSE), [Done(q, "FAILURE", file, FALSE) EXCEPT !.cost = 1]}
    BY <2>1 DEF process_close
  <2>3. /\ d.reply \in RepRec /\ d.reply.id = q.id /\ d.reply.type \in {"OK", "FAILURE"}
        /\ d.file = file /\ d.append = FALSE
    BY <1>1, <2>2 DEF Done, Reply, RepRec
  <2> QED BY <1>1, <1>6, <2>3 DEF Processed
<1> QED BY <1>1, <1>2, <1>3, <1>4, <1>5, <1>6 DEF Op

\* A request of server s is processed.
Serves(s) ==
    /\ Work(s) # <<>>
    /\ \E d : /\ Processed(s, Head(Work(s)), d)
              /\ Work(s)' = Tail(Work(s)) /\ Answers(s)' = Append(Answers(s), d.reply)
              /\ srv'[s].append = d.append /\ file' = d.file
              /\ failed' = IF s = "to" /\ d.reply.type = "FAILURE" THEN failed + 1 ELSE failed
Moves(s) == /\ Work(s)' = Work(s) /\ Answers(s)' = Answers(s) /\ srv'[s].append = srv[s].append
            /\ file' = file /\ failed' = failed

LEMMA QueueTypes ==
    ASSUME TypeInv, NEW s \in Servers
    PROVE  /\ srv[s] \in Server /\ Work(s) \in Seq(ReqRec) /\ Answers(s) \in Seq(RepRec)
           /\ Asked(s) \subseteq ReqRec /\ Told(s) \subseteq RepRec /\ Wanted \subseteq Block
           /\ Len(Work(s)) \in Nat /\ Len(Answers(s)) \in Nat /\ Len(x.requests) \in Nat
           /\ (Work(s) = <<>> <=> Asked(s) = {}) /\ (Answers(s) = <<>> <=> Told(s) = {})
           /\ (Work(s) = <<>> <=> Len(Work(s)) = 0) /\ (Answers(s) = <<>> <=> Len(Answers(s)) = 0)
           /\ (x.requests = <<>> <=> Wanted = {}) /\ (x.requests = <<>> <=> Len(x.requests) = 0)
           /\ x.requests \in Seq(Block)
<1>1. srv[s] \in Server /\ x.requests \in Seq(Block)
  BY DEF TypeInv, Locals
<1>2. Work(s) \in Seq(ReqRec) /\ Answers(s) \in Seq(RepRec)
  BY <1>1, ElCat DEF Server, Work, Answers
<1>3. /\ El(Work(s)) \subseteq ReqRec /\ Len(Work(s)) \in Nat
      /\ (Work(s) = <<>> <=> El(Work(s)) = {}) /\ (Work(s) = <<>> <=> Len(Work(s)) = 0)
  BY ONLY <1>2, ElType
<1>4. /\ El(Answers(s)) \subseteq RepRec /\ Len(Answers(s)) \in Nat
      /\ (Answers(s) = <<>> <=> El(Answers(s)) = {}) /\ (Answers(s) = <<>> <=> Len(Answers(s)) = 0)
  BY ONLY <1>2, ElType
<1>5. /\ El(x.requests) \subseteq Block /\ Len(x.requests) \in Nat
      /\ (x.requests = <<>> <=> El(x.requests) = {}) /\ (x.requests = <<>> <=> Len(x.requests) = 0)
  BY ONLY <1>1, ElType
<1> QED BY <1>1, <1>2, <1>3, <1>4, <1>5 DEF Asked, Told, Wanted

LEMMA TurnEffect ==
    ASSUME TypeInv, NEW s \in Servers, ServerTurn(s)
    PROVE  /\ TypeInv' /\ UNCHANGED <<job, x, interrupted>>
           /\ \A t \in Servers \ {s} : srv'[t] = srv[t]
           /\ Moves(s) \/ Serves(s)
<1> DEFINE r == srv[s]
<1>0. /\ r.in \in Seq(ReqRec) /\ r.iqueue \in Seq(ReqRec) /\ r.oqueue \in Seq(RepRec)
      /\ r.out \in Seq(RepRec) /\ r.append \in BOOLEAN /\ r \in Server
  BY DEF TypeInv, Server
<1>1. PICK n \in 0..Len(r.in) :
        LET moved == [r EXCEPT !.in = SubSeq(@, n + 1, Len(@)), !.iqueue = @ \o SubSeq(r.in, 1, n),
                               !.oqueue = <<>>, !.out = @ \o r.oqueue]
        IN  IF moved.iqueue = <<>>
            THEN srv' = [srv EXCEPT ![s] = moved] /\ UNCHANGED <<file, faults, failed>>
            ELSE \E d \in process(s, Head(moved.iqueue)) :
                    /\ srv' = [srv EXCEPT ![s] = [moved EXCEPT !.iqueue = Tail(@), !.append = d.append,
                                                               !.oqueue = <<d.reply>>]]
                    /\ file' = d.file
                    /\ failed' = IF s = "to" /\ d.reply.type = "FAILURE" THEN failed + 1 ELSE failed
  <2>1. Len(r.in) \in Nat
    BY <1>0
  <2>2. PICK n \in IF srv[s].in # <<>> /\ Len(srv[s].oqueue) < ReplyRoom THEN 1..Len(srv[s].in) ELSE {0} :
        LET moved == [srv[s] EXCEPT !.in = SubSeq(@, n + 1, Len(@)), !.iqueue = @ \o SubSeq(srv[s].in, 1, n),
                               !.oqueue = <<>>, !.out = @ \o srv[s].oqueue]
        IN  IF moved.iqueue = <<>>
            THEN srv' = [srv EXCEPT ![s] = moved] /\ UNCHANGED <<file, faults, failed>>
            ELSE \E d \in process(s, Head(moved.iqueue)) :
                    /\ d.cost <= faults /\ faults' = faults - d.cost
                    /\ srv' = [srv EXCEPT ![s] = [moved EXCEPT !.iqueue = Tail(@), !.append = d.append,
                                                               !.oqueue = <<d.reply>>]]
                    /\ file' = d.file
                    /\ failed' = IF s = "to" /\ d.reply.type = "FAILURE" THEN failed + 1 ELSE failed
    BY Zenon DEF ServerTurn
  <2>3. n \in 0..Len(r.in)
    BY <2>1
  <2> QED BY <2>2, <2>3
<1>2. UNCHANGED <<job, x, interrupted>>
  BY DEF ServerTurn
<1> DEFINE in == SubSeq(r.in, n + 1, Len(r.in))
           iq == r.iqueue \o SubSeq(r.in, 1, n)
           out == r.out \o r.oqueue
           moved == [r EXCEPT !.in = in, !.iqueue = iq, !.oqueue = <<>>, !.out = out]
<1>3. in \in Seq(ReqRec) /\ iq \in Seq(ReqRec) /\ iq \o in = Work(s) /\ out \in Seq(RepRec) /\ out = Answers(s)
  <2>1. in \in Seq(ReqRec) /\ iq \in Seq(ReqRec) /\ iq \o in = r.iqueue \o r.in
    <3>1. n \in 0..Len(r.in)
      OBVIOUS
    <3>2. r.in \in Seq(ReqRec) /\ r.iqueue \in Seq(ReqRec)
      BY <1>0
    <3> DEFINE a == r.iqueue
               b == r.in
    <3> HIDE DEF a, b
    <3>3. /\ SubSeq(b, 1, n) \in Seq(ReqRec) /\ SubSeq(b, n + 1, Len(b)) \in Seq(ReqRec)
          /\ a \o SubSeq(b, 1, n) \in Seq(ReqRec)
          /\ (a \o SubSeq(b, 1, n)) \o SubSeq(b, n + 1, Len(b)) = a \o b
      <4>1. a \in Seq(ReqRec) /\ b \in Seq(ReqRec) /\ n \in Nat /\ n <= Len(b)
        BY <3>1, <3>2 DEF a, b
      <4>2. SubSeq(b, 1, n) \in Seq(ReqRec) /\ SubSeq(b, n + 1, Len(b)) \in Seq(ReqRec)
        BY ONLY <4>1, MovedQueue
      <4>3. a \o SubSeq(b, 1, n) \in Seq(ReqRec)
        BY ONLY <4>1, MovedQueue
      <4>4. Joined(a, SubSeq(b, 1, n), SubSeq(b, n + 1, Len(b)), b)
        BY ONLY <4>1, MovedQueue
      <4> QED BY <4>2, <4>3, <4>4 DEF Joined
    <3> QED BY <3>3 DEF a, b
  <2>2. out \in Seq(RepRec)
    BY <1>0, ConcatProperties
  <2> QED BY <2>1, <2>2 DEF Work, Answers
<1>4. IF iq = <<>>
      THEN srv' = [srv EXCEPT ![s] = moved] /\ UNCHANGED <<file, failed>>
      ELSE \E d \in process(s, Head(iq)) :
              /\ srv' = [srv EXCEPT ![s] = [moved EXCEPT !.iqueue = Tail(iq), !.append = d.append,
                                                         !.oqueue = <<d.reply>>]]
              /\ file' = d.file
              /\ failed' = IF s = "to" /\ d.reply.type = "FAILURE" THEN failed + 1 ELSE failed
  <2>1. moved.iqueue = iq
    BY <1>0 DEF Server
  <2> QED BY <1>0, <1>1, <2>1 DEF Server
<1> HIDE DEF in, iq, out
<1>5. CASE iq = <<>>
  <2>1. srv' = [srv EXCEPT ![s] = moved] /\ UNCHANGED <<file, failed>>
    BY <1>4, <1>5
  <2>2. moved \in Server /\ moved.iqueue = iq /\ moved.in = in /\ moved.out = out /\ moved.oqueue = <<>>
        /\ moved.append = r.append
    <3>1. <<>> \in Seq(RepRec)
      BY EmptySeq
    <3> QED BY <1>0, <1>3, <3>1 DEF Server
  <2> HIDE DEF moved
  <2>3. srv' \in [Servers -> Server] /\ srv'[s] = moved /\ \A t \in Servers \ {s} : srv'[t] = srv[t]
    BY <2>1, <2>2 DEF TypeInv
  <2>4. Work(s)' = Work(s) /\ Answers(s)' = Answers(s)
    BY <1>3, <2>2, <2>3, ConcatEmptySeq DEF Work, Answers
  <2>5. TypeInv'
    BY <1>2, <2>1, <2>3 DEF TypeInv
  <2> QED BY <1>2, <2>1, <2>2, <2>3, <2>4, <2>5 DEF Moves
<1>6. CASE iq # <<>>
  <2>0. Head(iq) = Head(Work(s)) /\ Tail(iq) \o in = Tail(Work(s)) /\ Work(s) # <<>>
        /\ Head(iq) \in ReqRec /\ Tail(iq) \in Seq(ReqRec)
    <3>1. Head(iq \o in) = Head(iq) /\ Tail(iq \o in) = Tail(iq) \o in /\ iq \o in # <<>>
      BY <1>3, <1>6, TailCat
    <3>2. Head(iq) \in ReqRec /\ Tail(iq) \in Seq(ReqRec)
      BY <1>3, <1>6, HeadTailProperties
    <3> QED BY <1>3, <3>1, <3>2
  <2>1. PICK d \in process(s, Head(iq)) :
              /\ srv' = [srv EXCEPT ![s] = [moved EXCEPT !.iqueue = Tail(iq), !.append = d.append,
                                                         !.oqueue = <<d.reply>>]]
              /\ file' = d.file
              /\ failed' = IF s = "to" /\ d.reply.type = "FAILURE" THEN failed + 1 ELSE failed
    BY <1>4, <1>6
  <2>2. Processed(s, Head(iq), d)
    BY <2>0, ProcessFacts
  <2>3. d.reply \in RepRec /\ d.append \in BOOLEAN /\ d.file \in Seq(Int)
    BY <2>2 DEF Processed
  <2> DEFINE new == [moved EXCEPT !.iqueue = Tail(iq), !.append = d.append, !.oqueue = <<d.reply>>]
  <2>4. /\ new \in Server /\ new.iqueue = Tail(iq) /\ new.in = in /\ new.out = out
        /\ new.oqueue = <<d.reply>> /\ new.append = d.append
    <3>1. <<d.reply>> \in Seq(RepRec) /\ <<>> \in Seq(RepRec) /\ Tail(iq) \in Seq(ReqRec)
      BY <2>0, <2>3
    <3>2. moved \in Server /\ moved.in = in /\ moved.out = out
      BY <1>0, <1>3, <3>1 DEF Server
    <3> HIDE DEF moved
    <3> QED BY <2>3, <3>1, <3>2 DEF Server
  <2>5. srv' = [srv EXCEPT ![s] = new]
    BY <2>1
  <2> HIDE DEF new, moved
  <2>6. srv' \in [Servers -> Server] /\ srv'[s] = new /\ \A t \in Servers \ {s} : srv'[t] = srv[t]
    BY <2>4, <2>5 DEF TypeInv
  <2>7. Work(s)' = Tail(Work(s))
    BY <2>0, <2>4, <2>6 DEF Work
  <2>8. Answers(s)' = Append(Answers(s), d.reply)
    <3>1. Answers(s)' = out \o <<d.reply>>
      BY <2>4, <2>6 DEF Answers
    <3>2. out \o <<d.reply>> = Append(out, d.reply)
      BY <1>3, <2>3, AppendIsConcat
    <3> QED BY <1>3, <3>1, <3>2
  <2>9. TypeInv'
    BY <1>2, <2>1, <2>3, <2>6 DEF TypeInv
  <2>10. Serves(s)
    BY <2>0, <2>1, <2>2, <2>4, <2>6, <2>7, <2>8 DEF Serves
  <2> QED BY <1>2, <2>6, <2>9, <2>10
<1> QED BY <1>5, <1>6

----------------------------------------------------------------------------
(* What the client does to the queues.                                     *)

LEMMA SendEffect ==
    ASSUME TypeInv, NEW s \in Servers, NEW msgs \in Seq(ReqRec), NEW r \in Server,
           r.in = srv[s].in \o msgs, r.iqueue = srv[s].iqueue, r.out = srv[s].out,
           r.oqueue = srv[s].oqueue, srv'[s] = r
    PROVE  /\ Work(s)' \in Seq(ReqRec) /\ Len(Work(s)') = Len(Work(s)) + Len(msgs)
           /\ Asked(s)' = Asked(s) \cup El(msgs) /\ Answers(s)' = Answers(s) /\ Told(s)' = Told(s)
           /\ Work(s)' = Work(s) \o msgs
<1>1. srv[s].in \in Seq(ReqRec) /\ srv[s].iqueue \in Seq(ReqRec)
  BY DEF TypeInv, Server
<1> DEFINE a == srv[s].iqueue
           b == srv[s].in
<1>2. a \in Seq(ReqRec) /\ b \in Seq(ReqRec)
  BY <1>1
<1>3. Work(s)' = a \o (b \o msgs) /\ Work(s) = a \o b
  BY DEF Work
<1> HIDE DEF a, b
<1>4. (a \o b) \o msgs = a \o (b \o msgs)
  BY ONLY <1>2, msgs \in Seq(ReqRec), ConcatAssociative
<1>5. a \o b \in Seq(ReqRec)
  BY <1>2, ElCat
<1>6. Work(s)' = Work(s) \o msgs
  BY <1>3, <1>4
<1>7. Work(s) \in Seq(ReqRec)
  BY <1>3, <1>5
<1>8. /\ Work(s)' \in Seq(ReqRec) /\ Len(Work(s)') = Len(Work(s)) + Len(msgs)
      /\ El(Work(s)') = El(Work(s)) \cup El(msgs)
  <2> DEFINE w == Work(s)
  <2>1. w \in Seq(ReqRec) /\ Work(s)' = w \o msgs
    BY <1>6, <1>7
  <2> HIDE DEF w
  <2>2. w \o msgs \in Seq(ReqRec) /\ Len(w \o msgs) = Len(w) + Len(msgs) /\ El(w \o msgs) = El(w) \cup El(msgs)
    BY ONLY <2>1, msgs \in Seq(ReqRec), ElCat
  <2> QED BY <2>1, <2>2 DEF w
<1>9. Answers(s)' = Answers(s)
  BY DEF Answers
<1> QED BY <1>6, <1>8, <1>9 DEF Asked, Told

\* The reply at i is taken.
LEMMA TakeEffect ==
    ASSUME TypeInv, NEW s \in Servers, NEW i \in 1..Len(srv[s].out), NEW r \in Server,
           r.out = RemoveAt(srv[s].out, i), r.oqueue = srv[s].oqueue, srv'[s] = r
    PROVE  /\ srv[s].out[i] \in Told(s) /\ srv[s].out[i] \in RepRec
           /\ Len(Answers(s)') = Len(Answers(s)) - 1
           /\ Told(s)' \subseteq Told(s) /\ Told(s) \subseteq Told(s)' \cup {srv[s].out[i]}
<1> DEFINE a == srv[s].out
           b == srv[s].oqueue
           c == RemoveAt(a, i)
<1>1. a \in Seq(RepRec) /\ b \in Seq(RepRec) /\ i \in 1..Len(a)
  BY DEF TypeInv, Server
<1>2. Answers(s) = a \o b /\ Answers(s)' = c \o b
  BY DEF Answers
<1> HIDE DEF a, b
<1>3. c \in Seq(RepRec) /\ Len(c) = Len(a) - 1 /\ El(c) \subseteq El(a) /\ El(a) \subseteq El(c) \cup {a[i]}
  BY <1>1, ElRemoveAt
<1> HIDE DEF c
<1>4. Len(a \o b) = Len(a) + Len(b) /\ El(a \o b) = El(a) \cup El(b)
  BY <1>1, ElCat
<1>5. Len(c \o b) = Len(c) + Len(b) /\ El(c \o b) = El(c) \cup El(b)
  BY ONLY <1>1, <1>3, ElCat
<1>6. a[i] \in El(a) /\ a[i] \in RepRec /\ Len(a) \in Nat /\ Len(b) \in Nat
  BY <1>1, ElType
<1>7. El(Answers(s)') = El(c) \cup El(b) /\ El(Answers(s)) = El(a) \cup El(b)
  BY <1>2, <1>4, <1>5
<1>8. Len(Answers(s)') = Len(Answers(s)) - 1
  BY <1>2, <1>3, <1>4, <1>5, <1>6
<1>9. Told(s)' = El(c) \cup El(b) /\ Told(s) = El(a) \cup El(b)
  BY <1>7 DEF Told
<1> QED BY <1>3, <1>6, <1>8, <1>9 DEF a

\* The loop's variables stay as they are.
Kept == /\ x'.requests = x.requests /\ x'.offset = x.offset /\ x'.max_req = x.max_req
        /\ x'.read_error = x.read_error /\ x'.write_error = x.write_error /\ x'.maxack = x.maxack
        /\ x'.highwater = x.highwater /\ x'.reordered = x.reordered /\ x'.num_upload = x.num_upload
        /\ x'.uncut = x.uncut

\* A call adds one request to the work of server s.
Called(s, msg) ==
    \E m \in ReqRec :
       /\ m.id = x.msg_id[s] /\ m.op = msg.op /\ m.off = msg.off /\ m.len = msg.len
       /\ m.trunc = msg.trunc /\ m.append = msg.append
       /\ Asked(s)' = Asked(s) \cup {m} /\ Len(Work(s)') = Len(Work(s)) + 1

LEMMA CallEffect ==
    ASSUME TypeInv, NEW s \in Servers, NEW msg \in ReqRec, NEW pc \in PC, Call(s, msg, pc)
    PROVE  /\ TypeInv' /\ UNCHANGED <<job, file, interrupted, failed>>
           /\ Kept /\ x'.pc = pc /\ x'.status = x.status /\ x'.to_open = x.to_open
           /\ \A t \in Servers \ {s} : srv'[t] = srv[t] /\ x'.msg_id[t] = x.msg_id[t]
           /\ srv'[s].append = srv[s].append /\ x'.msg_id[s] = x.msg_id[s] + 1
           /\ Answers(s)' = Answers(s) /\ Told(s)' = Told(s)
           /\ Called(s, msg)
<1> DEFINE m == [msg EXCEPT !.id = x.msg_id[s]]
           r == [srv[s] EXCEPT !.in = @ \o <<m>>]
<1>1. /\ srv' = [srv EXCEPT ![s].in = @ \o <<m>>]
      /\ x' = [x EXCEPT !.pc = pc, !.msg_id[s] = @ + 1] /\ UNCHANGED <<job, file, interrupted, failed>>
  BY DEF Call, Transmit
<1>2. x.msg_id \in [Servers -> Nat] /\ x.msg_id[s] \in Nat
  BY DEF TypeInv, Locals
<1>3. /\ m \in ReqRec /\ m.id = x.msg_id[s] /\ m.op = msg.op /\ m.off = msg.off /\ m.len = msg.len
      /\ m.trunc = msg.trunc /\ m.append = msg.append
  BY <1>2 DEF ReqRec
<1> HIDE DEF m
<1>4. <<m>> \in Seq(ReqRec) /\ Len(<<m>>) = 1 /\ El(<<m>>) = {m}
  BY <1>3 DEF El
<1>5. srv[s] \in Server /\ srv[s].in \in Seq(ReqRec) /\ srv[s].in \o <<m>> \in Seq(ReqRec)
  <2>1. srv[s] \in Server /\ srv[s].in \in Seq(ReqRec)
    BY DEF TypeInv, Server
  <2> QED BY <1>4, <2>1, ElCat
<1>6. /\ r \in Server /\ r.in = srv[s].in \o <<m>> /\ r.iqueue = srv[s].iqueue /\ r.out = srv[s].out
      /\ r.oqueue = srv[s].oqueue /\ r.append = srv[s].append
  BY <1>5 DEF Server
<1>7. srv' = [srv EXCEPT ![s] = r]
  BY <1>1 DEF TypeInv
<1> HIDE DEF r
<1>8. srv' \in [Servers -> Server] /\ srv'[s] = r /\ \A t \in Servers \ {s} : srv'[t] = srv[t]
  BY <1>6, <1>7 DEF TypeInv
<1>a. x' \in Locals
  <2>1. [x.msg_id EXCEPT ![s] = @ + 1] \in [Servers -> Nat]
    BY <1>2
  <2>2. x' = [x EXCEPT !.pc = pc, !.msg_id = [x.msg_id EXCEPT ![s] = @ + 1]] /\ x \in Locals
    BY <1>1 DEF TypeInv, Locals
  <2> QED BY <2>1, <2>2, Zenon DEF Locals
<1>9. /\ Kept /\ x'.pc = pc /\ x'.status = x.status /\ x'.to_open = x.to_open
      /\ x'.msg_id = [x.msg_id EXCEPT ![s] = @ + 1]
  BY <1>1, <1>2 DEF TypeInv, Locals, Kept
<1>10. x'.msg_id[s] = x.msg_id[s] + 1 /\ \A t \in Servers \ {s} : x'.msg_id[t] = x.msg_id[t]
  BY <1>2, <1>9
<1>11. /\ Len(Work(s)') = Len(Work(s)) + 1 /\ Asked(s)' = Asked(s) \cup {m}
       /\ Answers(s)' = Answers(s) /\ Told(s)' = Told(s)
  BY <1>4, <1>6, <1>8, SendEffect
<1>12. TypeInv'
  BY <1>1, <1>8, <1>a DEF TypeInv
<1>13. Called(s, msg)
  BY <1>3, <1>11 DEF Called
<1> QED BY <1>1, <1>6, <1>8, <1>9, <1>10, <1>11, <1>12, <1>13

\* An answer is taken, and decides what comes next.
Settled(s, good, bad) ==
    \E m \in Told(s) :
       /\ \/ x' = [x EXCEPT !.pc = "fatal"]
          \/ m.type \in {"OK", "HANDLE"} /\ x' = good
          \/ m.type \notin {"OK", "HANDLE"} /\ x' = bad

LEMMA AnswerEffect ==
    ASSUME TypeInv, NEW s \in Servers, NEW pc, NEW good \in Locals, NEW bad \in Locals, Answered(s, pc, good, bad)
    PROVE  /\ TypeInv' /\ UNCHANGED <<job, file, interrupted, failed>> /\ x.pc = pc
           /\ \A t \in Servers \ {s} : srv'[t] = srv[t]
           /\ srv'[s].append = srv[s].append
           /\ Work(s)' = Work(s) /\ Asked(s)' = Asked(s)
           /\ Len(Answers(s)') = Len(Answers(s)) - 1 /\ Told(s)' \subseteq Told(s)
           /\ Settled(s, good, bad)
<1>1. PICK i \in Replies(s) :
          /\ srv' = [srv EXCEPT ![s].out = RemoveAt(@, i)]
          /\ x' = IF srv[s].out[i].id # x.msg_id[s] - 1 THEN [x EXCEPT !.pc = "fatal"]
                  ELSE IF srv[s].out[i].type \in {"OK", "HANDLE"} THEN good ELSE bad
  BY DEF Answered, TakeReply
<1>2. x.pc = pc /\ UNCHANGED <<job, file, interrupted, failed>>
  BY DEF Answered
<1>3. srv[s] \in Server /\ srv[s].out \in Seq(RepRec) /\ i \in 1..Len(srv[s].out)
  <2>1. srv[s] \in Server /\ srv[s].out \in Seq(RepRec)
    BY DEF TypeInv, Server
  <2>2. Len(srv[s].out) \in Nat /\ (Len(srv[s].out) = 0 <=> srv[s].out = <<>>) /\ DOMAIN srv[s].out = 1..Len(srv[s].out)
    BY <2>1, ElType
  <2> QED BY <2>1, <2>2 DEF Replies
<1> DEFINE r == [srv[s] EXCEPT !.out = RemoveAt(@, i)]
<1>4. RemoveAt(srv[s].out, i) \in Seq(RepRec)
  BY <1>3, ElRemoveAt
<1>5. /\ r \in Server /\ r.in = srv[s].in /\ r.iqueue = srv[s].iqueue /\ r.out = RemoveAt(srv[s].out, i)
      /\ r.oqueue = srv[s].oqueue /\ r.append = srv[s].append
  BY <1>3, <1>4 DEF Server
<1>6. srv' = [srv EXCEPT ![s] = r]
  BY <1>1 DEF TypeInv
<1> HIDE DEF r
<1>7. srv' \in [Servers -> Server] /\ srv'[s] = r /\ \A t \in Servers \ {s} : srv'[t] = srv[t]
  BY <1>5, <1>6 DEF TypeInv
<1>8. /\ srv[s].out[i] \in Told(s) /\ Len(Answers(s)') = Len(Answers(s)) - 1 /\ Told(s)' \subseteq Told(s)
  BY <1>3, <1>5, <1>7, TakeEffect
<1>9. Work(s)' = Work(s)
  BY <1>5, <1>7 DEF Work
<1>10. [x EXCEPT !.pc = "fatal"] \in Locals
  <2>1. "fatal" \in PC
    BY DEF PC
  <2> QED BY <2>1, Zenon DEF TypeInv, Locals
<1>11. x' \in Locals
  BY <1>1, <1>10
<1>12. TypeInv'
  BY <1>2, <1>7, <1>11 DEF TypeInv
<1>13. Settled(s, good, bad)
  BY <1>1, <1>8 DEF Settled
<1> QED BY <1>2, <1>5, <1>7, <1>8, <1>9, <1>12, <1>13 DEF Asked

----------------------------------------------------------------------------
(* Requests and replies keep matching.                                     *)

LEMMA LocalTypes ==
    ASSUME TypeInv
    PROVE  /\ x.requests \in Seq(Block) /\ x.offset \in Nat /\ x.max_req \in Nat /\ x.buflen \in Nat
           /\ x.seen_zerolen \in BOOLEAN /\ x.read_error \in BOOLEAN /\ x.write_error \in BOOLEAN
           /\ x.highwater \in Nat /\ x.maxack \in Nat /\ x.reordered \in BOOLEAN /\ x.num_upload \in Int
           /\ x.id \in Nat /\ x.ackid \in Nat /\ x.startid \in Nat /\ x.to_open \in BOOLEAN
           /\ x.msg_id \in [Servers -> Nat] /\ x.msg_id["from"] \in Nat /\ x.msg_id["to"] \in Nat
           /\ job \in Jobs /\ job.size \in Nat /\ job.old \in Nat /\ job.resume \in BOOLEAN /\ job.inplace \in BOOLEAN
           /\ file \in Seq(Int) /\ Len(file) \in Nat /\ failed \in Nat /\ interrupted \in BOOLEAN
<1>1. job.size \in Nat /\ job.old \in Nat /\ job.resume \in BOOLEAN /\ job.inplace \in BOOLEAN
  BY JobAssumption DEF TypeInv
<1>2. x.msg_id \in [Servers -> Nat]
  BY DEF TypeInv, Locals
<1>3. "from" \in Servers /\ "to" \in Servers
  BY DEF Servers
<1>4. Len(file) \in Nat
  BY DEF TypeInv
<1> QED BY <1>1, <1>2, <1>3, <1>4 DEF TypeInv, Locals

\* The client sends requests N to "from" and waits for R too.
Grown(N, R) ==
    /\ x.msg_id["from"] <= x'.msg_id["from"] /\ x.offset <= x'.offset
    /\ N \subseteq ReqRec /\ R \subseteq Block
    /\ Asked("from")' \subseteq Asked("from") \cup N /\ Told("from")' \subseteq Told("from")
    /\ Wanted' \subseteq Wanted \cup R
    /\ \A q \in N : /\ x.msg_id["from"] <= q.id /\ q.id < x'.msg_id["from"]
                    /\ q.op \in {"open", "read", "close"}
    /\ \A r \in R : /\ x.msg_id["from"] <= r.id /\ r.id < x'.msg_id["from"] /\ r.off + r.len <= x'.offset
                    /\ \A q \in N : q.id = r.id => q.op = "read" /\ q.off = r.off /\ q.len = r.len

LEMMA MatchGrows ==
    ASSUME TypeInv, TypeInv', MatchInv, UNCHANGED job, NEW N, NEW R, Grown(N, R)
    PROVE  MatchInv'
<1> USE DEF Grown
<1>0. "from" \in Servers
  BY DEF Servers
<1>1. /\ x.msg_id["from"] \in Nat /\ x.offset \in Nat /\ x'.msg_id["from"] \in Nat /\ x'.offset \in Nat
  BY <1>0, LocalTypes DEF TypeInv, Locals
<1>2. /\ Asked("from") \subseteq ReqRec /\ Told("from") \subseteq RepRec /\ Wanted \subseteq Block
  BY <1>0, QueueTypes
<1> DEFINE A == Asked("from")
           T == Told("from")
           W == Wanted
           A2 == Asked("from")'
           T2 == Told("from")'
           W2 == Wanted'
           n == x.msg_id["from"]
           n2 == x'.msg_id["from"]
<1>3. /\ \A q \in A : q.id < n /\ q.op \in {"open", "read", "close"}
      /\ \A m \in T : m.id < n
      /\ \A r \in W :
        /\ r.id < n /\ r.off + r.len <= x.offset
        /\ \A q \in A : q.id = r.id => q.op = "read" /\ q.off = r.off /\ q.len = r.len
        /\ \A m \in T : m.id = r.id => /\ m.type = "DATA" => r.off + m.len <= job.size
                                       /\ m.type = "EOF" => r.off >= job.size
  BY DEF MatchInv
<1>4. /\ \A q \in A \cup N : q.id \in Nat
      /\ \A r \in W \cup R : r.id \in Nat /\ r.off \in Nat /\ r.len \in Nat
      /\ \A m \in T : m.id \in Nat
  BY <1>2 DEF ReqRec, RepRec, Block
<1>5. A2 \subseteq A \cup N /\ T2 \subseteq T /\ W2 \subseteq W \cup R /\ n <= n2
  OBVIOUS
<1> HIDE DEF A, T, W, A2, T2, W2, n, n2
<1>6. \A q \in A2 : q.id < n2 /\ q.op \in {"open", "read", "close"}
  <2>1. \A q \in A : q.id < n2
    BY <1>1, <1>3, <1>4, <1>5 DEF n, n2
  <2> QED BY <1>3, <1>5, <2>1 DEF n2
<1>7. \A m \in T2 : m.id < n2
  BY <1>1, <1>3, <1>4, <1>5 DEF n, n2
<1>8. ASSUME NEW r \in W2
      PROVE /\ r.id < n2 /\ r.off + r.len <= x'.offset
            /\ \A q \in A2 : q.id = r.id => q.op = "read" /\ q.off = r.off /\ q.len = r.len
            /\ \A m \in T2 : m.id = r.id => /\ m.type = "DATA" => r.off + m.len <= job.size
                                            /\ m.type = "EOF" => r.off >= job.size
  <2>1. CASE r \in W
    <3>1. r.id < n /\ r.off + r.len <= x.offset /\ r.id \in Nat /\ r.off \in Nat /\ r.len \in Nat
      BY <1>3, <1>4, <2>1
    <3>2. \A q \in N : q.id # r.id
      BY <1>1, <1>4, <3>1 DEF n, n2
    <3>3. r.id < n2 /\ r.off + r.len <= x'.offset
      BY <1>1, <1>5, <3>1 DEF n, n2
    <3> QED BY <1>3, <1>5, <2>1, <3>2, <3>3
  <2>2. CASE r \in R
    <3>1. n <= r.id /\ r.id < n2 /\ r.off + r.len <= x'.offset /\ r.id \in Nat
      BY <1>4, <2>2 DEF n, n2
    <3>2. \A q \in A : q.id # r.id
      BY <1>1, <1>3, <1>4, <3>1 DEF n, n2
    <3>3. \A m \in T : m.id # r.id
      BY <1>1, <1>3, <1>4, <3>1 DEF n, n2
    <3> QED BY <1>5, <2>2, <3>1, <3>2, <3>3
  <2> QED BY <1>5, <2>1, <2>2
<1> QED BY <1>6, <1>7, <1>8 DEF MatchInv, A2, T2, W2, n2

\* Server "from" answers what it is asked and leaves the destination alone.
LEMMA FromTurn ==
    ASSUME TypeInv, MatchInv, ServerTurn("from")
    PROVE  /\ TypeInv' /\ MatchInv' /\ UNCHANGED <<job, x, interrupted, file, failed>>
           /\ srv'["to"] = srv["to"]
<1>0. "from" \in Servers /\ "to" \in Servers \ {"from"} /\ "to" # "from"
  BY DEF Servers
<1>1. /\ TypeInv' /\ UNCHANGED <<job, x, interrupted>> /\ srv'["to"] = srv["to"]
      /\ Moves("from") \/ Serves("from")
  BY <1>0, TurnEffect
<1>2. CASE Moves("from")
  <2>1. Asked("from")' = Asked("from") /\ Told("from")' = Told("from") /\ Wanted' = Wanted
        /\ UNCHANGED <<file, failed>>
    BY <1>1, <1>2 DEF Moves, Asked, Told, Wanted
  <2>2. MatchInv'
    BY <1>1, <2>1 DEF MatchInv
  <2> QED BY <1>1, <2>1, <2>2
<1>3. CASE Serves("from")
  <2> DEFINE q == Head(Work("from"))
  <2>1. PICK d : /\ Processed("from", q, d)
                 /\ Work("from")' = Tail(Work("from")) /\ Answers("from")' = Append(Answers("from"), d.reply)
                 /\ file' = d.file /\ failed' = failed
    BY <1>0, <1>3 DEF Serves
  <2>2. /\ Work("from") \in Seq(ReqRec) /\ Answers("from") \in Seq(RepRec) /\ Work("from") # <<>>
        /\ Asked("from") \subseteq ReqRec
    BY <1>0, <1>3, QueueTypes DEF Serves
  <2>3. El(Work("from")) = {q} \cup El(Tail(Work("from")))
    BY <2>2, ElTail
  <2>4. d.reply \in RepRec /\ d.reply.id = q.id
    BY <2>1 DEF Processed
  <2>5. El(Append(Answers("from"), d.reply)) = El(Answers("from")) \cup {d.reply}
    BY <2>2, <2>4, ElAppend
  <2>6. /\ Asked("from")' \subseteq Asked("from") /\ q \in Asked("from")
        /\ Told("from")' = Told("from") \cup {d.reply} /\ Wanted' = Wanted
    <3>1. Asked("from")' = El(Tail(Work("from"))) /\ Told("from")' = El(Append(Answers("from"), d.reply))
      BY <2>1 DEF Asked, Told
    <3> QED BY <1>1, <2>3, <2>5, <3>1 DEF Asked, Told, Wanted
  <2>7. q.op \in {"open", "read", "close"} /\ q.id < x.msg_id["from"]
    BY <2>6 DEF MatchInv
  <2>8. file' = file
    BY <1>0, <2>1, <2>7 DEF Processed
  <2>9. ASSUME NEW r \in Wanted, d.reply.id = r.id
        PROVE  /\ d.reply.type = "DATA" => r.off + d.reply.len <= job.size
               /\ d.reply.type = "EOF" => r.off >= job.size
    <3>1. q.op = "read" /\ q.off = r.off
      BY <2>4, <2>6, <2>9 DEF MatchInv
    <3> QED BY <2>1, <3>1 DEF Processed
  <2>10. MatchInv'
    <3>1. \A m \in Told("from") \cup {d.reply} : m.id < x.msg_id["from"]
      BY <2>4, <2>7 DEF MatchInv
    <3>2. \A r \in Wanted : \A m \in Told("from") \cup {d.reply} :
             m.id = r.id => /\ m.type = "DATA" => r.off + m.len <= job.size
                            /\ m.type = "EOF" => r.off >= job.size
      BY <2>9 DEF MatchInv
    <3> QED BY <1>1, <2>6, <3>1, <3>2 DEF MatchInv
  <2> QED BY <1>1, <2>1, <2>8, <2>10
<1> QED BY <1>1, <1>2, <1>3

----------------------------------------------------------------------------
(* The loop that reads.                                                    *)

\* The blocks asked for in one turn, and which of them holds block b.
LEMMA BlockEnds ==
    ASSUME NEW o \in Nat, NEW k \in Nat, NEW n \in Nat, NEW i \in 1..n
    PROVE  /\ (i - 1) * k \in Nat /\ n * k \in Nat /\ i * k \in Nat /\ i * k = (i - 1) * k + k
           /\ o + (i - 1) * k + k <= o + n * k
<1>1. i \in Nat /\ i - 1 \in Nat /\ n - i \in Nat
  OBVIOUS
<1>2. (i - 1) * k \in Nat /\ n * k \in Nat /\ i * k \in Nat /\ (n - i) * k \in Nat
  BY ONLY <1>1, n \in Nat, k \in Nat
<1>3. i * k = (i - 1) * k + k
  BY ONLY <1>1, k \in Nat
<1>4. n * k = i * k + (n - i) * k
  BY ONLY <1>1, k \in Nat, n \in Nat
<1> QED BY <1>2, <1>3, <1>4

LEMMA BlockOf ==
    ASSUME NEW o \in Nat, NEW k \in Nat, NEW n \in Nat, NEW b \in Nat, o < b, b <= o + n * k
    PROVE  \E i \in 1..n : o + (i - 1) * k < b /\ b <= o + (i - 1) * k + k
<1> DEFINE T == {i \in Nat : b <= o + i * k}
<1>1. n \in T
  OBVIOUS
<1>2. PICK i \in T : \A j \in T : ~(<<j, i>> \in OpToRel(<, Nat))
  <2>1. T \subseteq Nat /\ T # {}
    BY <1>1
  <2> HIDE DEF T
  <2> QED BY <2>1, NatLessThanWellFounded, WFMin
<1>3. i \in Nat /\ b <= o + i * k /\ \A j \in Nat : j < i => ~(b <= o + j * k)
  BY <1>2 DEF OpToRel
<1>4. i # 0
  <2>1. 0 * k = 0
    BY ONLY k \in Nat
  <2> QED BY <1>3, <2>1
<1>5. i <= n
  BY <1>1, <1>3
<1>6. i \in 1..n /\ i - 1 \in Nat
  BY <1>3, <1>4, <1>5
<1>7. (i - 1) * k \in Nat /\ i * k = (i - 1) * k + k
  BY <1>6, BlockEnds
<1>8. ~(b <= o + (i - 1) * k)
  BY <1>3, <1>6
<1>9. o + (i - 1) * k < b /\ b <= o + (i - 1) * k + k
  BY <1>3, <1>7, <1>8
<1> QED BY <1>6, <1>9

\* Everything that has come from "to" is taken.
LEMMA AteEffect ==
    ASSUME TypeInv, NEW r \in Server, r.out = <<>>, r.oqueue = srv["to"].oqueue, r.in = srv["to"].in,
           r.iqueue = srv["to"].iqueue, srv'["to"] = r
    PROVE  /\ Work("to")' = Work("to") /\ Asked("to")' = Asked("to")
           /\ Len(Answers("to")') = Len(Answers("to")) - Len(srv["to"].out)
           /\ Told("to")' \subseteq Told("to") /\ Told("to") = Told("to")' \cup El(srv["to"].out)
           /\ Len(srv["to"].out) \in Nat /\ srv["to"].out \in Seq(RepRec)
<1>1. srv["to"].out \in Seq(RepRec) /\ srv["to"].oqueue \in Seq(RepRec) /\ <<>> \in Seq(RepRec)
  BY DEF TypeInv, Server, Servers
<1> DEFINE a == srv["to"].out
           b == srv["to"].oqueue
<1>2. Answers("to") = a \o b /\ Answers("to")' = <<>> \o b /\ Work("to")' = Work("to")
  BY DEF Answers, Work
<1>3. a \in Seq(RepRec) /\ b \in Seq(RepRec)
  BY <1>1
<1> HIDE DEF a, b
<1>4. <<>> \o b = b
  BY <1>3, ConcatEmptySeq
<1>5. Len(a \o b) = Len(a) + Len(b) /\ El(a \o b) = El(a) \cup El(b) /\ Len(a) \in Nat /\ Len(b) \in Nat
  BY <1>3, ElCat, ElType
<1>6. Answers("to")' = b
  BY <1>2, <1>4
<1>7. Told("to")' = El(b) /\ Told("to") = El(a) \cup El(b)
  BY <1>2, <1>5, <1>6 DEF Told
<1>8. Len(Answers("to")') = Len(Answers("to")) - Len(a)
  BY <1>2, <1>5, <1>6
<1> QED BY <1>1, <1>2, <1>5, <1>7, <1>8 DEF Asked, a

LEMMA RequestEffect ==
    ASSUME TypeInv, MatchInv, SendRequests
    PROVE  /\ TypeInv' /\ MatchInv' /\ UNCHANGED <<job, file, interrupted, failed>>
           /\ x.pc = "loop" /\ x'.pc = "wait"
           /\ x.offset <= x'.offset /\ Wanted \subseteq Wanted'
           /\ \A b \in Nat : x.offset < b /\ b <= x'.offset => \E r \in Wanted' : In(r, b)
           /\ x'.max_req = IF interrupted THEN 0 ELSE x.max_req
           /\ x'.read_error = x.read_error /\ x'.maxack = x.maxack /\ x'.highwater = x.highwater
           /\ x'.reordered = x.reordered /\ x'.status = x.status /\ x'.to_open = x.to_open
           /\ x'.num_upload = x.num_upload - Len(srv["to"].out)
           /\ x'.write_error <=> (x.write_error \/ \E i \in DOMAIN srv["to"].out : srv["to"].out[i].type # "OK")
           /\ srv'["to"] = [srv["to"] EXCEPT !.out = <<>>]
<1> DEFINE max == IF interrupted THEN 0 ELSE x.max_req
           n == IF max > Len(x.requests) THEN max - Len(x.requests) ELSE 0
           new == [i \in 1..n |-> [id |-> x.msg_id["from"] + i - 1, off |-> x.offset + (i-1) * x.buflen, len |-> x.buflen]]
           sent == [i \in 1..n |-> [Msg("read", new[i].id) EXCEPT !.off = new[i].off, !.len = new[i].len]]
           ids == [x.msg_id EXCEPT !["from"] = @ + n]
           z == [x EXCEPT !.pc = "wait", !.max_req = max, !.requests = @ \o new,
                          !.offset = @ + n * x.buflen, !.msg_id["from"] = @ + n]
           err == x.write_error \/ \E i \in DOMAIN srv["to"].out : srv["to"].out[i].type # "OK"
<1>0. "from" \in Servers /\ "to" \in Servers /\ "from" # "to"
  BY DEF Servers
<1>1. /\ x.pc = "loop" /\ UNCHANGED <<job, file, interrupted, failed>>
      /\ srv' = [srv EXCEPT !["from"].in = @ \o sent, !["to"].out = <<>>]
      /\ x' = [z EXCEPT !.num_upload = @ - Len(srv["to"].out),
                        !.write_error = @ \/ \E i \in DOMAIN srv["to"].out : srv["to"].out[i].type # "OK"]
  BY Zenon DEF SendRequests, AteReplies
<1>2. /\ x.requests \in Seq(Block) /\ x.offset \in Nat /\ x.max_req \in Nat /\ x.buflen \in Nat
      /\ x.msg_id \in [Servers -> Nat] /\ x.msg_id["from"] \in Nat /\ x.num_upload \in Int
      /\ interrupted \in BOOLEAN /\ x.write_error \in BOOLEAN
  BY LocalTypes
<1>3. Len(x.requests) \in Nat /\ max \in Nat /\ n \in Nat
  BY <1>2
<1> HIDE DEF max, n
<1>4. ASSUME NEW i \in 1..n
      PROVE /\ new[i] \in Block /\ new[i].id = x.msg_id["from"] + i - 1 /\ new[i].len = x.buflen
            /\ new[i].off = x.offset + (i - 1) * x.buflen /\ new[i].off \in Nat
            /\ new[i].off + new[i].len <= x.offset + n * x.buflen
            /\ x.msg_id["from"] <= new[i].id /\ new[i].id < x.msg_id["from"] + n
  <2>1. new[i] = [id |-> x.msg_id["from"] + i - 1, off |-> x.offset + (i-1) * x.buflen, len |-> x.buflen]
    OBVIOUS
  <2> HIDE DEF new
  <2>2. (i - 1) * x.buflen \in Nat /\ n * x.buflen \in Nat /\ x.offset + (i - 1) * x.buflen + x.buflen <= x.offset + n * x.buflen
    BY <1>2, <1>3, BlockEnds
  <2> DEFINE p == (i - 1) * x.buflen
             l == n * x.buflen
  <2>3. p \in Nat /\ l \in Nat /\ x.offset + p + x.buflen <= x.offset + l
    BY <2>2
  <2>4. new[i].id = x.msg_id["from"] + i - 1 /\ new[i].off = x.offset + p /\ new[i].len = x.buflen
        /\ new[i] = [id |-> x.msg_id["from"] + i - 1, off |-> x.offset + p, len |-> x.buflen]
    BY <2>1
  <2> HIDE DEF p, l
  <2>5. /\ x.msg_id["from"] + i - 1 \in Nat /\ x.offset + p \in Nat
        /\ x.msg_id["from"] <= x.msg_id["from"] + i - 1 /\ x.msg_id["from"] + i - 1 < x.msg_id["from"] + n
    <3>1. x.msg_id["from"] \in Nat /\ n \in Nat /\ i \in 1..n
      BY <1>2, <1>3
    <3>2. x.offset \in Nat /\ p \in Nat
      BY <1>2, <2>3
    <3>3. /\ x.msg_id["from"] + i - 1 \in Nat
          /\ x.msg_id["from"] <= x.msg_id["from"] + i - 1 /\ x.msg_id["from"] + i - 1 < x.msg_id["from"] + n
      BY ONLY <3>1
    <3> QED BY ONLY <3>2, <3>3
  <2>6. new[i] \in Block
    BY <1>2, <2>4, <2>5 DEF Block
  <2>7. new[i].off + new[i].len <= x.offset + l
    BY <1>2, <2>3, <2>4
  <2> QED BY <2>4, <2>5, <2>6, <2>7 DEF p, l
<1>5. new \in Seq(Block) /\ Len(new) = n
  <2>1. new \in [1..n -> Block]
    <3>1. DOMAIN new = 1..n /\ new = [i \in 1..n |-> new[i]]
      OBVIOUS
    <3> HIDE DEF new
    <3> QED BY <1>4, <3>1
  <2> HIDE DEF new
  <2> QED BY <1>3, <2>1, SeqDef
<1>6. ASSUME NEW i \in 1..n
      PROVE /\ sent[i] \in ReqRec /\ sent[i].op = "read" /\ sent[i].id = new[i].id
            /\ sent[i].off = new[i].off /\ sent[i].len = new[i].len
  <2>1. sent[i] = [Msg("read", new[i].id) EXCEPT !.off = new[i].off, !.len = new[i].len]
    OBVIOUS
  <2>2. new[i] \in Block
    BY <1>4
  <2> HIDE DEF new, sent
  <2>3. sent[i] = [op |-> "read", id |-> new[i].id, off |-> new[i].off, len |-> new[i].len,
                   trunc |-> FALSE, append |-> FALSE]
    BY <2>1 DEF Msg
  <2> QED BY <2>2, <2>3 DEF Block, ReqRec, Op
<1>7. sent \in Seq(ReqRec) /\ Len(sent) = n
  <2>1. sent \in [1..n -> ReqRec]
    <3>1. DOMAIN sent = 1..n /\ sent = [i \in 1..n |-> sent[i]]
      OBVIOUS
    <3> HIDE DEF sent
    <3> QED BY <1>6, <3>1
  <2> HIDE DEF sent
  <2> QED BY <1>3, <2>1, SeqDef
<1> HIDE DEF new, sent
<1>8. x.requests \o new \in Seq(Block) /\ El(x.requests \o new) = El(x.requests) \cup El(new)
  BY <1>2, <1>5, ElCat
<1>9. n * x.buflen \in Nat /\ x.offset + n * x.buflen \in Nat /\ x.offset <= x.offset + n * x.buflen
  <2>1. n \in Nat /\ x.buflen \in Nat /\ x.offset \in Nat
    BY <1>2, <1>3
  <2>2. n * x.buflen \in Nat
    BY ONLY <2>1
  <2> QED BY ONLY <2>1, <2>2
<1>10. ids \in [Servers -> Nat] /\ ids["from"] = x.msg_id["from"] + n
  BY <1>0, <1>2, <1>3
<1>11. z = [x EXCEPT !.pc = "wait", !.max_req = max, !.requests = x.requests \o new,
                     !.offset = x.offset + n * x.buflen, !.msg_id = ids]
  BY <1>2 DEF TypeInv, Locals
<1> HIDE DEF ids, z
<1>12. /\ z \in Locals
  <2>1. "wait" \in PC /\ x \in Locals
    BY DEF PC, TypeInv
  <2> QED BY <1>3, <1>8, <1>9, <1>10, <1>11, <2>1, Zenon DEF Locals
<1>13. /\ z.pc = "wait" /\ z.max_req = max /\ z.requests = x.requests \o new /\ z.offset = x.offset + n * x.buflen
       /\ z.msg_id = ids /\ z.read_error = x.read_error /\ z.write_error = x.write_error /\ z.maxack = x.maxack
       /\ z.highwater = x.highwater /\ z.reordered = x.reordered /\ z.status = x.status
       /\ z.to_open = x.to_open /\ z.num_upload = x.num_upload
  BY <1>11 DEF TypeInv, Locals
<1>14. srv["to"] \in Server /\ srv["to"].out \in Seq(RepRec) /\ Len(srv["to"].out) \in Nat
       /\ srv["from"] \in Server /\ srv["from"].in \in Seq(ReqRec)
  BY <1>0 DEF TypeInv, Server
<1>15. err \in BOOLEAN /\ x.num_upload - Len(srv["to"].out) \in Int
  BY <1>2, <1>14
<1>16. x' = [z EXCEPT !.num_upload = x.num_upload - Len(srv["to"].out), !.write_error = err]
  BY <1>1, <1>12, <1>13 DEF Locals
<1> HIDE DEF err
<1>17. x' \in Locals
  BY <1>12, <1>15, <1>16, Zenon DEF Locals
<1>18. /\ x'.pc = "wait" /\ x'.max_req = max /\ x'.requests = x.requests \o new /\ x'.offset = x.offset + n * x.buflen
       /\ x'.msg_id = ids /\ x'.read_error = x.read_error /\ x'.write_error = err /\ x'.maxack = x.maxack
       /\ x'.highwater = x.highwater /\ x'.reordered = x.reordered /\ x'.status = x.status
       /\ x'.to_open = x.to_open /\ x'.num_upload = x.num_upload - Len(srv["to"].out)
  BY <1>12, <1>13, <1>16 DEF Locals
<1> DEFINE f == [srv["from"] EXCEPT !.in = @ \o sent]
           t == [srv["to"] EXCEPT !.out = <<>>]
<1>19. srv["from"].in \o sent \in Seq(ReqRec)
  BY <1>7, <1>14, ElCat
<1>20. /\ f \in Server /\ f.in = srv["from"].in \o sent /\ f.iqueue = srv["from"].iqueue /\ f.out = srv["from"].out
       /\ f.oqueue = srv["from"].oqueue
  BY <1>14, <1>19 DEF Server
<1>21. t \in Server
  <2>1. <<>> \in Seq(RepRec)
    OBVIOUS
  <2> QED BY <1>14, <2>1 DEF Server
<1>22. srv'["from"] = f /\ srv'["to"] = t /\ srv' \in [Servers -> Server]
  <2>1. srv' = [srv EXCEPT !["from"] = f, !["to"] = t]
    BY <1>0, <1>1 DEF TypeInv
  <2> HIDE DEF f, t
  <2> QED BY <1>0, <1>20, <1>21, <2>1 DEF TypeInv
<1>23. TypeInv'
  BY <1>1, <1>17, <1>22 DEF TypeInv
<1>24. Asked("from")' = Asked("from") \cup El(sent) /\ Told("from")' = Told("from")
  <2> HIDE DEF f
  <2> QED BY <1>0, <1>7, <1>20, <1>22, SendEffect
<1>25. Wanted' = Wanted \cup El(new)
  BY <1>8, <1>18 DEF Wanted
<1>26. /\ \A r \in El(new) : \E i \in 1..n : r = new[i]
       /\ \A q \in El(sent) : \E i \in 1..n : q = sent[i]
       /\ \A i \in 1..n : new[i] \in El(new)
  BY <1>5, <1>7 DEF El
<1>27. El(sent) \subseteq ReqRec /\ El(new) \subseteq Block
  BY <1>5, <1>7, ElType
<1>28. x'.msg_id["from"] = x.msg_id["from"] + n
  BY <1>10, <1>18
<1>29. \A q \in El(sent) : /\ x.msg_id["from"] <= q.id /\ q.id < x'.msg_id["from"]
                           /\ q.op \in {"open", "read", "close"}
  BY <1>4, <1>6, <1>26, <1>28
<1>30. ASSUME NEW r \in El(new)
       PROVE  /\ x.msg_id["from"] <= r.id /\ r.id < x'.msg_id["from"] /\ r.off + r.len <= x'.offset
              /\ \A q \in El(sent) : q.id = r.id => q.op = "read" /\ q.off = r.off /\ q.len = r.len
  <2>1. PICK i \in 1..n : r = new[i]
    BY <1>26
  <2>2. x.msg_id["from"] <= r.id /\ r.id < x'.msg_id["from"] /\ r.off + r.len <= x'.offset
    BY <1>4, <1>18, <1>28, <2>1
  <2>3. ASSUME NEW q \in El(sent), q.id = r.id PROVE q.op = "read" /\ q.off = r.off /\ q.len = r.len
    <3>1. PICK j \in 1..n : q = sent[j]
      BY <1>26
    <3>2. new[j].id = x.msg_id["from"] + j - 1 /\ new[i].id = x.msg_id["from"] + i - 1 /\ q.id = new[j].id
      BY <1>4, <1>6, <3>1
    <3>3. i = j
      BY <1>2, <1>3, <2>1, <2>3, <3>2
    <3> QED BY <1>6, <2>1, <3>1, <3>3
  <2> QED BY <2>2, <2>3
<1>31. x.msg_id["from"] <= x'.msg_id["from"] /\ x.offset <= x'.offset
  <2>1. x.msg_id["from"] \in Nat /\ n \in Nat
    BY <1>2, <1>3
  <2>2. x.msg_id["from"] <= x.msg_id["from"] + n
    BY ONLY <2>1
  <2> QED BY <1>9, <1>18, <1>28, <2>2
<1>32. MatchInv'
  <2> DEFINE N == El(sent)
             R == El(new)
  <2>1. N \in SUBSET ReqRec /\ R \in SUBSET Block
    BY <1>27
  <2>2. /\ Asked("from")' \subseteq Asked("from") \cup N /\ Told("from")' \subseteq Told("from")
        /\ Wanted' \subseteq Wanted \cup R
    BY <1>24, <1>25
  <2>3. \A q \in N : /\ x.msg_id["from"] <= q.id /\ q.id < x'.msg_id["from"]
                     /\ q.op \in {"open", "read", "close"}
    BY <1>29
  <2>4. \A r \in R : /\ x.msg_id["from"] <= r.id /\ r.id < x'.msg_id["from"] /\ r.off + r.len <= x'.offset
                     /\ \A q \in N : q.id = r.id => q.op = "read" /\ q.off = r.off /\ q.len = r.len
    BY <1>30
  <2>5. job' = job
    BY <1>1
  <2> HIDE DEF N, R
  <2>6. Grown(N, R)
    BY <1>31, <2>1, <2>2, <2>3, <2>4 DEF Grown
  <2> QED BY ONLY TypeInv, MatchInv, <1>23, <2>5, <2>6, MatchGrows
<1>33. ASSUME NEW b \in Nat, x.offset < b, b <= x'.offset PROVE \E r \in Wanted' : In(r, b)
  <2>1. PICK i \in 1..n : x.offset + (i - 1) * x.buflen < b /\ b <= x.offset + (i - 1) * x.buflen + x.buflen
    <3> DEFINE o == x.offset
               k == x.buflen
    <3>1. o \in Nat /\ k \in Nat /\ n \in Nat /\ b \in Nat /\ o < b /\ b <= o + n * k
      BY <1>2, <1>3, <1>18, <1>33
    <3> HIDE DEF o, k
    <3>2. \E i \in 1..n : o + (i - 1) * k < b /\ b <= o + (i - 1) * k + k
      BY ONLY <3>1, BlockOf
    <3> QED BY <3>2 DEF o, k
  <2>2. In(new[i], b)
    BY <1>4, <2>1 DEF In
  <2> QED BY <1>25, <1>26, <2>2
<1>34. x'.max_req = IF interrupted THEN 0 ELSE x.max_req
  BY <1>18 DEF max
<1>35. x'.write_error <=> (x.write_error \/ \E i \in DOMAIN srv["to"].out : srv["to"].out[i].type # "OK")
  BY <1>18, Zenon DEF err
<1> QED BY <1>1, <1>18, <1>22, <1>23, <1>25, <1>31, <1>32, <1>33, <1>34, <1>35

\* What a reply leaves to be asked for.
RestOf(k, q, n, rest) ==
    /\ rest \in Locals /\ q \in Block /\ q \in Wanted
    /\ rest.offset = x.offset /\ rest.max_req = x.max_req /\ rest.read_error = x.read_error
    /\ rest.write_error = x.write_error /\ rest.maxack = x.maxack /\ rest.highwater = x.highwater
    /\ rest.reordered = x.reordered /\ rest.status = x.status /\ rest.num_upload = x.num_upload
    /\ rest.to_open = x.to_open /\ rest.seen_zerolen = x.seen_zerolen
    /\ Wanted \subseteq El(rest.requests) \cup {q}
    /\ \/ /\ n = q.len /\ Len(rest.requests) < Len(x.requests) /\ rest.msg_id = x.msg_id
          /\ El(rest.requests) \subseteq Wanted
       \/ /\ n < q.len /\ Len(rest.requests) = Len(x.requests)
          /\ rest.msg_id["from"] = x.msg_id["from"] + 1
          /\ rest.requests[k] = [id |-> x.msg_id["from"], off |-> q.off + n, len |-> q.len - n]
          /\ rest.requests[k] \in El(rest.requests)
          /\ El(rest.requests) \subseteq Wanted \cup {rest.requests[k]}

LEMMA RemainingFacts ==
    ASSUME TypeInv, NEW k \in 1..Len(x.requests), NEW n \in Nat, n <= x.requests[k].len
    PROVE  RestOf(k, x.requests[k], n, Remaining(x, k, n))
<1> DEFINE q == x.requests[k]
           rest == Remaining(x, k, n)
<1> SUFFICES RestOf(k, q, n, rest)
  OBVIOUS
<1> USE DEF RestOf
<1>0. "from" \in Servers
  BY DEF Servers
<1>1. /\ x.requests \in Seq(Block) /\ x.msg_id \in [Servers -> Nat] /\ x.msg_id["from"] \in Nat /\ x.buflen \in Nat
      /\ x \in Locals
  BY LocalTypes DEF TypeInv
<1>2. q \in Block /\ q \in Wanted /\ Len(x.requests) \in Nat
  BY <1>1, ElType DEF Wanted
<1>3. q.id \in Nat /\ q.off \in Nat /\ q.len \in Nat
  BY <1>2 DEF Block
<1>4. CASE n = q.len
  <2>1. rest = [x EXCEPT !.requests = RemoveAt(x.requests, k)]
    BY <1>1, <1>4 DEF Remaining, Locals
  <2>2. /\ RemoveAt(x.requests, k) \in Seq(Block) /\ Len(RemoveAt(x.requests, k)) = Len(x.requests) - 1
        /\ El(RemoveAt(x.requests, k)) \subseteq El(x.requests)
        /\ El(x.requests) \subseteq El(RemoveAt(x.requests, k)) \cup {q}
    BY <1>1, ElRemoveAt
  <2> DEFINE u == RemoveAt(x.requests, k)
  <2> HIDE DEF u, rest
  <2>3. u \in Seq(Block) /\ rest = [x EXCEPT !.requests = u]
    BY <2>1, <2>2 DEF u
  <2>4. rest \in Locals
    BY <1>1, <2>3, Zenon DEF Locals
  <2>5. /\ rest.requests = u /\ rest.msg_id = x.msg_id
        /\ rest.offset = x.offset /\ rest.max_req = x.max_req /\ rest.read_error = x.read_error
        /\ rest.write_error = x.write_error /\ rest.maxack = x.maxack /\ rest.highwater = x.highwater
        /\ rest.reordered = x.reordered /\ rest.status = x.status /\ rest.num_upload = x.num_upload
        /\ rest.to_open = x.to_open /\ rest.seen_zerolen = x.seen_zerolen
    BY <1>1, <2>3 DEF Locals
  <2>6. Len(u) < Len(x.requests) /\ El(u) \subseteq Wanted /\ Wanted \subseteq El(u) \cup {q}
    BY <1>2, <2>2 DEF u, Wanted
  <2> HIDE DEF q
  <2> QED BY <1>2, <1>4, <2>4, <2>5, <2>6
<1>5. CASE n # q.len
  <2> DEFINE e == [id |-> x.msg_id["from"], off |-> q.off + n, len |-> q.len - n]
             u == [x.requests EXCEPT ![k] = e]
             ids == [x.msg_id EXCEPT !["from"] = @ + 1]
             buf == IF n < x.buflen THEN (IF n > MinRead THEN n ELSE MinRead) ELSE x.buflen
  <2>1. rest = [x EXCEPT !.requests = u, !.msg_id = ids, !.buflen = buf]
    BY <1>1, <1>5 DEF Remaining, Locals
  <2>2. e \in Block
    <3>1. q.off + n \in Nat /\ q.len - n \in Nat
      BY <1>3
    <3> QED BY <1>1, <3>1 DEF Block
  <2>3. ids \in [Servers -> Nat] /\ ids["from"] = x.msg_id["from"] + 1
    BY <1>0, <1>1
  <2>4. buf \in Nat
    BY <1>1, SftpAssumption
  <2>5. n < q.len
    BY <1>3, <1>5
  <2> HIDE DEF e
  <2>6. /\ u \in Seq(Block) /\ Len(u) = Len(x.requests) /\ El(u) \subseteq El(x.requests) \cup {e}
        /\ e \in El(u) /\ El(x.requests) \subseteq El(u) \cup {q}
    <3> DEFINE v == x.requests
    <3>1. v \in Seq(Block) /\ k \in 1..Len(v) /\ q = v[k] /\ u = Replaced(v, k, e)
      BY <1>1 DEF Replaced
    <3> HIDE DEF v, u
    <3>2. LET w == Replaced(v, k, e)
          IN  /\ w \in Seq(Block) /\ Len(w) = Len(v)
              /\ El(w) \subseteq El(v) \cup {e} /\ e \in El(w) /\ El(v) \subseteq El(w) \cup {v[k]}
      <4>1. v \in Seq(Block) /\ e \in Block
        BY <2>2, <3>1
      <4>2. k \in 1..Len(v)
        BY <3>1
      <4>3. Replaced(v, k, e) \in Seq(Block) 
        BY ONLY <4>1, <4>2, ElReplace
      <4>4. Len(Replaced(v, k, e)) = Len(v)
        BY ONLY <4>1, <4>2, ElReplace
      <4>5. El(Replaced(v, k, e)) \subseteq El(v) \cup {e}
        BY ONLY <4>1, <4>2, ElReplace
      <4>6. e \in El(Replaced(v, k, e)) 
        BY ONLY <4>1, <4>2, ElReplace
      <4>7. El(v) \subseteq El(Replaced(v, k, e)) \cup {v[k]}
        BY ONLY <4>1, <4>2, ElReplace
      <4> QED BY <4>3, <4>4, <4>5, <4>6, <4>7
    <3> QED BY <3>1, <3>2 DEF v
  <2>7. u[k] = e
    BY <1>1
  <2> HIDE DEF u, ids, buf, rest
  <2>8. rest \in Locals
    BY <1>1, <2>1, <2>3, <2>4, <2>6, Zenon DEF Locals
  <2>9. /\ rest.requests = u /\ rest.msg_id = ids
        /\ rest.offset = x.offset /\ rest.max_req = x.max_req /\ rest.read_error = x.read_error
        /\ rest.write_error = x.write_error /\ rest.maxack = x.maxack /\ rest.highwater = x.highwater
        /\ rest.reordered = x.reordered /\ rest.status = x.status /\ rest.num_upload = x.num_upload
        /\ rest.to_open = x.to_open /\ rest.seen_zerolen = x.seen_zerolen
    BY <1>1, <2>1 DEF Locals
  <2>10. rest.requests[k] = e /\ rest.msg_id["from"] = x.msg_id["from"] + 1
    BY <2>3, <2>7, <2>9
  <2>11. /\ Len(rest.requests) = Len(x.requests) /\ El(rest.requests) \subseteq Wanted \cup {e}
         /\ e \in El(rest.requests) /\ Wanted \subseteq El(rest.requests) \cup {q}
    BY <2>6, <2>9 DEF Wanted
  <2> HIDE DEF q
  <2> QED BY <1>2, <2>5, <2>8, <2>9, <2>10, <2>11 DEF e
<1> QED BY <1>4, <1>5

ReadOf(id, off, len) == [Msg("read", id) EXCEPT !.off = off, !.len = len]

LEMMA ReadMsg ==
    ASSUME NEW id \in Nat, NEW off \in Nat, NEW len \in Nat
    PROVE  LET a == ReadOf(id, off, len)
           IN  a \in ReqRec /\ a.op = "read" /\ a.id = id /\ a.off = off /\ a.len = len
<1> DEFINE m == Msg("read", id)
<1>1. m \in ReqRec /\ m.op = "read" /\ m.id = id
  BY DEF Msg, ReqRec, Op
<1>2. ReadOf(id, off, len) = [m EXCEPT !.off = off, !.len = len]
  BY DEF ReadOf
<1> HIDE DEF m
<1>3. ReadOf(id, off, len) \in ReqRec
  BY <1>1, <1>2, Zenon DEF ReqRec
<1> QED BY <1>1, <1>2, <1>3 DEF ReqRec

\* The reply at i answers request k with data, and what is missing is asked
\* for again.
DataTaken(i, k, m, q, rest) ==
    /\ i \in 1..Len(srv["from"].out) /\ k \in 1..Len(x.requests)
    /\ m = srv["from"].out[i] /\ q = x.requests[k] /\ q.id = m.id /\ Usable(m, k)
    /\ rest = Remaining(x, k, m.len) /\ srv'["from"] = AskedAgain(i, k, rest)["from"]
    /\ UNCHANGED job /\ x' \in Locals
    /\ x'.requests = rest.requests /\ x'.offset = rest.offset /\ x'.msg_id["from"] = rest.msg_id["from"]
    /\ srv'["to"] \in Server /\ srv' = [s \in Servers |-> srv'[s]]
    /\ file' \in Seq(Int) /\ interrupted' \in BOOLEAN /\ failed' \in Nat

LEMMA DataEffect ==
    ASSUME TypeInv, MatchInv, NEW i, NEW k, NEW m, NEW q, NEW rest, DataTaken(i, k, m, q, rest)
    PROVE  /\ TypeInv' /\ MatchInv'
           /\ q \in Wanted /\ q \in Block /\ m.len \in Nat /\ m.len <= q.len
           /\ q.off + m.len <= job.size /\ q.off + q.len <= x.offset
           /\ Wanted \subseteq Wanted' \cup {q}
           /\ \A b \in Nat : In(q, b) /\ q.off + m.len < b => \E r \in Wanted' : In(r, b)
<1> USE DEF DataTaken
<1> DEFINE f == srv["from"]
<1>0. "from" \in Servers /\ "to" \in Servers
  BY DEF Servers
<1>1. /\ f \in Server /\ f.out \in Seq(RepRec) /\ f.in \in Seq(ReqRec) /\ x.msg_id["from"] \in Nat
      /\ x.requests \in Seq(Block)
  BY <1>0, LocalTypes DEF TypeInv, Server
<1>2. RemoveAt(f.out, i) \in Seq(RepRec)
  BY <1>1, ElRemoveAt
<1>3. m \in RepRec /\ m.len \in Nat /\ m.id \in Nat /\ m \in Told("from")
  <2>1. m \in RepRec /\ m \in El(f.out)
    BY <1>1, ElType
  <2>2. El(f.out) \subseteq Told("from")
    <3>1. f.oqueue \in Seq(RepRec)
      BY <1>1 DEF Server
    <3>2. El(f.out \o f.oqueue) = El(f.out) \cup El(f.oqueue)
      BY <1>1, <3>1, ElCat
    <3> QED BY <3>2 DEF Told, Answers
  <2> QED BY <2>1, <2>2 DEF RepRec
<1>4. m.type = "DATA" /\ m.len <= q.len
  BY DEF Usable
<1>5. /\ rest \in Locals /\ q \in Block /\ q \in Wanted
      /\ rest.offset = x.offset /\ Wanted \subseteq El(rest.requests) \cup {q}
      /\ \/ /\ m.len = q.len /\ Len(rest.requests) < Len(x.requests) /\ rest.msg_id = x.msg_id
            /\ El(rest.requests) \subseteq Wanted
         \/ /\ m.len < q.len /\ Len(rest.requests) = Len(x.requests)
            /\ rest.msg_id["from"] = x.msg_id["from"] + 1
            /\ rest.requests[k] = [id |-> x.msg_id["from"], off |-> q.off + m.len, len |-> q.len - m.len]
            /\ rest.requests[k] \in El(rest.requests)
            /\ El(rest.requests) \subseteq Wanted \cup {rest.requests[k]}
  <2> DEFINE n == m.len
  <2>1. n \in Nat /\ n <= x.requests[k].len /\ rest = Remaining(x, k, n)
    BY <1>3, <1>4
  <2> HIDE DEF n
  <2>2. /\ rest \in Locals /\ q \in Block /\ q \in Wanted
        /\ rest.offset = x.offset /\ Wanted \subseteq El(rest.requests) \cup {q}
        /\ \/ /\ n = q.len /\ Len(rest.requests) < Len(x.requests) /\ rest.msg_id = x.msg_id
              /\ El(rest.requests) \subseteq Wanted
           \/ /\ n < q.len /\ Len(rest.requests) = Len(x.requests)
              /\ rest.msg_id["from"] = x.msg_id["from"] + 1
              /\ rest.requests[k] = [id |-> x.msg_id["from"], off |-> q.off + n, len |-> q.len - n]
              /\ rest.requests[k] \in El(rest.requests)
              /\ El(rest.requests) \subseteq Wanted \cup {rest.requests[k]}
    <3>1. k \in 1..Len(x.requests) /\ q = x.requests[k]
      OBVIOUS
    <3>2. RestOf(k, x.requests[k], n, Remaining(x, k, n))
      BY ONLY TypeInv, <2>1, <3>1, RemainingFacts
    <3>3. RestOf(k, q, n, rest)
      BY ONLY <2>1, <3>1, <3>2
    <3> QED BY ONLY <3>3 DEF RestOf
  <2> QED BY <2>2 DEF n
<1>6. q.off \in Nat /\ q.len \in Nat /\ q.id \in Nat
  BY <1>5 DEF Block
<1>7. q.off + m.len <= job.size /\ q.off + q.len <= x.offset
  BY <1>3, <1>4, <1>5 DEF MatchInv
<1>8. Wanted' = El(rest.requests)
  BY DEF Wanted
<1> DEFINE e == rest.requests[k]
           again == IF Len(rest.requests) < Len(x.requests) THEN <<>>
                    ELSE <<[Msg("read", e.id) EXCEPT !.off = e.off, !.len = e.len]>>
           g == [f EXCEPT !.out = RemoveAt(@, i), !.in = @ \o again]
<1>9. srv'["from"] = g
  <2>1. AskedAgain(i, k, rest) = [srv EXCEPT !["from"].out = RemoveAt(@, i), !["from"].in = @ \o again]
    BY DEF AskedAgain
  <2> QED BY <1>0, <2>1 DEF TypeInv, Server
\* Either nothing is left, or the rest is asked for under a new id.
<1>10. /\ again \in Seq(ReqRec) /\ El(again) \subseteq ReqRec
       /\ \/ m.len = q.len /\ El(again) = {} /\ Wanted' \subseteq Wanted /\ rest.msg_id["from"] = x.msg_id["from"]
          \/ /\ m.len < q.len /\ e \in Wanted' /\ Wanted' \subseteq Wanted \cup {e}
             /\ e \in Block /\ e.id = x.msg_id["from"] /\ e.off = q.off + m.len /\ e.len = q.len - m.len
             /\ rest.msg_id["from"] = x.msg_id["from"] + 1
             /\ \A a \in El(again) : /\ a \in ReqRec /\ a.op = "read" /\ a.id = e.id /\ a.off = e.off /\ a.len = e.len
  <2>1. CASE Len(rest.requests) < Len(x.requests)
    <3>1. again = <<>>
      BY <2>1
    <3>2. <<>> \in Seq(ReqRec) /\ El(<<>>) = {}
      BY DEF El
    <3>3. Len(rest.requests) # Len(x.requests)
      <4>1. rest.requests \in Seq(Block)
        BY <1>5 DEF Locals
      <4>2. Len(rest.requests) \in Nat /\ Len(x.requests) \in Nat
        BY <1>1, <4>1
      <4> QED BY <2>1, <4>2
    <3> HIDE DEF again, e
    <3> QED BY <1>5, <1>8, <3>1, <3>2, <3>3
  <2>2. CASE ~(Len(rest.requests) < Len(x.requests))
    <3>1. again = <<[Msg("read", e.id) EXCEPT !.off = e.off, !.len = e.len]>>
      BY <2>2
    <3>2. /\ m.len < q.len /\ e \in Wanted' /\ Wanted' \subseteq Wanted \cup {e}
          /\ e = [id |-> x.msg_id["from"], off |-> q.off + m.len, len |-> q.len - m.len]
          /\ rest.msg_id["from"] = x.msg_id["from"] + 1
      BY <1>5, <1>8, <2>2
    <3> HIDE DEF again, e
    <3>3. e.id = x.msg_id["from"] /\ e.off = q.off + m.len /\ e.len = q.len - m.len
          /\ e.id \in Nat /\ e.off \in Nat /\ e.len \in Nat /\ e \in Block
      <4>1. q.off + m.len \in Nat /\ q.len - m.len \in Nat
        BY ONLY <1>3, <1>4, <1>6
      <4> QED BY <1>1, <3>2, <4>1 DEF Block
    <3> DEFINE a == [Msg("read", e.id) EXCEPT !.off = e.off, !.len = e.len]
    <3>4. a = ReadOf(e.id, e.off, e.len)
      BY DEF ReadOf
    <3> HIDE DEF a
    <3>5. a \in ReqRec /\ a.op = "read" /\ a.id = e.id /\ a.off = e.off /\ a.len = e.len
      BY ONLY <3>3, <3>4, ReadMsg
    <3>6. again = <<a>>
      BY <3>1 DEF a
    <3>7. <<a>> \in Seq(ReqRec) /\ El(<<a>>) = {a}
      BY <3>5 DEF El
    <3> QED BY <3>2, <3>3, <3>5, <3>6, <3>7
  <2> QED BY <2>1, <2>2
<1> HIDE DEF again, e
<1>11. f.in \o again \in Seq(ReqRec)
  BY <1>1, <1>10, ElCat
<1>12. /\ g \in Server /\ g.in = f.in \o again /\ g.out = RemoveAt(f.out, i) /\ g.iqueue = f.iqueue
       /\ g.oqueue = f.oqueue
  BY <1>1, <1>2, <1>11 DEF Server
<1> HIDE DEF g
<1>13. TypeInv'
  <2>1. srv'["from"] \in Server
    BY <1>9, <1>12
  <2>2. \A s \in Servers : srv'[s] \in Server
    BY <2>1 DEF Servers
  <2>3. srv' \in [Servers -> Server]
    BY <2>2
  <2> QED BY <2>3 DEF TypeInv
<1>14. Told("from")' \subseteq Told("from")
  BY <1>0, <1>9, <1>12, TakeEffect
<1>15. Asked("from")' = Asked("from") \cup El(again)
  <2> DEFINE h == [f EXCEPT !.in = @ \o again]
  <2>1. Work("from")' = f.iqueue \o (f.in \o again) /\ Work("from") = f.iqueue \o f.in
    BY <1>9, <1>12 DEF Work
  <2>2. f.iqueue \in Seq(ReqRec)
    BY <1>1 DEF Server
  <2>3. El(f.in \o again) = El(f.in) \cup El(again)
    BY <1>1, <1>10, ElCat
  <2>4. El(f.iqueue \o f.in) = El(f.iqueue) \cup El(f.in)
    BY <1>1, <2>2, ElCat
  <2>5. El(f.iqueue \o (f.in \o again)) = El(f.iqueue) \cup El(f.in \o again)
    <3> DEFINE u == f.iqueue
               v == f.in \o again
    <3>1. u \in Seq(ReqRec) /\ v \in Seq(ReqRec)
      BY <1>11, <2>2
    <3> HIDE DEF u, v
    <3>2. El(u \o v) = El(u) \cup El(v)
      BY ONLY <3>1, ElCat
    <3> QED BY <3>2 DEF u, v
  <2>6. Asked("from")' = El(f.iqueue \o (f.in \o again)) /\ Asked("from") = El(f.iqueue \o f.in)
    BY <2>1 DEF Asked
  <2> QED BY <2>3, <2>4, <2>5, <2>6
<1>16. MatchInv'
  <2> DEFINE R == IF m.len = q.len THEN {} ELSE {e}
             N == El(again)
  <2>1. N \in SUBSET ReqRec /\ R \in SUBSET Block
    BY <1>10
  <2>2. /\ Asked("from")' \subseteq Asked("from") \cup N /\ Wanted' \subseteq Wanted \cup R
    BY <1>3, <1>6, <1>10, <1>15
  <2>3. x.msg_id["from"] <= x'.msg_id["from"] /\ x.offset <= x'.offset
    <3>1. x.offset \in Nat /\ x'.offset = x.offset /\ (x'.msg_id["from"] = x.msg_id["from"] \/ x'.msg_id["from"] = x.msg_id["from"] + 1)
      BY <1>5, <1>10, LocalTypes
    <3> QED BY <1>1, <3>1
  <2>4. \A a \in N : /\ x.msg_id["from"] <= a.id /\ a.id < x'.msg_id["from"]
                     /\ a.op \in {"open", "read", "close"}
    <3>1. \A a \in N : a.id = x.msg_id["from"] /\ x'.msg_id["from"] = x.msg_id["from"] + 1 /\ a.op = "read"
      BY <1>10
    <3>2. x.msg_id["from"] <= x.msg_id["from"] /\ x.msg_id["from"] < x.msg_id["from"] + 1
      BY <1>1
    <3> QED BY <3>1, <3>2
  <2>5. \A r \in R : /\ x.msg_id["from"] <= r.id /\ r.id < x'.msg_id["from"] /\ r.off + r.len <= x'.offset
                     /\ \A a \in N : a.id = r.id => a.op = "read" /\ a.off = r.off /\ a.len = r.len
    <3> SUFFICES ASSUME m.len < q.len, e \in R
                 PROVE  /\ x.msg_id["from"] <= e.id /\ e.id < x'.msg_id["from"] /\ e.off + e.len <= x'.offset
                        /\ \A a \in N : a.id = e.id => a.op = "read" /\ a.off = e.off /\ a.len = e.len
      <4>1. \A r \in R : r = e /\ m.len # q.len
        OBVIOUS
      <4>2. m.len # q.len => m.len < q.len
        BY ONLY <1>10
      <4> HIDE DEF R, N
      <4> QED BY <4>1, <4>2
    <3>1. /\ e.id = x.msg_id["from"] /\ e.off = q.off + m.len /\ e.len = q.len - m.len
          /\ x'.msg_id["from"] = x.msg_id["from"] + 1
          /\ \A a \in N : a.op = "read" /\ a.off = e.off /\ a.len = e.len
      BY <1>3, <1>6, <1>10
    <3>2. e.off + e.len <= x'.offset
      <4>1. x'.offset = x.offset /\ q.off + q.len <= x.offset
        BY <1>5, <1>7
      <4>2. e.off + e.len = q.off + q.len
        BY ONLY <1>3, <1>6, <3>1
      <4> QED BY ONLY <4>1, <4>2
    <3>3. x.msg_id["from"] <= x.msg_id["from"] /\ x.msg_id["from"] < x.msg_id["from"] + 1
      BY <1>1
    <3> QED BY ONLY <3>1, <3>2, <3>3
  <2>6. job' = job
    OBVIOUS
  <2> HIDE DEF R, N
  <2>7. Grown(N, R)
    BY <1>14, <2>1, <2>2, <2>3, <2>4, <2>5 DEF Grown
  <2> QED BY ONLY TypeInv, MatchInv, <1>13, <2>6, <2>7, MatchGrows
<1>17. ASSUME NEW b \in Nat, In(q, b), q.off + m.len < b PROVE \E r \in Wanted' : In(r, b)
  <2>1. q.off < b /\ b <= q.off + q.len /\ m.len < q.len
    <3>1. q.off < b /\ b <= q.off + q.len
      BY <1>17 DEF In
    <3> QED BY ONLY <3>1, <1>3, <1>6, <1>17, b \in Nat
  <2>2. e \in Wanted' /\ e.off = q.off + m.len /\ e.len = q.len - m.len
    BY <1>3, <1>6, <1>10, <2>1
  <2>3. In(e, b)
    <3>1. e.off < b /\ b <= e.off + e.len
      BY ONLY <1>3, <1>6, <1>17, <2>1, <2>2, b \in Nat
    <3> QED BY <3>1 DEF In
  <2> QED BY <2>2, <2>3
<1> QED BY <1>3, <1>4, <1>5, <1>7, <1>8, <1>13, <1>16, <1>17

\* A reply is for nobody or unusable, or it is for one of the requests.
LEMMA ReadCases ==
    ASSUME TypeInv, ReadReply
    PROVE  /\ x.pc = "wait" /\ UNCHANGED <<job, interrupted>>
           /\ \E i \in 1..Len(srv["from"].out) : \E m : m = srv["from"].out[i] /\
                \/ UnexpectedReply(i, m, request_find(m.id))
                \/ \E k \in 1..Len(x.requests) : /\ x.requests[k].id = m.id
                                                 /\ StatusReply(i, m, k) \/ DownloadReply(i, m, k) \/ CrossloadReply(i, m, k)
<1>1. x.pc = "wait" /\ UNCHANGED <<job, interrupted>>
  BY DEF ReadReply
<1>2. PICK i \in Replies("from") :
        LET m == srv["from"].out[i]
            at == request_find(m.id)
        IN  \/ UnexpectedReply(i, m, at)
            \/ \E k \in at : StatusReply(i, m, k) \/ DownloadReply(i, m, k) \/ CrossloadReply(i, m, k)
  BY Zenon DEF ReadReply
<1>3. srv["from"].out \in Seq(RepRec) /\ x.requests \in Seq(Block)
  BY DEF TypeInv, Server, Servers, Locals
<1>4. i \in 1..Len(srv["from"].out)
  <2>1. Len(srv["from"].out) \in Nat /\ (Len(srv["from"].out) = 0 <=> srv["from"].out = <<>>)
        /\ DOMAIN srv["from"].out = 1..Len(srv["from"].out)
    BY <1>3, ElType
  <2> QED BY <2>1 DEF Replies
<1>5. \A id : \A k \in request_find(id) : k \in 1..Len(x.requests) /\ x.requests[k].id = id
  BY <1>3 DEF request_find
<1> DEFINE m == srv["from"].out[i]
<1>6. \/ UnexpectedReply(i, m, request_find(m.id))
      \/ \E k \in request_find(m.id) : StatusReply(i, m, k) \/ DownloadReply(i, m, k) \/ CrossloadReply(i, m, k)
  BY <1>2
<1>7. m = srv["from"].out[i]
  OBVIOUS
<1> HIDE DEF m
<1> QED BY <1>1, <1>4, <1>5, <1>6, <1>7

\* The server once the reply at i is taken.
LEMMA FromTake ==
    ASSUME TypeInv, NEW i \in 1..Len(srv["from"].out), TakeReply("from", i)
    PROVE  /\ srv' \in [Servers -> Server] /\ srv'["to"] = srv["to"]
           /\ Asked("from")' = Asked("from") /\ Told("from")' \subseteq Told("from")
           /\ srv["from"].out[i] \in Told("from") /\ srv["from"].out[i] \in RepRec
<1>0. "from" \in Servers /\ "to" \in Servers /\ "from" # "to"
  BY DEF Servers
<1> DEFINE f == srv["from"]
           g == [f EXCEPT !.out = RemoveAt(@, i)]
<1>1. f \in Server /\ f.out \in Seq(RepRec)
  BY <1>0 DEF TypeInv, Server
<1>2. RemoveAt(f.out, i) \in Seq(RepRec)
  BY <1>1, ElRemoveAt
<1>3. /\ g \in Server /\ g.in = f.in /\ g.iqueue = f.iqueue /\ g.out = RemoveAt(f.out, i) /\ g.oqueue = f.oqueue
  BY <1>1, <1>2 DEF Server
<1>4. srv' = [srv EXCEPT !["from"] = g]
  BY <1>0 DEF TypeInv, TakeReply
<1> HIDE DEF g
<1>5. srv' \in [Servers -> Server] /\ srv'["from"] = g /\ srv'["to"] = srv["to"]
  BY <1>0, <1>3, <1>4 DEF TypeInv
<1>6. /\ srv["from"].out[i] \in Told("from") /\ srv["from"].out[i] \in RepRec /\ Told("from")' \subseteq Told("from")
  BY <1>0, <1>3, <1>5, TakeEffect
<1>7. Asked("from")' = Asked("from")
  BY <1>3, <1>5 DEF Asked, Work
<1> QED BY <1>5, <1>6, <1>7

LEMMA UnexpectedEffect ==
    ASSUME TypeInv, NEW i \in 1..Len(srv["from"].out), NEW m, NEW at, UnexpectedReply(i, m, at),
           UNCHANGED <<job, interrupted>>
    PROVE  TypeInv' /\ Broken'
<1>1. TakeReply("from", i) /\ UNCHANGED <<file, faults, failed>>
  BY DEF UnexpectedReply
<1>2. srv' \in [Servers -> Server]
  BY <1>1, FromTake
<1>3. PICK p \in {"fatal", "zerolen"} : x' = [x EXCEPT !.pc = p]
  BY DEF UnexpectedReply
<1>4. p \in PC /\ x \in Locals
  BY DEF PC, TypeInv
<1>5. x' \in Locals
  BY <1>3, <1>4, Zenon DEF Locals
<1>6. x'.pc = p
  BY <1>3, <1>4 DEF Locals
<1>7. TypeInv'
  BY <1>1, <1>2, <1>5 DEF TypeInv
<1> QED BY <1>6, <1>7 DEF Broken

\* The end of the file, or an error, ends the loop.
LEMMA StatusEffect ==
    ASSUME TypeInv, MatchInv, NEW i \in 1..Len(srv["from"].out), NEW k \in 1..Len(x.requests), NEW m,
           m = srv["from"].out[i], NEW q, q = x.requests[k], q.id = m.id, StatusReply(i, m, k),
           UNCHANGED <<job, interrupted>>
    PROVE  /\ TypeInv' /\ MatchInv' /\ UNCHANGED <<file, failed>> /\ srv'["to"] = srv["to"]
           /\ x'.pc = "loop" /\ x'.max_req = 0 /\ (x.read_error => x'.read_error)
           /\ ~x'.read_error => q.off >= job.size /\ x.offset >= job.size
           /\ x'.offset = x.offset /\ x'.write_error = x.write_error /\ x'.maxack = x.maxack
           /\ x'.highwater = x.highwater /\ x'.reordered = x.reordered /\ x'.status = x.status
           /\ x'.num_upload = x.num_upload /\ x'.to_open = x.to_open
           /\ Wanted' \subseteq Wanted /\ Wanted \subseteq Wanted' \cup {q} /\ q \in Block
<1>0. "from" \in Servers
  BY DEF Servers
<1>1. /\ TakeReply("from", i) /\ UNCHANGED <<file, failed>> /\ m.type \in {"EOF", "FAILURE"}
      /\ x' = [x EXCEPT !.pc = "loop", !.max_req = 0, !.requests = RemoveAt(@, k),
                        !.read_error = @ \/ m.type # "EOF"]
  BY DEF StatusReply
<1>2. /\ srv' \in [Servers -> Server] /\ srv'["to"] = srv["to"]
      /\ Asked("from")' = Asked("from") /\ Told("from")' \subseteq Told("from") /\ m \in Told("from")
  BY <1>1, FromTake
<1>3. x.requests \in Seq(Block) /\ x.read_error \in BOOLEAN /\ x \in Locals /\ x.offset \in Nat /\ job.size \in Nat
      /\ x.msg_id["from"] \in Nat
  BY LocalTypes DEF TypeInv
<1> DEFINE u == RemoveAt(x.requests, k)
           err == x.read_error \/ m.type # "EOF"
<1>4. u \in Seq(Block) /\ El(u) \subseteq El(x.requests) /\ El(x.requests) \subseteq El(u) \cup {q}
  BY <1>3, ElRemoveAt
<1>5. err \in BOOLEAN /\ "loop" \in PC /\ 0 \in Nat
  BY DEF PC
<1>6. x' = [x EXCEPT !.pc = "loop", !.max_req = 0, !.requests = u, !.read_error = err]
  BY <1>1, <1>3 DEF Locals
<1>7. q \in Wanted /\ q \in Block
  BY <1>3, ElType DEF Wanted
<1> HIDE DEF u, err
<1>8. x' \in Locals
  BY <1>3, <1>4, <1>5, <1>6, Zenon DEF Locals
<1>9. /\ x'.pc = "loop" /\ x'.max_req = 0 /\ x'.requests = u /\ x'.read_error = err
      /\ x'.offset = x.offset /\ x'.write_error = x.write_error /\ x'.maxack = x.maxack
      /\ x'.highwater = x.highwater /\ x'.reordered = x.reordered /\ x'.status = x.status
      /\ x'.num_upload = x.num_upload /\ x'.to_open = x.to_open /\ x'.msg_id = x.msg_id
  BY <1>3, <1>6 DEF Locals
<1>10. Wanted' \subseteq Wanted /\ Wanted \subseteq Wanted' \cup {q}
  BY <1>4, <1>9 DEF Wanted
<1>11. TypeInv'
  BY <1>1, <1>2, <1>8 DEF TypeInv
<1>12. MatchInv'
  <2>1. Grown({}, {})
    BY <1>2, <1>3, <1>9, <1>10 DEF Grown
  <2>2. job' = job
    OBVIOUS
  <2> DEFINE N == {}
  <2>3. Grown(N, N)
    BY <2>1
  <2> HIDE DEF N
  <2> QED BY ONLY TypeInv, MatchInv, <1>11, <2>2, <2>3, MatchGrows
<1>13. ASSUME ~x'.read_error PROVE q.off >= job.size /\ x.offset >= job.size
  <2>1. m.type = "EOF"
    BY <1>9, <1>13 DEF err
  <2>2. q.off >= job.size /\ q.off + q.len <= x.offset
    BY <1>2, <1>7, <2>1 DEF MatchInv
  <2>3. q.off \in Nat /\ q.len \in Nat
    BY <1>7 DEF Block
  <2> QED BY ONLY <1>3, <2>2, <2>3
<1>14. x.read_error => x'.read_error
  BY <1>9 DEF err
<1> QED BY <1>1, <1>2, <1>7, <1>9, <1>10, <1>11, <1>12, <1>13, <1>14

----------------------------------------------------------------------------
(* Calls.                                                                  *)

LEMMA MsgFacts ==
    ASSUME NEW op \in Op
    PROVE  LET m == Msg(op, 0)
           IN  m \in ReqRec /\ m.op = op /\ ~m.trunc /\ ~m.append /\ m.off = 0 /\ m.len = 0
BY DEF Msg, ReqRec, Op

\* Everything but the pc and the status is as before.
Likewise(y) ==
    /\ y \in Locals /\ y.requests = x.requests /\ y.offset = x.offset
    /\ y.msg_id = x.msg_id /\ y.max_req = x.max_req /\ y.read_error = x.read_error
    /\ y.write_error = x.write_error /\ y.maxack = x.maxack /\ y.highwater = x.highwater
    /\ y.reordered = x.reordered /\ y.num_upload = x.num_upload /\ y.to_open = x.to_open
    /\ y.uncut = x.uncut
Goes(p, st) == [x EXCEPT !.pc = p, !.status = st]
GoesTo(p) == [x EXCEPT !.pc = p]

LEMMA GoesFacts ==
    ASSUME TypeInv, NEW p \in PC, NEW st \in Status
    PROVE  Likewise(Goes(p, st)) /\ Goes(p, st).pc = p /\ Goes(p, st).status = st
<1> DEFINE y == Goes(p, st)
<1>1. x \in Locals /\ y = [x EXCEPT !.pc = p, !.status = st]
  BY DEF TypeInv, Goes
<1> HIDE DEF y
<1>2. y \in Locals
  BY <1>1, Zenon DEF Locals
<1>3. Likewise(y) /\ y.pc = p /\ y.status = st
  BY <1>1, <1>2 DEF Locals, Likewise
<1> QED BY <1>3 DEF y

LEMMA PcFacts ==
    ASSUME TypeInv, NEW p \in PC
    PROVE  Likewise(GoesTo(p)) /\ GoesTo(p).pc = p /\ GoesTo(p).status = x.status
<1> DEFINE y == GoesTo(p)
<1>1. x \in Locals /\ y = [x EXCEPT !.pc = p]
  BY DEF TypeInv, GoesTo
<1> HIDE DEF y
<1>2. y \in Locals
  BY <1>1, Zenon DEF Locals
<1>3. Likewise(y) /\ y.pc = p /\ y.status = x.status
  BY <1>1, <1>2 DEF Locals, Likewise
<1> QED BY <1>3 DEF y

LEMMA FromCall ==
    ASSUME TypeInv, MatchInv, NEW op \in {"open", "close"}, NEW pc \in PC, Call("from", Msg(op, 0), pc)
    PROVE  /\ TypeInv' /\ MatchInv' /\ UNCHANGED <<job, file, interrupted, failed>>
           /\ Kept /\ x'.pc = pc /\ x'.status = x.status /\ x'.to_open = x.to_open
           /\ srv'["to"] = srv["to"] /\ Wanted' = Wanted
<1>0. "from" \in Servers /\ "to" \in Servers \ {"from"} /\ op \in Op
  BY DEF Servers, Op
<1> DEFINE msg == Msg(op, 0)
<1>1. msg \in ReqRec /\ msg.op = op /\ Call("from", msg, pc)
  BY <1>0, MsgFacts
<1> HIDE DEF msg
<1>2. /\ TypeInv' /\ UNCHANGED <<job, file, interrupted, failed>>
      /\ Kept /\ x'.pc = pc /\ x'.status = x.status /\ x'.to_open = x.to_open
      /\ \A t \in Servers \ {"from"} : srv'[t] = srv[t] /\ x'.msg_id[t] = x.msg_id[t]
      /\ x'.msg_id["from"] = x.msg_id["from"] + 1
      /\ Told("from")' = Told("from")
      /\ Called("from", msg)
  BY ONLY TypeInv, <1>0, <1>1, pc \in PC, CallEffect
<1>3. srv'["to"] = srv["to"]
  BY <1>0, <1>2
<1>4. Wanted' = Wanted /\ x'.offset = x.offset
  BY <1>2 DEF Wanted, Kept
<1>5. PICK m \in ReqRec : m.id = x.msg_id["from"] /\ m.op = op /\ Asked("from")' = Asked("from") \cup {m}
  BY <1>1, <1>2 DEF Called
<1>6. Grown({m}, {})
  <2>1. x.msg_id["from"] \in Nat /\ x.offset \in Nat
    BY LocalTypes
  <2>2. x.msg_id["from"] <= x'.msg_id["from"] /\ m.id < x'.msg_id["from"] /\ x.msg_id["from"] <= m.id /\ x.offset <= x'.offset
    BY <1>2, <1>4, <1>5, <2>1
  <2> QED BY <1>2, <1>4, <1>5, <2>2 DEF Grown
<1>7. MatchInv'
  <2> DEFINE N == {m}
             R == {}
  <2>1. Grown(N, R) /\ job' = job
    BY <1>2, <1>6
  <2> HIDE DEF N, R
  <2> QED BY ONLY TypeInv, MatchInv, <1>2, <2>1, MatchGrows
<1> QED BY <1>2, <1>3, <1>4, <1>7

LEMMA FromAnswer ==
    ASSUME TypeInv, MatchInv, NEW pc, NEW good \in Locals, NEW bad \in Locals, Answered("from", pc, good, bad),
           good.requests = x.requests, good.offset = x.offset, good.msg_id = x.msg_id,
           bad.requests = x.requests, bad.offset = x.offset, bad.msg_id = x.msg_id
    PROVE  /\ TypeInv' /\ UNCHANGED <<job, file, interrupted, failed>> /\ x.pc = pc
           /\ srv'["to"] = srv["to"]
           /\ Broken' \/ (MatchInv' /\ (x' = good \/ x' = bad))
<1>0. "from" \in Servers /\ "to" \in Servers \ {"from"}
  BY DEF Servers
<1>1. /\ TypeInv' /\ UNCHANGED <<job, file, interrupted, failed>> /\ x.pc = pc
      /\ \A t \in Servers \ {"from"} : srv'[t] = srv[t]
      /\ Asked("from")' = Asked("from") /\ Told("from")' \subseteq Told("from")
      /\ Settled("from", good, bad)
  BY ONLY TypeInv, <1>0, good \in Locals, bad \in Locals, Answered("from", pc, good, bad), AnswerEffect
<1>2. x' = [x EXCEPT !.pc = "fatal"] \/ x' = good \/ x' = bad
  BY <1>1 DEF Settled
<1>3. CASE x' = [x EXCEPT !.pc = "fatal"]
  <2>1. "fatal" \in PC
    BY DEF PC
  <2>2. x'.pc = "fatal"
    BY <1>3, <2>1, PcFacts DEF GoesTo
  <2> QED BY <1>0, <1>1, <2>2 DEF Broken
<1>4. CASE x' = good \/ x' = bad
  <2>1. x'.requests = x.requests /\ x'.offset = x.offset /\ x'.msg_id = x.msg_id
    BY <1>4
  <2>2. x.msg_id["from"] \in Nat /\ x.offset \in Nat
    BY LocalTypes
  <2>3. Grown({}, {})
    <3>1. Wanted' = Wanted /\ x.msg_id["from"] <= x'.msg_id["from"] /\ x.offset <= x'.offset
      BY <2>1, <2>2 DEF Wanted
    <3> QED BY <1>1, <3>1 DEF Grown
  <2>4. MatchInv'
    <3> DEFINE N == {}
    <3>1. Grown(N, N) /\ job' = job
      BY <1>1, <2>3
    <3> HIDE DEF N
    <3> QED BY ONLY TypeInv, MatchInv, <1>1, <3>1, MatchGrows
  <2> QED BY <1>0, <1>1, <1>4, <2>4
<1> QED BY <1>2, <1>3, <1>4

----------------------------------------------------------------------------
(* Downloads.                                                              *)

AckOf(y, off, n, a) ==
    /\ a \in Locals /\ a.pc = y.pc /\ a.status = y.status /\ a.requests = y.requests /\ a.offset = y.offset
    /\ a.msg_id = y.msg_id /\ a.max_req = y.max_req /\ a.read_error = y.read_error
    /\ a.write_error = y.write_error /\ a.num_upload = y.num_upload /\ a.to_open = y.to_open
    /\ a.id = y.id /\ a.ackid = y.ackid /\ a.startid = y.startid
    /\ a.maxack = (IF y.maxack < off + n THEN off + n ELSE y.maxack)
    /\ a.highwater = (IF ~y.reordered /\ off <= y.highwater THEN a.maxack ELSE y.highwater)
    /\ a.reordered <=> (y.reordered \/ off > y.highwater)

LEMMA AcknowledgedFacts ==
    ASSUME NEW y \in Locals, NEW off \in Nat, NEW n \in Nat
    PROVE  AckOf(y, off, n, Acknowledged(y, off, n))
<1> DEFINE top == IF y.maxack < off + n THEN off + n ELSE y.maxack
           high == IF ~y.reordered /\ off <= y.highwater THEN top ELSE y.highwater
           out == y.reordered \/ off > y.highwater
           a == Acknowledged(y, off, n)
<1>1. y.maxack \in Nat /\ y.highwater \in Nat /\ y.reordered \in BOOLEAN
  BY DEF Locals
<1>2. top \in Nat /\ high \in Nat
  BY <1>1
<1>3. a = [y EXCEPT !.maxack = top, !.highwater = high, !.reordered = out]
  BY DEF Acknowledged, Locals
<1>4. out \in BOOLEAN
  BY <1>1
<1> HIDE DEF top, high, out, a
<1>5. a \in Locals
  BY <1>2, <1>3, <1>4, Zenon DEF Locals
<1>6. /\ a.pc = y.pc /\ a.status = y.status /\ a.requests = y.requests /\ a.offset = y.offset
      /\ a.msg_id = y.msg_id /\ a.max_req = y.max_req /\ a.read_error = y.read_error
      /\ a.write_error = y.write_error /\ a.num_upload = y.num_upload /\ a.to_open = y.to_open
      /\ a.id = y.id /\ a.ackid = y.ackid /\ a.startid = y.startid
      /\ a.maxack = top /\ a.highwater = high /\ a.reordered = out
  BY <1>3 DEF Locals
<1>7. AckOf(y, off, n, a)
  BY <1>5, <1>6 DEF AckOf, top, high, out
<1> QED BY <1>7 DEF a

LEMMA NextTurnFacts ==
    ASSUME NEW y \in Locals, NEW m, NEW z, z = NextTurn(y, m)
    PROVE  /\ z \in Locals /\ z.pc = "loop" /\ z.status = y.status /\ z.requests = y.requests /\ z.offset = y.offset
           /\ z.msg_id = y.msg_id /\ z.read_error = y.read_error
           /\ z.write_error = y.write_error /\ z.num_upload = y.num_upload /\ z.to_open = y.to_open
           /\ z.maxack = y.maxack /\ z.highwater = y.highwater /\ z.reordered = y.reordered
           /\ z.max_req = 0 <=> y.max_req = 0
<1> DEFINE max == IF y.max_req = 0 THEN 0
                  ELSE IF job.size > 0 /\ y.offset > job.size THEN 1
                  ELSE IF y.max_req < NumRequests THEN y.max_req + 1 ELSE y.max_req
           zero == y.seen_zerolen \/ m.len = 0
           w == Widened(y)
<1>1. y.max_req \in Nat /\ y.seen_zerolen \in BOOLEAN
  BY DEF Locals
<1>2. max \in Nat /\ (max = 0 <=> y.max_req = 0) /\ zero \in BOOLEAN /\ "loop" \in PC
  BY <1>1 DEF PC
<1>3. w = [y EXCEPT !.max_req = max]
  BY DEF Widened, Locals
<1> HIDE DEF w, max
<1>4. z = [w EXCEPT !.pc = "loop", !.seen_zerolen = @ \/ m.len = 0]
  BY DEF NextTurn, w
<1>5. w \in Locals
  BY <1>2, <1>3, Zenon DEF Locals
<1>6. w.seen_zerolen = y.seen_zerolen
  BY <1>3 DEF Locals
<1>7. z = [w EXCEPT !.pc = "loop", !.seen_zerolen = zero]
  BY <1>4, <1>5, <1>6 DEF Locals
<1> HIDE DEF zero
<1>8. z \in Locals
  BY <1>2, <1>5, <1>7, Zenon DEF Locals
<1>9. /\ w.status = y.status /\ w.requests = y.requests /\ w.offset = y.offset
      /\ w.msg_id = y.msg_id /\ w.read_error = y.read_error /\ w.max_req = max
      /\ w.write_error = y.write_error /\ w.num_upload = y.num_upload /\ w.to_open = y.to_open
      /\ w.maxack = y.maxack /\ w.highwater = y.highwater /\ w.reordered = y.reordered
  BY <1>3 DEF Locals
<1>10. /\ z.pc = "loop" /\ z.status = w.status /\ z.requests = w.requests /\ z.offset = w.offset
       /\ z.msg_id = w.msg_id /\ z.read_error = w.read_error /\ z.max_req = w.max_req
       /\ z.write_error = w.write_error /\ z.num_upload = w.num_upload /\ z.to_open = w.to_open
       /\ z.maxack = w.maxack /\ z.highwater = w.highwater /\ z.reordered = w.reordered
  BY <1>5, <1>7 DEF Locals
<1> QED BY <1>2, <1>8, <1>9, <1>10

\* The effect of a download's reply on the variables, apart from the requests.
Stored(q, n, kept) ==
    /\ kept \in 0..n /\ file' = Written(file, q.off, q.off, kept)
    /\ failed' = IF kept < n THEN failed + 1 ELSE failed
    /\ x'.read_error = x.read_error /\ x'.to_open = x.to_open
    /\ \/ /\ kept < n /\ ~x.write_error /\ x'.write_error /\ x'.max_req = 0
          /\ x'.maxack = x.maxack /\ x'.highwater = x.highwater /\ x'.reordered = x.reordered
       \/ /\ kept = n \/ x.write_error
          /\ x'.write_error = x.write_error /\ (x'.max_req = 0 <=> x.max_req = 0)
          /\ x'.maxack = (IF x.maxack < q.off + n THEN q.off + n ELSE x.maxack)
          /\ x'.highwater = (IF ~x.reordered /\ q.off <= x.highwater THEN x'.maxack ELSE x.highwater)
          /\ x'.reordered <=> (x.reordered \/ q.off > x.highwater)

LEMMA StoreEffect ==
    ASSUME TypeInv, MatchInv, NEW i \in 1..Len(srv["from"].out), NEW k \in 1..Len(x.requests), NEW m,
           m = srv["from"].out[i], NEW q, q = x.requests[k], q.id = m.id, DownloadReply(i, m, k),
           UNCHANGED <<job, interrupted>>
    PROVE  /\ TypeInv' /\ MatchInv' /\ srv'["to"] = srv["to"] /\ x'.pc = "loop"
           /\ x'.offset = x.offset
           /\ q \in Wanted /\ q \in Block /\ m.len \in Nat /\ m.len <= q.len
           /\ q.off + m.len <= job.size /\ q.off + q.len <= x.offset
           /\ Wanted \subseteq Wanted' \cup {q}
           /\ \A b \in Nat : In(q, b) /\ q.off + m.len < b => \E r \in Wanted' : In(r, b)
           /\ \E kept : Stored(q, m.len, kept)
<1> DEFINE n == m.len
           rest == Remaining(x, k, n)
<1>0. "from" \in Servers /\ "to" \in Servers /\ "from" # "to"
  BY DEF Servers
<1>1. Usable(m, k) /\ srv' = AskedAgain(i, k, rest)
  BY DEF DownloadReply
<1>2. PICK kept \in 0..n :
         /\ WriteLocal(q, n, kept)
         /\ x' = NextTurn(IF kept < n /\ ~x.write_error
                          THEN [rest EXCEPT !.write_error = TRUE, !.max_req = 0]
                          ELSE Acknowledged(rest, q.off, n), m)
  BY Zenon DEF DownloadReply
<1>3. m \in RepRec /\ n \in Nat /\ n <= q.len
  <2>1. srv["from"].out \in Seq(RepRec)
    BY <1>0 DEF TypeInv, Server
  <2>2. m \in RepRec
    BY <2>1
  <2> QED BY <1>1, <2>2 DEF Usable, RepRec
<1>4. n \in Nat /\ n <= x.requests[k].len /\ rest = Remaining(x, k, n)
  BY <1>3
<1> HIDE DEF rest
<1>5. /\ rest \in Locals /\ q \in Block
      /\ rest.offset = x.offset /\ rest.max_req = x.max_req /\ rest.read_error = x.read_error
      /\ rest.write_error = x.write_error /\ rest.maxack = x.maxack /\ rest.highwater = x.highwater
      /\ rest.reordered = x.reordered /\ rest.to_open = x.to_open
  <2> HIDE DEF n
  <2>1. RestOf(k, x.requests[k], n, Remaining(x, k, n))
    BY ONLY TypeInv, k \in 1..Len(x.requests), <1>4, RemainingFacts
  <2>2. RestOf(k, q, n, rest)
    BY ONLY <1>4, <2>1, q = x.requests[k]
  <2> QED BY ONLY <2>2 DEF RestOf
<1>6. q.off \in Nat /\ q.len \in Nat
  BY <1>5 DEF Block
<1> DEFINE fail == [rest EXCEPT !.write_error = TRUE, !.max_req = 0]
           ack == Acknowledged(rest, q.off, n)
           y == IF kept < n /\ ~x.write_error THEN fail ELSE ack
<1>7. fail \in Locals
  <2>1. TRUE \in BOOLEAN /\ 0 \in Nat
    OBVIOUS
  <2> QED BY <1>5, <2>1, Zenon DEF Locals
<1>8. /\ fail.requests = rest.requests /\ fail.offset = rest.offset /\ fail.msg_id = rest.msg_id
      /\ fail.read_error = rest.read_error /\ fail.write_error = TRUE /\ fail.max_req = 0
      /\ fail.maxack = rest.maxack /\ fail.highwater = rest.highwater /\ fail.reordered = rest.reordered
      /\ fail.to_open = rest.to_open
  BY <1>5 DEF Locals
<1>9. ack = Acknowledged(rest, q.off, n)
  OBVIOUS
<1>10. x' = NextTurn(y, m)
  BY <1>2
<1> HIDE DEF fail, ack, n
<1>11. /\ ack \in Locals
       /\ ack.requests = rest.requests /\ ack.offset = rest.offset /\ ack.msg_id = rest.msg_id
       /\ ack.read_error = rest.read_error /\ ack.write_error = rest.write_error /\ ack.max_req = rest.max_req
       /\ ack.to_open = rest.to_open
       /\ ack.maxack = (IF rest.maxack < q.off + n THEN q.off + n ELSE rest.maxack)
       /\ ack.highwater = (IF ~rest.reordered /\ q.off <= rest.highwater THEN ack.maxack ELSE rest.highwater)
       /\ ack.reordered <=> (rest.reordered \/ q.off > rest.highwater)
  <2>1. AckOf(rest, q.off, n, Acknowledged(rest, q.off, n))
    BY ONLY <1>4, <1>5, <1>6, AcknowledgedFacts
  <2>2. AckOf(rest, q.off, n, ack)
    BY ONLY <1>9, <2>1
  <2> QED BY ONLY <2>2 DEF AckOf
<1>12. y \in Locals /\ y.requests = rest.requests /\ y.offset = rest.offset /\ y.msg_id = rest.msg_id
       /\ y.read_error = rest.read_error /\ y.to_open = rest.to_open
  BY <1>7, <1>8, <1>11
<1>13. \/ kept < n /\ ~x.write_error /\ y = fail
       \/ ~(kept < n /\ ~x.write_error) /\ y = ack
  OBVIOUS
<1> HIDE DEF y
<1>14. /\ x' \in Locals /\ x'.pc = "loop" /\ x'.requests = y.requests /\ x'.offset = y.offset
       /\ x'.msg_id = y.msg_id /\ x'.read_error = y.read_error
       /\ x'.write_error = y.write_error /\ x'.to_open = y.to_open
       /\ x'.maxack = y.maxack /\ x'.highwater = y.highwater /\ x'.reordered = y.reordered
       /\ x'.max_req = 0 <=> y.max_req = 0
  BY ONLY <1>10, <1>12, NextTurnFacts
<1>15. /\ x'.requests = rest.requests /\ x'.offset = rest.offset /\ x'.msg_id["from"] = rest.msg_id["from"]
  BY <1>12, <1>14
<1>16. srv'["to"] = srv["to"] /\ srv'["to"] \in Server /\ srv' = [s \in Servers |-> srv'[s]]
  <2>1. \E f : srv' = [srv EXCEPT !["from"] = f]
    <3> DEFINE again == IF Len(rest.requests) < Len(x.requests) THEN <<>>
                        ELSE <<[Msg("read", rest.requests[k].id) EXCEPT !.off = rest.requests[k].off, !.len = rest.requests[k].len]>>
               f == [srv["from"] EXCEPT !.out = RemoveAt(@, i), !.in = @ \o again]
    <3>1. srv' = [srv EXCEPT !["from"].out = RemoveAt(@, i), !["from"].in = @ \o again]
      BY <1>1 DEF AskedAgain
    <3> HIDE DEF again
    <3>2. srv' = [srv EXCEPT !["from"] = f]
      BY <1>0, <3>1 DEF TypeInv, Server
    <3> QED BY <3>2
  <2> QED BY <1>0, <2>1 DEF TypeInv
<1>17. /\ file' = Written(file, q.off, q.off, kept) /\ failed' = IF kept < n THEN failed + 1 ELSE failed
  BY <1>2 DEF WriteLocal
<1>18. file' \in Seq(Int) /\ failed' \in Nat
  <2>1. file \in Seq(Int) /\ failed \in Nat /\ kept \in Nat
    BY <1>4 DEF TypeInv
  <2> QED BY <1>6, <1>17, <2>1, WrittenFacts
<1>19. /\ TypeInv' /\ MatchInv' /\ q \in Wanted
       /\ q.off + m.len <= job.size /\ q.off + q.len <= x.offset
       /\ Wanted \subseteq Wanted' \cup {q}
       /\ \A b \in Nat : In(q, b) /\ q.off + m.len < b => \E r \in Wanted' : In(r, b)
  <2>1. rest = Remaining(x, k, m.len) /\ srv'["from"] = AskedAgain(i, k, rest)["from"]
    BY <1>1, <1>4 DEF n
  <2>2. UNCHANGED job /\ interrupted' \in BOOLEAN
    BY DEF TypeInv
  <2>3. DataTaken(i, k, m, q, rest)
    BY <1>1, <1>14, <1>15, <1>16, <1>18, <2>1, <2>2 DEF DataTaken
  <2> QED BY ONLY TypeInv, MatchInv, <2>3, DataEffect
<1>20. Stored(q, n, kept)
  <2>1. kept \in 0..n /\ (kept = n \/ kept < n)
    BY <1>4
  <2>2. CASE kept < n /\ ~x.write_error /\ y = fail
    <3>1. /\ x'.write_error = TRUE /\ x'.max_req = 0 /\ x'.maxack = x.maxack /\ x'.highwater = x.highwater
          /\ x'.reordered = x.reordered
      BY <1>5, <1>8, <1>14, <2>2
    <3> QED BY <1>5, <1>12, <1>14, <1>17, <2>1, <2>2, <3>1 DEF Stored
  <2>3. CASE ~(kept < n /\ ~x.write_error) /\ y = ack
    <3>1. /\ x'.write_error = x.write_error /\ (x'.max_req = 0 <=> x.max_req = 0)
          /\ x'.maxack = (IF x.maxack < q.off + n THEN q.off + n ELSE x.maxack)
          /\ x'.highwater = (IF ~x.reordered /\ q.off <= x.highwater THEN x'.maxack ELSE x.highwater)
          /\ x'.reordered <=> (x.reordered \/ q.off > x.highwater)
      BY <1>5, <1>11, <1>14, <2>3
    <3> QED BY <1>5, <1>12, <1>14, <1>17, <2>1, <2>3, <3>1 DEF Stored
  <2> QED BY <1>13, <2>2, <2>3
<1> QED BY <1>3, <1>5, <1>14, <1>15, <1>16, <1>19, <1>20 DEF n

LEMMA DownStored ==
    ASSUME TypeInv, TypeInv', DownLoop, UNCHANGED <<job, interrupted>>, x'.offset = x.offset,
           NEW q \in Block, NEW n \in Nat, n <= q.len, q.off + n <= job.size,
           Wanted \subseteq Wanted' \cup {q},
           \A b \in Nat : In(q, b) /\ q.off + n < b => \E r \in Wanted' : In(r, b),
           NEW kept, Stored(q, n, kept)
    PROVE  DownLoop'
<1>1. /\ x.offset \in Nat /\ x.max_req \in Nat /\ x.maxack \in Nat /\ x.highwater \in Nat
      /\ x.read_error \in BOOLEAN /\ x.write_error \in BOOLEAN /\ x.reordered \in BOOLEAN /\ x.to_open \in BOOLEAN
      /\ job.size \in Nat /\ file \in Seq(Int) /\ Len(file) \in Nat /\ failed \in Nat
  BY LocalTypes
<1>2. q.off \in Nat /\ q.len \in Nat
  BY DEF Block
<1>3. /\ kept \in 0..n /\ kept \in Nat /\ kept <= n /\ file' = Written(file, q.off, q.off, kept)
      /\ failed' = IF kept < n THEN failed + 1 ELSE failed
      /\ x'.read_error = x.read_error /\ x'.to_open = x.to_open
  BY DEF Stored
<1>4. \/ /\ kept < n /\ ~x.write_error /\ x'.write_error /\ x'.max_req = 0
         /\ x'.maxack = x.maxack /\ x'.highwater = x.highwater /\ x'.reordered = x.reordered
      \/ /\ kept = n \/ x.write_error
         /\ x'.write_error = x.write_error /\ (x'.max_req = 0 <=> x.max_req = 0)
         /\ x'.maxack = (IF x.maxack < q.off + n THEN q.off + n ELSE x.maxack)
         /\ x'.highwater = (IF ~x.reordered /\ q.off <= x.highwater THEN x'.maxack ELSE x.highwater)
         /\ x'.reordered <=> (x.reordered \/ q.off > x.highwater)
  BY DEF Stored
<1>5. /\ Len(file') = (IF kept > 0 /\ q.off + kept > Len(file) THEN q.off + kept ELSE Len(file))
      /\ \A b : Good(file, b) \/ (b \in Nat /\ q.off < b /\ b <= q.off + kept) => Good(file', b)
  BY <1>1, <1>2, <1>3, WrittenFacts
<1>6. /\ (x.write_error <=> failed > 0) /\ x.maxack <= job.size /\ x.highwater <= x.maxack
      /\ (~job.inplace => Len(file) <= job.size) /\ (failed <= 1 => \A b \in 1..x.highwater : Good(file, b))
      /\ (~x.reordered => x.maxack = x.highwater) /\ ~x.to_open
  BY DEF DownLoop
<1>7. EndInv'
  BY <1>3, <1>4 DEF DownLoop, EndInv
<1>8. x'.write_error <=> failed' > 0
  BY <1>1, <1>3, <1>4, <1>6
<1>9. ASSUME ~x'.read_error, ~x'.write_error, NEW b \in 1..job.size, b <= x'.offset
      PROVE  (Good(file', b) /\ b <= x'.maxack) \/ \E r \in Wanted' : In(r, b)
  <2>1. /\ ~x.read_error /\ ~x.write_error /\ kept = n
        /\ x'.maxack = (IF x.maxack < q.off + n THEN q.off + n ELSE x.maxack)
    BY <1>3, <1>4, <1>9
  <2>2. (Good(file, b) /\ b <= x.maxack) \/ \E r \in Wanted : In(r, b)
    BY <1>9, <2>1 DEF DownLoop
  <2>3. CASE Good(file, b) /\ b <= x.maxack
    <3>1. b <= x'.maxack
      BY ONLY <1>1, <1>2, <2>1, <2>3, n \in Nat, b \in 1..job.size
    <3> QED BY <1>5, <2>3, <3>1
  <2>4. CASE \E r \in Wanted : In(r, b)
    <3>1. PICK r \in Wanted : In(r, b)
      BY <2>4
    <3>2. CASE r \in Wanted'
      BY <3>1, <3>2
    <3>3. CASE r = q
      <4>1. In(q, b) /\ b \in Nat
        BY <3>1, <3>3
      <4>2. CASE q.off + n < b
        BY <4>1, <4>2
      <4>3. CASE ~(q.off + n < b)
        <5>1. q.off < b
          BY <4>1 DEF In
        <5>2. b <= q.off + kept /\ b <= x'.maxack
          BY ONLY <1>1, <1>2, <2>1, <4>1, <4>3, n \in Nat
        <5> QED BY <1>5, <4>1, <5>1, <5>2
      <4> QED BY <4>2, <4>3
    <3> QED BY <3>1, <3>2, <3>3
  <2> QED BY <2>2, <2>3, <2>4
<1>10. x'.maxack <= job.size /\ x'.highwater <= x'.maxack
  BY <1>1, <1>2, <1>4, <1>6
<1>11. ~job.inplace => Len(file') <= job.size
  BY <1>1, <1>2, <1>3, <1>5, <1>6
<1>12. ASSUME failed' <= 1, NEW b \in 1..x'.highwater PROVE Good(file', b)
  <2>1. failed <= 1 /\ (kept < n => ~x.write_error)
    BY <1>1, <1>3, <1>6, <1>12
  <2>2. CASE b <= x.highwater
    <3>1. b \in 1..x.highwater
      BY <1>1, <2>2
    <3> QED BY <1>5, <1>6, <2>1, <3>1
  <2>3. CASE ~(b <= x.highwater)
    <3>1. /\ kept = n /\ ~x.reordered /\ q.off <= x.highwater /\ x'.highwater = x'.maxack
          /\ x'.maxack = (IF x.maxack < q.off + n THEN q.off + n ELSE x.maxack)
      BY <1>1, <1>3, <1>4, <2>1, <2>3
    <3>2. x.maxack = x.highwater /\ b \in Nat
      BY <1>6, <3>1
    <3>3. q.off < b /\ b <= q.off + kept
      BY ONLY <1>1, <1>2, <2>3, <3>1, <3>2, n \in Nat, b \in 1..x'.highwater
    <3> QED BY <1>5, <3>2, <3>3
  <2> QED BY <2>2, <2>3
<1>13. ~x'.reordered => x'.maxack = x'.highwater
  BY <1>1, <1>2, <1>4, <1>6
<1>14. ~x'.to_open
  BY <1>3, <1>6
<1> QED BY <1>7, <1>8, <1>9, <1>10, <1>11, <1>12, <1>13, <1>14 DEF DownLoop

\* What a download has done when the loop is over.
LEMMA DownSettled ==
    ASSUME TypeInv, DownLoop, Over, Settle
    PROVE  /\ TypeInv' /\ UNCHANGED <<job, srv, interrupted, failed>>
           /\ x'.pc = "close_from" /\ x'.requests = <<>> /\ ~x'.to_open
           /\ x'.offset = x.offset /\ x'.msg_id = x.msg_id
           /\ \/ (x'.status = "ok" => file' = Source) /\ (failed <= 1 => Fine(file'))
              \/ x'.uncut /\ (x'.status = "ok" => job.inplace /\ IsPrefix(Source, file'))
<1> DEFINE bad == x.read_error \/ x.write_error \/ interrupted
           end == IF bad THEN x.highwater ELSE x.maxack
           st == IF bad THEN "failure" ELSE "ok"
<1>1. PICK uncut \in BOOLEAN :
         /\ uncut => bad \/ job.inplace
         /\ x' = [x EXCEPT !.pc = "close_from", !.status = st, !.uncut = uncut]
         /\ file' = IF (bad \/ job.inplace) /\ ~uncut THEN Truncated(file, end) ELSE file
  BY DEF Settle
<1>a. UNCHANGED <<job, srv, interrupted, failed>>
  BY DEF Settle
<1>2. /\ x.offset \in Nat /\ x.maxack \in Nat /\ x.highwater \in Nat /\ job \in Jobs
      /\ job.size \in Nat /\ file \in Seq(Int) /\ Len(file) \in Nat /\ failed \in Nat
  BY LocalTypes
<1>3. /\ (x.write_error <=> failed > 0) /\ x.maxack <= job.size /\ x.highwater <= x.maxack
      /\ (~job.inplace => Len(file) <= job.size) /\ (failed <= 1 => \A b \in 1..x.highwater : Good(file, b))
      /\ ~x.to_open
  BY DEF DownLoop
<1>4. x.requests = <<>> /\ Wanted = {}
  BY DEF Over, Wanted, El
<1>5. end \in Nat /\ end <= job.size
  BY <1>2, <1>3
<1>6. Truncated(file, end) \in Seq(Int) /\ Len(Truncated(file, end)) = end
      /\ \A b : Good(file, b) /\ b <= end => Good(Truncated(file, end), b)
  BY <1>2, <1>5, TruncatedFacts
<1>7. st \in Status /\ "close_from" \in PC
  BY DEF Status, PC
<1> HIDE DEF st
<1>8. /\ x' \in Locals /\ x'.pc = "close_from" /\ x'.status = st /\ x'.requests = x.requests
      /\ x'.offset = x.offset /\ x'.msg_id = x.msg_id /\ x'.to_open = x.to_open
  <2>1. x \in Locals
    BY DEF TypeInv
  <2>2. x' \in Locals
    BY <1>1, <1>7, <2>1, Zenon DEF Locals
  <2> QED BY <1>1, <2>1, <2>2 DEF Locals
<1>9. TypeInv'
  BY <1>1, <1>a, <1>2, <1>6, <1>8 DEF TypeInv
<1>b. x'.uncut = uncut
  BY <1>1 DEF TypeInv, Locals
<1>12. CASE uncut
  <2>1. file' = file
    BY <1>1, <1>12
  <2>2. ASSUME st = "ok" PROVE job.inplace /\ IsPrefix(Source, file)
    <3>1. ~bad /\ job.inplace
      BY <1>1, <1>12, <2>2 DEF st
    <3>2. x.offset >= job.size
      BY <3>1 DEF Over, DownLoop, EndInv
    <3>3. \A b \in 1..job.size : Good(file, b)
      BY <1>2, <1>4, <3>1, <3>2 DEF DownLoop
    <3>4. job.size <= Len(file)
      BY <1>2, <3>3 DEF Good
    <3>5. IsPrefix(Source, file)
      BY ONLY <1>2, <3>3, <3>4, GoodStart
    <3> QED BY <3>1, <3>5
  <2> QED BY <1>a, <1>b, <1>12, <1>3, <1>4, <1>8, <1>9, <2>1, <2>2
<1>10. CASE bad /\ ~uncut
  <2>1. file' = Truncated(file, end) /\ end = x.highwater /\ st # "ok"
    BY <1>1, <1>10 DEF st
  <2>2. ASSUME failed <= 1 PROVE Fine(file')
    <3>1. \A b \in 1..end : Good(file, b) /\ b <= end
      BY <1>2, <1>3, <1>5, <2>1, <2>2
    <3>2. \A b \in 1..end : Good(Truncated(file, end), b)
      BY <1>6, <3>1
    <3> DEFINE t == Truncated(file, end)
    <3>3. t \in Seq(Int) /\ Len(t) <= job.size /\ \A b \in 1..Len(t) : Good(t, b)
      BY <1>5, <1>6, <3>2
    <3> HIDE DEF t
    <3>4. Fine(t)
      BY ONLY <1>2, <3>3, GoodFile
    <3> QED BY <2>1, <3>4 DEF t
  <2> QED BY <1>a, <1>3, <1>4, <1>8, <1>9, <2>1, <2>2
<1>11. CASE ~bad /\ ~uncut
  <2>1. ~x.read_error /\ ~x.write_error /\ ~interrupted /\ end = x.maxack
    BY <1>11
  <2>2. x.offset >= job.size
    BY <2>1 DEF Over, DownLoop, EndInv
  <2>3. \A b \in 1..job.size : Good(file, b) /\ b <= x.maxack
    BY <1>2, <1>4, <2>1, <2>2 DEF DownLoop
  <2>4. x.maxack = job.size
    BY <1>2, <1>3, <2>3
  <2>5. job.size <= Len(file)
    BY <1>2, <2>3 DEF Good
  <2>6. file' \in Seq(Int) /\ Len(file') = job.size /\ \A b \in 1..job.size : Good(file', b)
    <3>1. CASE job.inplace
      <4>1. file' = Truncated(file, end)
        BY <1>1, <1>11, <3>1
      <4>2. \A b \in 1..job.size : Good(file, b) /\ b <= end
        BY <2>1, <2>3
      <4>3. \A b \in 1..job.size : Good(Truncated(file, end), b)
        BY <1>6, <4>2
      <4> QED BY <1>6, <2>1, <2>4, <4>1, <4>3
    <3>2. CASE ~job.inplace
      <4>1. file' = file
        BY <1>1, <1>11, <3>2
      <4> QED BY <1>2, <1>3, <2>3, <2>5, <3>2, <4>1
    <3> QED BY <3>1, <3>2
  <2> DEFINE f == file'
  <2>7. f \in Seq(Int) /\ Len(f) = job.size /\ Len(f) <= job.size /\ \A b \in 1..Len(f) : Good(f, b)
    BY <1>2, <2>6
  <2> HIDE DEF f
  <2>8. Fine(f) /\ f = Source
    BY ONLY <1>2, <2>7, GoodFile
  <2> QED BY <1>a, <1>3, <1>4, <1>8, <1>9, <2>8 DEF f
<1> QED BY <1>10, <1>11, <1>12

\* The same file is right in the next state, the transfer being the same.
LEMMA SameJob ==
    ASSUME UNCHANGED job
    PROVE  /\ Source' = Source /\ Before(job)' = Before(job) /\ (Fine(file)' <=> Fine(file')) /\ Start' = Start
           /\ Followed' <=> job.inplace /\ IsPrefix(Source, file')
<1>1. Source' = Source
  BY DEF Source
<1>2. Before(job)' = Before(job)
  BY DEF Before
<1>3. Fine(file)' <=> Fine(file')
  BY <1>1, <1>2 DEF Fine
<1>4. Start' = Start
  BY DEF Start
<1>5. Followed' <=> job.inplace /\ IsPrefix(Source, file')
  BY <1>1 DEF Followed
<1> QED BY <1>1, <1>2, <1>3, <1>4, <1>5

LEMMA IdleFacts ==
    Idle.out = <<>> /\ Idle.in = <<>> /\ Idle.oqueue = <<>> /\ Idle.iqueue = <<>> /\ [Idle EXCEPT !.out = <<>>] = Idle
<1>1. Idle.out = <<>> /\ Idle.in = <<>> /\ Idle.oqueue = <<>> /\ Idle.iqueue = <<>>
  BY DEF Idle
<1>2. [Idle EXCEPT !.out = <<>>] = Idle
  BY DEF Idle
<1> QED BY <1>1, <1>2

LEMMA DownOpened ==
    ASSUME TypeInv, MatchInv, job.kind = "download", Fresh, file = Before(job), failed = 0, OpenedFrom
    PROVE  /\ TypeInv' /\ srv'["to"] = srv["to"] /\ UNCHANGED job
           /\ Broken' \/ (MatchInv' /\ DownPhase')
<1> DEFINE good == GoesTo("local")
           bad == Goes("done", "failure")
<1>1. Answered("from", "opening_from", good, bad)
  <2>1. [x EXCEPT !.pc = IF job.kind = "crossload" THEN "open_to" ELSE "local"] = GoesTo("local")
    BY DEF GoesTo
  <2> QED BY <2>1 DEF OpenedFrom, Returns, Goes
<1>2. "local" \in PC /\ "done" \in PC /\ "failure" \in Status
  BY DEF PC, Status
<1>3. Likewise(good) /\ good.pc = "local" /\ good.status = x.status
  BY <1>2, PcFacts
<1>4. Likewise(bad) /\ bad.pc = "done" /\ bad.status = "failure"
  BY <1>2, GoesFacts
<1> HIDE DEF good, bad
<1>5. /\ TypeInv' /\ UNCHANGED <<job, file, interrupted, failed>> /\ srv'["to"] = srv["to"]
      /\ Broken' \/ (MatchInv' /\ (x' = good \/ x' = bad))
  BY <1>1, <1>3, <1>4, FromAnswer DEF Likewise
<1>6. Source' = Source /\ Before(job)' = Before(job) /\ (Fine(file)' <=> Fine(file'))
  BY <1>5, SameJob
<1>7. CASE x' = good
  <2>1. Fresh' /\ x'.pc = "local"
    BY <1>3, <1>7 DEF Fresh, Likewise
  <2>2. DownPhase'
    BY <1>5, <1>6, <2>1 DEF DownPhase
  <2> QED BY <1>5, <2>2
<1>8. CASE x' = bad
  <2>1. x'.requests = <<>> /\ ~x'.to_open /\ x'.pc = "done" /\ x'.status # "ok"
    BY <1>4, <1>8 DEF Fresh, Likewise
  <2>2. Fine(file')
    BY <1>5 DEF Fine
  <2>3. DownPhase'
    BY <1>5, <1>6, <2>1, <2>2 DEF DownPhase, DownResult
  <2> QED BY <1>5, <2>3
<1> QED BY <1>5, <1>7, <1>8

LEMMA DownClosed ==
    ASSUME TypeInv, MatchInv, x.requests = <<>>, ~x.to_open, DownResult, ClosedFrom
    PROVE  /\ TypeInv' /\ srv'["to"] = srv["to"] /\ UNCHANGED job
           /\ Broken' \/ (MatchInv' /\ DownPhase')
<1> DEFINE st == IF x.status = "ok" /\ ~interrupted THEN "ok" ELSE "failure"
           good == Goes("done", st)
           bad == Goes("done", "failure")
<1>1. Answered("from", "closing_from", good, bad)
  BY DEF ClosedFrom, Returns, Goes
<1>2. "done" \in PC /\ "failure" \in Status /\ st \in Status /\ (st = "ok" => x.status = "ok")
  BY DEF PC, Status
<1> HIDE DEF st
<1>3. Likewise(good) /\ good.pc = "done" /\ good.status = st
  BY <1>2, GoesFacts
<1>4. Likewise(bad) /\ bad.pc = "done" /\ bad.status = "failure"
  BY <1>2, GoesFacts
<1> HIDE DEF good, bad
<1>5. /\ TypeInv' /\ UNCHANGED <<job, file, interrupted, failed>> /\ srv'["to"] = srv["to"]
      /\ Broken' \/ (MatchInv' /\ (x' = good \/ x' = bad))
  BY <1>1, <1>3, <1>4, FromAnswer DEF Likewise
<1>6. Source' = Source /\ (Fine(file)' <=> Fine(file')) /\ (Followed' <=> job.inplace /\ IsPrefix(Source, file'))
  BY <1>5, SameJob
<1>7. CASE x' = good \/ x' = bad
  <2>1. /\ x'.requests = <<>> /\ ~x'.to_open /\ x'.pc = "done" /\ (x'.status = "ok" => x.status = "ok")
        /\ x'.uncut = x.uncut
    BY <1>2, <1>3, <1>4, <1>7 DEF Likewise
  <2>2. DownResult'
    BY <1>5, <1>6, <2>1 DEF DownResult, Followed
  <2>3. DownPhase'
    BY <1>6, <2>1, <2>2 DEF DownPhase
  <2> QED BY <1>5, <1>7, <2>3
<1> QED BY <1>5, <1>7

LEMMA DownLocal ==
    ASSUME TypeInv, MatchInv, Fresh, file = Before(job), failed = 0, OpenLocal
    PROVE  TypeInv' /\ srv' = srv /\ UNCHANGED job /\ MatchInv' /\ DownPhase'
<1>1. UNCHANGED <<job, srv, interrupted, failed>>
  BY DEF OpenLocal
<1>2. /\ job \in Jobs /\ job.size \in Nat /\ job.old \in Nat /\ job.resume \in BOOLEAN /\ x \in Locals
      /\ x.msg_id["from"] \in Nat
  BY LocalTypes DEF TypeInv
<1>3. Source' = Source /\ Before(job)' = Before(job) /\ (Fine(file)' <=> Fine(file'))
  BY <1>1, SameJob
<1>4. Asked("from")' = Asked("from") /\ Told("from")' = Told("from")
  BY <1>1 DEF Asked, Told, Work, Answers
<1>5. ASSUME x'.requests = x.requests, x'.offset \in Nat, x'.msg_id = x.msg_id, TypeInv' PROVE MatchInv'
  <2>1. Wanted' = Wanted /\ x.offset = 0
    BY <1>5 DEF Wanted, Fresh
  <2>2. x.msg_id["from"] <= x'.msg_id["from"] /\ x.offset <= x'.offset
    BY <1>2, <1>5, <2>1
  <2> DEFINE N == {}
  <2>3. Grown(N, N) /\ job' = job
    BY <1>1, <1>4, <2>1, <2>2 DEF Grown
  <2> HIDE DEF N
  <2> QED BY ONLY TypeInv, MatchInv, <1>5, <2>3, MatchGrows
<1> DEFINE start == IF job.resume THEN job.old ELSE 0
<1>6. CASE /\ job.resume => job.old <= job.size
           /\ file' = IF job.resume \/ job.inplace THEN file ELSE <<>>
           /\ x' = [x EXCEPT !.pc = "loop", !.offset = start, !.highwater = start, !.maxack = start]
  <2>1. start \in Nat /\ start <= job.size /\ "loop" \in PC
    BY <1>2, <1>6 DEF PC
  <2> HIDE DEF start
  <2>2. x' \in Locals
    BY <1>2, <1>6, <2>1, Zenon DEF Locals
  <2>3. /\ x'.pc = "loop" /\ x'.offset = start /\ x'.highwater = start /\ x'.maxack = start
        /\ x'.requests = x.requests /\ x'.msg_id = x.msg_id /\ x'.max_req = x.max_req
        /\ x'.read_error = x.read_error /\ x'.write_error = x.write_error /\ x'.reordered = x.reordered
        /\ x'.to_open = x.to_open
    BY <1>2, <1>6 DEF Locals
  <2>4. file' \in Seq(Int) /\ <<>> \in Seq(Int) /\ Len(<<>>) = 0
    BY <1>6 DEF TypeInv
  <2>5. TypeInv'
    BY <1>1, <2>2, <2>4 DEF TypeInv
  <2>6. MatchInv'
    BY <1>5, <2>1, <2>3, <2>5
  <2>7. /\ Before(job) \in Seq(Int) /\ Len(Before(job)) = job.old
        /\ job.resume => \A b \in 1..job.old : Good(Before(job), b)
    BY <1>2, SourceFacts
  <2>8. \A b \in 1..start : Good(file', b)
    BY <1>2, <1>6, <2>7 DEF start
  <2>9. ~job.inplace => Len(file') <= job.size
    BY <1>2, <1>6, <2>4, <2>7
  <2>10. EndInv' /\ (x'.write_error <=> failed' > 0) /\ ~x'.to_open
    <3>1. x.max_req = 1 /\ ~x.write_error /\ ~x.to_open
      BY DEF Fresh
    <3>2. x'.max_req # 0
      BY <2>3, <3>1
    <3>3. ~x'.write_error /\ ~x'.to_open
      BY <2>3, <3>1
    <3>4. ~(failed' > 0)
      BY <1>1
    <3> QED BY <3>2, <3>3, <3>4 DEF EndInv
  <2>11. \A b \in 1..job.size : b <= x'.offset => Good(file', b) /\ b <= x'.maxack
    BY <1>2, <2>1, <2>3, <2>8
  <2>12. DownLoop'
    BY <1>1, <2>1, <2>3, <2>8, <2>9, <2>10, <2>11 DEF DownLoop
  <2>13. DownPhase'
    BY <2>3, <2>12 DEF DownPhase
  <2> QED BY <1>1, <2>5, <2>6, <2>13
<1>7. CASE x' = [x EXCEPT !.pc = "close_from", !.status = "failure"] /\ UNCHANGED file
  <2>1. "close_from" \in PC /\ "failure" \in Status
    BY DEF PC, Status
  <2>2. Likewise(x') /\ x'.pc = "close_from" /\ x'.status = "failure"
    BY <1>7, <2>1, GoesFacts DEF Goes
  <2>3. TypeInv'
    BY <1>1, <1>7, <2>2 DEF TypeInv, Likewise
  <2>4. MatchInv'
    <3>1. x'.requests = x.requests /\ x'.offset = 0 /\ x'.msg_id = x.msg_id
      BY <2>2 DEF Likewise, Fresh
    <3> QED BY <1>5, <2>3, <3>1
  <2>5. Fine(file')
    BY <1>7 DEF Fine
  <2>6. x'.requests = <<>> /\ ~x'.to_open
    BY <2>2 DEF Fresh, Likewise
  <2>7. DownPhase'
    BY <1>3, <2>2, <2>5, <2>6 DEF DownPhase, DownResult
  <2> QED BY <1>1, <2>3, <2>4, <2>7
<1> QED BY <1>6, <1>7 DEF OpenLocal

LEMMA DownSent ==
    ASSUME TypeInv, MatchInv, DownLoop, srv["to"] = Idle, SendRequests
    PROVE  TypeInv' /\ MatchInv' /\ UNCHANGED job /\ srv'["to"] = Idle /\ DownPhase'
<1>1. /\ TypeInv' /\ MatchInv' /\ UNCHANGED <<job, file, interrupted, failed>>
      /\ x'.pc = "wait"
      /\ x.offset <= x'.offset /\ Wanted \subseteq Wanted'
      /\ \A b \in Nat : x.offset < b /\ b <= x'.offset => \E r \in Wanted' : In(r, b)
      /\ x'.max_req = IF interrupted THEN 0 ELSE x.max_req
      /\ x'.read_error = x.read_error /\ x'.maxack = x.maxack /\ x'.highwater = x.highwater
      /\ x'.reordered = x.reordered /\ x'.to_open = x.to_open
      /\ x'.write_error <=> (x.write_error \/ \E i \in DOMAIN srv["to"].out : srv["to"].out[i].type # "OK")
      /\ srv'["to"] = [srv["to"] EXCEPT !.out = <<>>]
  BY RequestEffect
<1>2. srv'["to"] = Idle /\ srv["to"].out = <<>>
  BY <1>1, IdleFacts
<1>3. x'.write_error <=> x.write_error
  BY <1>1, <1>2
<1>4. x.offset \in Nat /\ x'.offset \in Nat /\ job.size \in Nat
  BY <1>1, LocalTypes DEF TypeInv, Locals
<1>5. EndInv'
  <2>1. x'.max_req = 0 => interrupted \/ x.max_req = 0
    BY <1>1
  <2>2. x.max_req = 0 => x.read_error \/ x.write_error \/ interrupted \/ x.offset >= job.size
    BY DEF DownLoop, EndInv
  <2>3. x.offset >= job.size => x'.offset >= job.size
    BY <1>1, <1>4
  <2> QED BY <1>1, <1>3, <2>1, <2>2, <2>3 DEF EndInv
<1>6. ASSUME ~x'.read_error, ~x'.write_error, NEW b \in 1..job.size, b <= x'.offset
      PROVE  (Good(file, b) /\ b <= x.maxack) \/ \E r \in Wanted' : In(r, b)
  <2>1. CASE b <= x.offset
    <3>1. (Good(file, b) /\ b <= x.maxack) \/ \E r \in Wanted : In(r, b)
      BY <1>1, <1>3, <1>6, <2>1 DEF DownLoop
    <3> QED BY <1>1, <3>1
  <2>2. CASE ~(b <= x.offset)
    <3>1. b \in Nat /\ x.offset < b
      BY <1>4, <2>2
    <3> QED BY <1>1, <1>6, <3>1
  <2> QED BY <2>1, <2>2
<1>7. DownLoop'
  <2>1. /\ (x.write_error <=> failed > 0) /\ x.maxack <= job.size /\ x.highwater <= x.maxack
        /\ (~job.inplace => Len(file) <= job.size) /\ (failed <= 1 => \A b \in 1..x.highwater : Good(file, b))
        /\ (~x.reordered => x.maxack = x.highwater) /\ ~x.to_open
    BY DEF DownLoop
  <2> QED BY <1>1, <1>3, <1>5, <1>6, <2>1 DEF DownLoop
<1> QED BY <1>1, <1>2, <1>7 DEF DownPhase

LEMMA DownRead ==
    ASSUME TypeInv, MatchInv, DownLoop, job.kind = "download", srv["to"] = Idle, ReadReply
    PROVE  TypeInv' /\ UNCHANGED job /\ (Broken' \/ (MatchInv' /\ srv'["to"] = Idle /\ DownPhase'))
<1>1. /\ UNCHANGED <<job, interrupted>>
      /\ \E i \in 1..Len(srv["from"].out) : \E m : m = srv["from"].out[i] /\
           \/ UnexpectedReply(i, m, request_find(m.id))
           \/ \E k \in 1..Len(x.requests) : /\ x.requests[k].id = m.id
                                            /\ StatusReply(i, m, k) \/ DownloadReply(i, m, k) \/ CrossloadReply(i, m, k)
  BY ReadCases
<1>2. PICK i \in 1..Len(srv["from"].out) : \E m : m = srv["from"].out[i] /\
           \/ UnexpectedReply(i, m, request_find(m.id))
           \/ \E k \in 1..Len(x.requests) : /\ x.requests[k].id = m.id
                                            /\ StatusReply(i, m, k) \/ DownloadReply(i, m, k) \/ CrossloadReply(i, m, k)
  BY <1>1
<1>3. PICK m : /\ m = srv["from"].out[i]
               /\ \/ UnexpectedReply(i, m, request_find(m.id))
                  \/ \E k \in 1..Len(x.requests) : /\ x.requests[k].id = m.id
                                                   /\ StatusReply(i, m, k) \/ DownloadReply(i, m, k) \/ CrossloadReply(i, m, k)
  BY <1>2
<1>4. CASE UnexpectedReply(i, m, request_find(m.id))
  BY <1>1, <1>4, UnexpectedEffect
<1>5. ASSUME NEW k \in 1..Len(x.requests), x.requests[k].id = m.id, StatusReply(i, m, k)
      PROVE  TypeInv' /\ MatchInv' /\ srv'["to"] = Idle /\ DownPhase'
  <2> DEFINE q == x.requests[k]
  <2>1. q = x.requests[k] /\ q.id = m.id
    BY <1>5
  <2> HIDE DEF q
  <2>2. /\ TypeInv' /\ MatchInv' /\ UNCHANGED <<file, failed>> /\ srv'["to"] = srv["to"]
        /\ x'.pc = "loop" /\ x'.max_req = 0 /\ (x.read_error => x'.read_error)
        /\ ~x'.read_error => q.off >= job.size /\ x.offset >= job.size
        /\ x'.offset = x.offset /\ x'.write_error = x.write_error /\ x'.maxack = x.maxack
        /\ x'.highwater = x.highwater /\ x'.reordered = x.reordered /\ x'.to_open = x.to_open
        /\ Wanted \subseteq Wanted' \cup {q} /\ q \in Block
    BY ONLY TypeInv, MatchInv, i \in 1..Len(srv["from"].out), <1>1, <1>3, <1>5, <2>1, StatusEffect
  <2>3. EndInv'
    BY <1>1, <2>2 DEF EndInv
  <2>4. ASSUME ~x'.read_error, ~x'.write_error, NEW b \in 1..job.size, b <= x'.offset
        PROVE  (Good(file, b) /\ b <= x.maxack) \/ \E r \in Wanted' : In(r, b)
    <3>1. (Good(file, b) /\ b <= x.maxack) \/ \E r \in Wanted : In(r, b)
      BY <2>2, <2>4 DEF DownLoop
    <3>2. ~In(q, b)
      <4>1. q.off \in Nat /\ q.off >= job.size /\ job.size \in Nat
        BY <2>2, <2>4, LocalTypes DEF Block
      <4>2. ~(q.off < b)
        BY <4>1
      <4> QED BY <4>2 DEF In
    <3> QED BY <2>2, <3>1, <3>2
  <2>5. DownLoop'
    <3>1. /\ (x.write_error <=> failed > 0) /\ x.maxack <= job.size /\ x.highwater <= x.maxack
          /\ (~job.inplace => Len(file) <= job.size) /\ (failed <= 1 => \A b \in 1..x.highwater : Good(file, b))
          /\ (~x.reordered => x.maxack = x.highwater) /\ ~x.to_open
      BY DEF DownLoop
    <3> QED BY <1>1, <2>2, <2>3, <2>4, <3>1 DEF DownLoop
  <2> QED BY <2>2, <2>5 DEF DownPhase
<1>6. ASSUME NEW k \in 1..Len(x.requests), x.requests[k].id = m.id, DownloadReply(i, m, k)
      PROVE  TypeInv' /\ MatchInv' /\ srv'["to"] = Idle /\ DownPhase'
  <2> DEFINE q == x.requests[k]
  <2>1. q = x.requests[k] /\ q.id = m.id
    BY <1>6
  <2> HIDE DEF q
  <2>2. /\ TypeInv' /\ MatchInv' /\ srv'["to"] = srv["to"] /\ x'.pc = "loop"
        /\ x'.offset = x.offset
        /\ q \in Wanted /\ q \in Block /\ m.len \in Nat /\ m.len <= q.len
        /\ q.off + m.len <= job.size
        /\ Wanted \subseteq Wanted' \cup {q}
        /\ \A b \in Nat : In(q, b) /\ q.off + m.len < b => \E r \in Wanted' : In(r, b)
        /\ \E kept : Stored(q, m.len, kept)
    BY ONLY TypeInv, MatchInv, i \in 1..Len(srv["from"].out), <1>1, <1>3, <1>6, <2>1, StoreEffect
  <2>3. PICK kept : Stored(q, m.len, kept)
    BY <2>2
  <2>4. DownLoop'
    BY <1>1, <2>2, <2>3, DownStored
  <2> QED BY <2>2, <2>4 DEF DownPhase
<1>7. ASSUME NEW k \in 1..Len(x.requests), CrossloadReply(i, m, k) PROVE FALSE
  BY <1>7 DEF CrossloadReply
<1> QED BY <1>1, <1>3, <1>4, <1>5, <1>6, <1>7

\* The client of a download keeps its invariant.
LEMMA DownClient ==
    ASSUME TypeInv, job.kind = "download", DownInv, Client
    PROVE  TypeInv' /\ UNCHANGED job /\ (Broken' \/ DownInv')
<1>0. srv["to"] = Idle /\ MatchInv /\ DownPhase
  BY DEF DownInv
<1>1. CASE OpenFrom
  <2>1. Fresh /\ file = Before(job) /\ failed = 0
    BY <1>0, <1>1 DEF DownPhase, OpenFrom
  <2>2. "open" \in {"open", "close"} /\ "opening_from" \in PC
    BY DEF PC
  <2>3. /\ TypeInv' /\ MatchInv' /\ UNCHANGED <<job, file, interrupted, failed>>
        /\ Kept /\ x'.pc = "opening_from" /\ x'.status = x.status /\ x'.to_open = x.to_open
        /\ srv'["to"] = srv["to"]
    BY <1>0, <1>1, <2>2, FromCall DEF OpenFrom
  <2>4. Fresh' /\ Before(job)' = Before(job)
    BY <2>1, <2>3, SameJob DEF Fresh, Kept
  <2> QED BY <1>0, <2>1, <2>3, <2>4 DEF DownInv, DownPhase
<1>2. CASE OpenedFrom
  <2>1. Fresh /\ file = Before(job) /\ failed = 0
    BY <1>0, <1>2 DEF DownPhase, OpenedFrom, Answered
  <2> QED BY <1>0, <1>2, <2>1, DownOpened DEF DownInv
<1>3. CASE OpenLocal
  <2>1. Fresh /\ file = Before(job) /\ failed = 0
    BY <1>0, <1>3 DEF DownPhase, OpenLocal
  <2> QED BY <1>0, <1>3, <2>1, DownLocal DEF DownInv
<1>4. CASE SendRequests
  <2>1. DownLoop
    BY <1>0, <1>4 DEF DownPhase, SendRequests
  <2> QED BY <1>0, <1>4, <2>1, DownSent DEF DownInv
<1>5. CASE EndLoop
  <2>1. DownLoop /\ x.pc = "loop" /\ LoopEnds
    BY <1>0, <1>5 DEF DownPhase, EndLoop
  <2>2. x' = GoesTo("settle") /\ UNCHANGED <<job, srv, file, interrupted, failed>> /\ "settle" \in PC
    BY <1>5 DEF EndLoop, GoesTo, PC
  <2>3. Likewise(x') /\ x'.pc = "settle"
    BY <2>2, PcFacts
  <2>4. TypeInv'
    BY <2>2, <2>3 DEF TypeInv, Likewise
  <2>5. /\ Asked("from")' = Asked("from") /\ Told("from")' = Told("from") /\ Wanted' = Wanted
    BY <2>2, <2>3 DEF Asked, Told, Work, Answers, Wanted, Likewise
  <2>6. MatchInv'
    BY <1>0, <2>2, <2>3, <2>5 DEF MatchInv, Likewise
  <2>7. DownLoop' /\ Over'
    BY <2>1, <2>2, <2>3, <2>5 DEF DownLoop, EndInv, Over, LoopEnds, Likewise
  <2> QED BY <1>0, <2>2, <2>3, <2>4, <2>6, <2>7 DEF DownInv, DownPhase
<1>6. CASE ReadReply
  <2>1. DownLoop
    BY <1>0, <1>6 DEF DownPhase, ReadReply
  <2> QED BY <1>0, <1>6, <2>1, DownRead DEF DownInv
<1>7. CASE Settle
  <2>1. DownLoop /\ Over
    BY <1>0, <1>7 DEF DownPhase, Settle
  <2>2. /\ TypeInv' /\ UNCHANGED <<job, srv, interrupted, failed>>
        /\ x'.pc = "close_from" /\ x'.requests = <<>> /\ ~x'.to_open
        /\ x'.offset = x.offset /\ x'.msg_id = x.msg_id
        /\ \/ (x'.status = "ok" => file' = Source) /\ (failed <= 1 => Fine(file'))
           \/ x'.uncut /\ (x'.status = "ok" => job.inplace /\ IsPrefix(Source, file'))
    BY <1>7, <2>1, DownSettled
  <2>3. DownResult'
    BY <2>2, SameJob DEF DownResult
  <2>4. Asked("from")' = Asked("from") /\ Told("from")' = Told("from") /\ Wanted' = Wanted
    BY <2>1, <2>2 DEF Asked, Told, Work, Answers, Wanted, Over
  <2>5. MatchInv'
    BY <1>0, <2>2, <2>4 DEF MatchInv
  <2> QED BY <1>0, <2>2, <2>3, <2>5 DEF DownInv, DownPhase
<1>8. CASE CloseFrom
  <2>1. x.requests = <<>> /\ ~x.to_open /\ DownResult
    BY <1>0, <1>8 DEF DownPhase, CloseFrom
  <2>2. "close" \in {"open", "close"} /\ "closing_from" \in PC
    BY DEF PC
  <2>3. /\ TypeInv' /\ MatchInv' /\ UNCHANGED <<job, file, interrupted, failed>>
        /\ Kept /\ x'.pc = "closing_from" /\ x'.status = x.status /\ x'.to_open = x.to_open
        /\ srv'["to"] = srv["to"]
    BY <1>0, <1>8, <2>2, FromCall DEF CloseFrom
  <2>4. DownResult'
    BY <2>1, <2>3, SameJob DEF DownResult, Followed, Kept
  <2>5. x'.requests = <<>> /\ ~x'.to_open
    BY <2>1, <2>3 DEF Kept
  <2> QED BY <1>0, <2>3, <2>4, <2>5 DEF DownInv, DownPhase
<1>9. CASE ClosedFrom
  <2>1. x.requests = <<>> /\ ~x.to_open /\ DownResult
    BY <1>0, <1>9 DEF DownPhase, ClosedFrom, Answered
  <2> QED BY <1>0, <1>9, <2>1, DownClosed DEF DownInv
<1>10. x.pc \in {"open_from", "opening_from", "local", "loop", "wait", "settle", "close_from", "closing_from", "done"}
  BY <1>0 DEF DownPhase
<1>11. CASE \/ ResumeRefused \/ OpenTo \/ OpenedTo \/ Drain \/ Discard \/ Discarded \/ Reopen \/ Reopened
            \/ CloseTo \/ ClosedTo \/ UploadTurn \/ UploadAck \/ Uploaded \/ UploadTruncated \/ Finish \/ Finished
  BY <1>10, <1>11 DEF ResumeRefused, OpenTo, OpenedTo, Drain, Discard, Discarded, Reopen, Reopened, CloseTo,
       ClosedTo, UploadTurn, UploadAck, Uploaded, UploadTruncated, Finish, Finished, Answered
<1> QED BY <1>1, <1>2, <1>3, <1>4, <1>5, <1>6, <1>7, <1>8, <1>9, <1>11 DEF Client

----------------------------------------------------------------------------
(* Server "to".                                                            *)

\* It processes request q, and d is what comes of it.
Served(q, d) ==
    /\ q \in ReqRec /\ q = Head(Work("to")) /\ q \in Asked("to") /\ Processed("to", q, d) /\ d.reply \in RepRec
    /\ Work("to") # <<>> /\ Work("to")' = Tail(Work("to"))
    /\ Asked("to") = {q} \cup Asked("to")' /\ Len(Work("to")') = Len(Work("to")) - 1
    /\ Told("to")' = Told("to") \cup {d.reply} /\ Len(Answers("to")') = Len(Answers("to")) + 1
    /\ srv'["to"].append = d.append /\ file' = d.file
    /\ failed' = IF d.reply.type = "FAILURE" THEN failed + 1 ELSE failed

LEMMA ToTurn ==
    ASSUME TypeInv, ServerTurn("to")
    PROVE  /\ TypeInv' /\ UNCHANGED <<job, x, interrupted>> /\ srv'["from"] = srv["from"]
           /\ Moves("to") \/ \E q, d : Served(q, d)
<1>0. "to" \in Servers /\ "from" \in Servers \ {"to"}
  BY DEF Servers
<1>1. /\ TypeInv' /\ UNCHANGED <<job, x, interrupted>> /\ srv'["from"] = srv["from"]
      /\ Moves("to") \/ Serves("to")
  BY <1>0, TurnEffect
<1>2. CASE Serves("to")
  <2> DEFINE q == Head(Work("to"))
  <2>1. PICK d : /\ Processed("to", q, d)
                 /\ Work("to")' = Tail(Work("to")) /\ Answers("to")' = Append(Answers("to"), d.reply)
                 /\ srv'["to"].append = d.append /\ file' = d.file
                 /\ failed' = IF d.reply.type = "FAILURE" THEN failed + 1 ELSE failed
    BY <1>2 DEF Serves
  <2>2. /\ Work("to") \in Seq(ReqRec) /\ Answers("to") \in Seq(RepRec) /\ Work("to") # <<>>
    BY <1>0, <1>2, QueueTypes DEF Serves
  <2>3. /\ El(Work("to")) = {q} \cup El(Tail(Work("to"))) /\ q \in ReqRec
        /\ Len(Tail(Work("to"))) = Len(Work("to")) - 1
    BY <2>2, ElTail
  <2>4. d.reply \in RepRec
    BY <2>1 DEF Processed
  <2>5. /\ El(Append(Answers("to"), d.reply)) = El(Answers("to")) \cup {d.reply}
        /\ Len(Append(Answers("to"), d.reply)) = Len(Answers("to")) + 1
    BY <2>2, <2>4, ElAppend
  <2>6. Asked("to") = {q} \cup Asked("to")' /\ Told("to")' = Told("to") \cup {d.reply}
    <3>1. Asked("to")' = El(Tail(Work("to"))) /\ Told("to")' = El(Append(Answers("to"), d.reply))
      BY <2>1 DEF Asked, Told
    <3> QED BY <2>3, <2>5, <3>1 DEF Asked, Told
  <2>7. Len(Work("to")') = Len(Work("to")) - 1 /\ Len(Answers("to")') = Len(Answers("to")) + 1
    BY <2>1, <2>3, <2>5
  <2>8. q \in Asked("to")
    BY <2>6
  <2>9. Served(q, d)
    BY <2>1, <2>2, <2>3, <2>4, <2>6, <2>7, <2>8 DEF Served
  <2> QED BY <1>1, <2>9
<1> QED BY <1>1, <1>2

LEMMA ToCall ==
    ASSUME TypeInv, Quiet("to"), NEW msg \in ReqRec, NEW pc \in PC, Call("to", msg, pc)
    PROVE  /\ TypeInv' /\ UNCHANGED <<job, file, interrupted, failed>>
           /\ Kept /\ x'.pc = pc /\ x'.status = x.status /\ x'.to_open = x.to_open
           /\ srv'["from"] = srv["from"] /\ x'.msg_id["from"] = x.msg_id["from"]
           /\ srv'["to"].append = srv["to"].append
           /\ Calling("to")' /\ Told("to")' = {}
           /\ \A q \in Asked("to")' : /\ q.op = msg.op /\ q.trunc = msg.trunc
                                      /\ q.append = msg.append /\ q.len = msg.len
<1>0. "to" \in Servers /\ "from" \in Servers \ {"to"}
  BY DEF Servers
<1>1. /\ TypeInv' /\ UNCHANGED <<job, file, interrupted, failed>>
      /\ Kept /\ x'.pc = pc /\ x'.status = x.status /\ x'.to_open = x.to_open
      /\ \A t \in Servers \ {"to"} : srv'[t] = srv[t] /\ x'.msg_id[t] = x.msg_id[t]
      /\ srv'["to"].append = srv["to"].append
      /\ Answers("to")' = Answers("to") /\ Told("to")' = Told("to")
      /\ Called("to", msg)
  BY ONLY TypeInv, <1>0, msg \in ReqRec, pc \in PC, Call("to", msg, pc), CallEffect
<1>2. PICK m \in ReqRec : /\ m.op = msg.op /\ m.len = msg.len /\ m.trunc = msg.trunc /\ m.append = msg.append
                          /\ Asked("to")' = Asked("to") \cup {m} /\ Len(Work("to")') = Len(Work("to")) + 1
  BY <1>1 DEF Called
<1>3. Asked("to") = {} /\ Told("to") = {} /\ Len(Work("to")) = 0 /\ Len(Answers("to")) = 0
  BY <1>0, QueueTypes DEF Quiet
<1>4. Calling("to")'
  <2> DEFINE w == Len(Work("to")')
             a == Len(Answers("to")')
  <2>1. w = 0 + 1
    BY <1>2, <1>3
  <2>2. a = 0
    BY <1>1, <1>3
  <2>3. Calling("to")' <=> w + a = 1
    BY DEF Calling
  <2> HIDE DEF w, a
  <2>4. w + a = 1
    BY ONLY <2>1, <2>2
  <2> QED BY <2>3, <2>4
<1>5. Asked("to")' = {m}
  BY <1>2, <1>3
<1> QED BY <1>0, <1>1, <1>2, <1>3, <1>4, <1>5

LEMMA ToAnswer ==
    ASSUME TypeInv, Calling("to"), NEW pc, NEW good \in Locals, NEW bad \in Locals, Answered("to", pc, good, bad)
    PROVE  /\ TypeInv' /\ UNCHANGED <<job, file, interrupted, failed>> /\ x.pc = pc
           /\ srv'["from"] = srv["from"] /\ srv'["to"].append = srv["to"].append
           /\ Quiet("to")'
           /\ \/ Broken'
              \/ \E m \in Told("to") : \/ m.type \in {"OK", "HANDLE"} /\ x' = good
                                       \/ m.type \notin {"OK", "HANDLE"} /\ x' = bad
<1>0. "to" \in Servers /\ "from" \in Servers \ {"to"}
  BY DEF Servers
<1>1. /\ TypeInv' /\ UNCHANGED <<job, file, interrupted, failed>> /\ x.pc = pc
      /\ \A t \in Servers \ {"to"} : srv'[t] = srv[t]
      /\ srv'["to"].append = srv["to"].append
      /\ Work("to")' = Work("to")
      /\ Len(Answers("to")') = Len(Answers("to")) - 1
      /\ Settled("to", good, bad)
  BY ONLY TypeInv, <1>0, good \in Locals, bad \in Locals, Answered("to", pc, good, bad), AnswerEffect
<1>2. PICK m \in Told("to") :
       /\ \/ x' = [x EXCEPT !.pc = "fatal"]
          \/ m.type \in {"OK", "HANDLE"} /\ x' = good
          \/ m.type \notin {"OK", "HANDLE"} /\ x' = bad
  BY <1>1 DEF Settled
<1>3. Len(Work("to")) \in Nat /\ Len(Answers("to")) \in Nat /\ Len(Answers("to")) # 0
      /\ (Work("to") = <<>> <=> Len(Work("to")) = 0)
  BY <1>0, <1>2, QueueTypes
<1>4. Len(Work("to")) = 0 /\ Len(Answers("to")) = 1
  BY <1>3 DEF Calling
<1>5. Quiet("to")'
  <2>1. Work("to")' = <<>>
    BY <1>1, <1>3, <1>4
  <2> DEFINE a == Len(Answers("to")')
  <2>3. a = 1 - 1
    BY <1>1, <1>4
  <2> HIDE DEF a
  <2>4. a = 0
    BY ONLY <2>3
  <2>5. Len(Answers("to")') = 0
    BY <2>4 DEF a
  <2>2. (Answers("to") = <<>> <=> Len(Answers("to")) = 0)'
    <3>1. Answers("to")' \in Seq(RepRec)
      <4>1. srv'["to"] \in Server
        BY <1>0, <1>1 DEF TypeInv
      <4> QED BY <4>1, ElCat DEF Server, Answers
    <3> QED BY <3>1, ElType
  <2> QED BY <2>1, <2>2, <2>5 DEF Quiet
<1>6. CASE x' = [x EXCEPT !.pc = "fatal"]
  <2>1. "fatal" \in PC
    BY DEF PC
  <2>2. x'.pc = "fatal"
    BY <1>6, <2>1, PcFacts DEF GoesTo
  <2> QED BY <1>0, <1>1, <1>5, <2>2 DEF Broken
<1> QED BY <1>0, <1>1, <1>2, <1>5, <1>6

\* Nothing changes at "from".
LEMMA MatchKept ==
    ASSUME MatchInv, UNCHANGED job, srv'["from"] = srv["from"], x'.requests = x.requests,
           x'.offset = x.offset, x'.msg_id["from"] = x.msg_id["from"]
    PROVE  MatchInv'
<1>1. Asked("from")' = Asked("from") /\ Told("from")' = Told("from") /\ Wanted' = Wanted
  BY DEF Asked, Told, Work, Answers, Wanted
<1> QED BY <1>1 DEF MatchInv

\* Nothing changes at "to" but where its requests and replies are queued.
LEMMA ToKept ==
    ASSUME UNCHANGED <<job, x, interrupted, file, failed>>, Work("to")' = Work("to"), Answers("to")' = Answers("to")
    PROVE  /\ (Quiet("to")' <=> Quiet("to")) /\ (Calling("to")' <=> Calling("to")) /\ Asked("to")' = Asked("to")
           /\ Told("to")' = Told("to") /\ Wanted' = Wanted /\ (Fresh' <=> Fresh) /\ (Over' <=> Over)
           /\ Before(job)' = Before(job) /\ Source' = Source /\ (Fine(file)' <=> Fine(file)) /\ Start' = Start
           /\ (CrossPhase => CrossPhase')
<1>1. /\ (Quiet("to")' <=> Quiet("to")) /\ (Calling("to")' <=> Calling("to")) /\ Asked("to")' = Asked("to")
      /\ Told("to")' = Told("to") /\ Wanted' = Wanted /\ (Fresh' <=> Fresh) /\ (Over' <=> Over)
  BY DEF Quiet, Calling, Asked, Told, Wanted, Fresh, Over
<1>2. Before(job)' = Before(job) /\ Source' = Source /\ (Fine(file)' <=> Fine(file')) /\ Start' = Start
  BY SameJob
<1>3. (CrossLoop => CrossLoop') /\ (Truncating => Truncating') /\ (Closing("to") => Closing("to")') /\ (CrossDone => CrossDone')
  <2>1. CrossLoop => CrossLoop'
    BY <1>1 DEF CrossLoop, EndInv, Failing
  <2>2. Truncating => Truncating'
    BY <1>1 DEF Truncating
  <2>3. Closing("to") => Closing("to")'
    BY <1>1 DEF Closing
  <2>4. CrossDone => CrossDone'
    BY <1>1, <1>2 DEF CrossDone
  <2> QED BY <2>1, <2>2, <2>3, <2>4
<1>4. CrossPhase => CrossPhase'
  BY <1>1, <1>2, <1>3 DEF CrossPhase
<1> QED BY <1>1, <1>2, <1>4

----------------------------------------------------------------------------
(* Crossloads.                                                             *)

\* The destination's server writes a block.
LEMMA CrossWritten ==
    ASSUME TypeInv, TypeInv', CrossLoop, ~srv["to"].append, UNCHANGED <<job, x, interrupted>>,
           NEW q, NEW d, Served(q, d)
    PROVE  CrossLoop' /\ ~srv'["to"].append
<1>0. "to" \in Servers
  BY DEF Servers
<1>1. /\ q \in ReqRec /\ q \in Asked("to") /\ Processed("to", q, d) /\ d.reply \in RepRec
      /\ Asked("to") = {q} \cup Asked("to")' /\ Len(Work("to")') = Len(Work("to")) - 1
      /\ Told("to")' = Told("to") \cup {d.reply} /\ Len(Answers("to")') = Len(Answers("to")) + 1
      /\ srv'["to"].append = d.append /\ file' = d.file
  BY DEF Served
<1>2. q.op = "write" /\ q.off + q.len <= job.size
  BY <1>1 DEF CrossLoop
<1>3. q.off \in Nat /\ q.len \in Nat /\ job.size \in Nat /\ file \in Seq(Int) /\ Len(file) \in Nat
  BY <1>1, LocalTypes DEF ReqRec
<1>4. /\ d.append = srv["to"].append
      /\ \/ d.reply.type = "OK" /\ d.file = Written(file, q.off, q.off, q.len)
         \/ d.reply.type = "FAILURE" /\ \E n \in 0..q.len : d.file = Written(file, q.off, q.off, n)
  BY <1>1, <1>2 DEF Processed
<1>5. PICK n \in 0..q.len : file' = Written(file, q.off, q.off, n) /\ (d.reply.type = "OK" => n = q.len)
  <2>1. q.len \in 0..q.len
    BY <1>3
  <2> QED BY <1>1, <1>4, <2>1
<1>6. /\ Len(file') = (IF n > 0 /\ q.off + n > Len(file) THEN q.off + n ELSE Len(file))
      /\ \A b : Good(file, b) \/ (b \in Nat /\ q.off < b /\ b <= q.off + n) => Good(file', b)
  <2>1. n \in Nat
    BY <1>3
  <2> QED BY <1>3, <1>5, <2>1, WrittenFacts
<1>7. Len(file') <= job.size
  <2>1. Len(file) <= job.size
    BY DEF CrossLoop
  <2> QED BY <1>2, <1>3, <1>6, <2>1
<1>8. EndInv' /\ Wanted' = Wanted
  BY DEF CrossLoop, EndInv, Wanted
<1>9. \A r \in Asked("to")' : r.op = "write" /\ r.off + r.len <= job.size
  BY <1>1 DEF CrossLoop
<1>10. \A m \in Told("to")' : m.type \in {"OK", "FAILURE"}
  BY <1>1, <1>4 DEF CrossLoop
<1>11. x'.num_upload = Len(Work("to")') + Len(Answers("to")')
  <2>1. x.num_upload = Len(Work("to")) + Len(Answers("to")) /\ Len(Work("to")) \in Nat /\ Len(Answers("to")) \in Nat
    BY <1>0, QueueTypes DEF CrossLoop
  <2> DEFINE w == Len(Work("to"))
             a == Len(Answers("to"))
             w2 == Len(Work("to")')
             a2 == Len(Answers("to")')
  <2>2. w2 = w - 1 /\ a2 = a + 1 /\ x.num_upload = w + a /\ w \in Nat /\ a \in Nat
    BY <1>1, <2>1
  <2> HIDE DEF w, a, w2, a2
  <2>3. x.num_upload = w2 + a2
    BY ONLY <2>2
  <2> QED BY <2>3 DEF w2, a2
<1>12. ASSUME ~x'.read_error, ~x'.write_error, ~Failing("to")', NEW b \in 1..job.size, b <= x'.offset
       PROVE  \/ Good(file', b) \/ \E r \in Wanted' : In(r, b)
              \/ \E r \in Asked("to")' : In(r, b)
  <2>1. ~Failing("to") /\ d.reply.type = "OK"
    BY <1>1, <1>4, <1>12 DEF Failing
  <2>2. Good(file, b) \/ (\E r \in Wanted : In(r, b)) \/ \E r \in Asked("to") : In(r, b)
    BY <1>12, <2>1 DEF CrossLoop
  <2>3. CASE In(q, b)
    <3>1. n = q.len /\ q.off < b /\ b <= q.off + q.len /\ b \in Nat
      BY <1>5, <2>1, <2>3 DEF In
    <3> QED BY <1>6, <3>1
  <2> QED BY <1>1, <1>6, <1>8, <2>2, <2>3
<1>13. CrossLoop'
  BY <1>7, <1>8, <1>9, <1>10, <1>11, <1>12 DEF CrossLoop
<1> QED BY <1>1, <1>4, <1>13

\* One request is under way, and is answered now.
LEMMA LastServed ==
    ASSUME TypeInv, Calling("to"), NEW q, NEW d, Served(q, d)
    PROVE  Calling("to")' /\ Asked("to")' = {} /\ Told("to")' = {d.reply} /\ Work("to")' = <<>>
<1>0. "to" \in Servers
  BY DEF Servers
<1>1. /\ Work("to") # <<>> /\ Len(Work("to")') = Len(Work("to")) - 1 /\ Work("to")' = Tail(Work("to"))
      /\ Told("to")' = Told("to") \cup {d.reply} /\ Len(Answers("to")') = Len(Answers("to")) + 1
  BY DEF Served
<1>2. /\ Work("to") \in Seq(ReqRec) /\ Len(Work("to")) \in Nat /\ Len(Answers("to")) \in Nat
      /\ (Work("to") = <<>> <=> Len(Work("to")) = 0) /\ (Answers("to") = <<>> <=> Len(Answers("to")) = 0)
      /\ (Answers("to") = <<>> <=> Told("to") = {})
  BY <1>0, QueueTypes
<1>3. Len(Work("to")) = 1 /\ Len(Answers("to")) = 0
  <2> DEFINE w == Len(Work("to"))
             a == Len(Answers("to"))
  <2>1. w \in Nat /\ a \in Nat /\ w # 0 /\ w + a = 1
    BY <1>1, <1>2 DEF Calling
  <2> HIDE DEF w, a
  <2>2. w = 1 /\ a = 0
    BY ONLY <2>1
  <2> QED BY <2>2 DEF w, a
<1> DEFINE w2 == Len(Work("to")')
           a2 == Len(Answers("to")')
<1>4. w2 = 1 - 1 /\ a2 = 0 + 1
  BY <1>1, <1>3
<1>5. Calling("to")' <=> w2 + a2 = 1
  BY DEF Calling
<1>6. Work("to")' \in Seq(ReqRec)
  BY <1>1, <1>2, ElTail
<1>7. (w2 = 0 <=> Work("to")' = <<>>) /\ (El(Work("to")') = {} <=> Work("to")' = <<>>)
  BY <1>6, ElType
<1> HIDE DEF w2, a2
<1>8. w2 = 0 /\ w2 + a2 = 1
  BY ONLY <1>4
<1>9. Told("to")' = {d.reply}
  BY <1>1, <1>2, <1>3
<1>10. Asked("to")' = {}
  BY <1>7, <1>8 DEF Asked
<1> QED BY <1>5, <1>7, <1>8, <1>9, <1>10

\* The destination is opened and truncated, or that fails.
LEMMA TruncateServed ==
    ASSUME TypeInv, Truncating, UNCHANGED x, NEW q, NEW d, Served(q, d)
    PROVE  Truncating' /\ ~srv'["to"].append
<1>1. Calling("to")' /\ Asked("to")' = {} /\ Told("to")' = {d.reply}
  BY LastServed DEF Truncating
<1>2. q \in Asked("to") /\ Processed("to", q, d) /\ srv'["to"].append = d.append /\ file' = d.file
      /\ failed' = IF d.reply.type = "FAILURE" THEN failed + 1 ELSE failed
  BY DEF Served
<1>3. q.op = "open" /\ q.trunc /\ ~q.append
  BY <1>2 DEF Truncating
<1>4. \/ d.reply.type = "HANDLE" /\ d.append = q.append /\ d.file = <<>>
      \/ d.reply.type = "FAILURE" /\ ~d.append
  BY <1>2, <1>3 DEF Processed
<1>5. d.reply.type = "FAILURE" => failed' > 0
  BY <1>2, LocalTypes
<1> QED BY <1>1, <1>2, <1>3, <1>4, <1>5 DEF Truncating

LEMMA CloseServed ==
    ASSUME TypeInv, Closing("to"), NEW q, NEW d, Served(q, d)
    PROVE  Closing("to")' /\ ~srv'["to"].append /\ file' = file /\ (failed' = 0 => failed = 0)
<1>1. Calling("to")' /\ Asked("to")' = {}
  BY LastServed DEF Closing
<1>2. q \in Asked("to") /\ Processed("to", q, d) /\ srv'["to"].append = d.append /\ file' = d.file
      /\ failed' = IF d.reply.type = "FAILURE" THEN failed + 1 ELSE failed
  BY DEF Served
<1>3. q.op = "close"
  BY <1>2 DEF Closing
<1>4. ~d.append /\ d.file = file
  BY <1>2, <1>3 DEF Processed
<1>5. failed' = 0 => failed = 0
  BY <1>2, LocalTypes
<1> QED BY <1>1, <1>2, <1>4, <1>5 DEF Closing

LEMMA CrossTurn ==
    ASSUME TypeInv, CrossInv, NEW s \in Servers, ServerTurn(s)
    PROVE  TypeInv' /\ CrossInv'
<1>0. MatchInv /\ ~srv["to"].append /\ CrossPhase
  BY DEF CrossInv
<1>1. CASE s = "from"
  <2>1. /\ TypeInv' /\ MatchInv' /\ UNCHANGED <<job, x, interrupted, file, failed>>
        /\ srv'["to"] = srv["to"]
    BY <1>0, <1>1, FromTurn
  <2>2. Work("to")' = Work("to") /\ Answers("to")' = Answers("to")
    BY <2>1 DEF Work, Answers
  <2>3. CrossPhase'
    BY <1>0, <2>1, <2>2, ToKept
  <2> QED BY <1>0, <2>1, <2>3 DEF CrossInv
<1>2. CASE s = "to"
  <2>1. /\ TypeInv' /\ UNCHANGED <<job, x, interrupted>> /\ srv'["from"] = srv["from"]
        /\ Moves("to") \/ \E q, d : Served(q, d)
    BY <1>2, ToTurn
  <2>2. MatchInv'
    <3>1. x'.requests = x.requests /\ x'.offset = x.offset /\ x'.msg_id["from"] = x.msg_id["from"]
      BY <2>1
    <3> QED BY <1>0, <2>1, <3>1, MatchKept
  <2>3. CASE Moves("to")
    <3>1. CrossPhase'
      BY <1>0, <2>1, <2>3, ToKept DEF Moves
    <3> QED BY <1>0, <2>1, <2>2, <2>3, <3>1 DEF CrossInv, Moves
  <2>4. ASSUME NEW q, NEW d, Served(q, d) PROVE ~srv'["to"].append /\ CrossPhase'
    <3>1. Work("to") # <<>>
      BY <2>4 DEF Served
    <3>2. ~Quiet("to")
      BY <3>1 DEF Quiet
    <3>3. /\ (Fresh' <=> Fresh) /\ (Over' <=> Over) /\ x' = x /\ Source' = Source
          /\ (Fine(file)' <=> Fine(file'))
      BY <2>1, SameJob DEF Fresh, Over
    <3>4. CASE x.pc = "opening_to" /\ Truncating /\ Fresh
      <4>1. Truncating' /\ ~srv'["to"].append
        BY <2>1, <2>4, <3>4, TruncateServed
      <4> QED BY <3>3, <3>4, <4>1 DEF CrossPhase
    <3>5. CASE x.pc \in {"loop", "wait"} /\ CrossLoop
      <4>1. CrossLoop' /\ ~srv'["to"].append
        BY <1>0, <2>1, <2>4, <3>5, CrossWritten
      <4> QED BY <3>3, <3>5, <4>1 DEF CrossPhase
    <3>6. CASE x.pc = "drain" /\ CrossLoop /\ Over
      <4>1. CrossLoop' /\ ~srv'["to"].append
        BY <1>0, <2>1, <2>4, <3>6, CrossWritten
      <4> QED BY <3>3, <3>6, <4>1 DEF CrossPhase
    <3>7. CASE x.pc = "discarding" /\ x.status = "failure" /\ Closing("to") /\ x.requests = <<>>
      <4>1. Closing("to")' /\ ~srv'["to"].append
        BY <2>1, <2>4, <3>7, CloseServed
      <4> QED BY <3>3, <3>7, <4>1 DEF CrossPhase
    <3>8. CASE x.pc = "reopening" /\ x.status = "failure" /\ Truncating
      <4>1. Truncating' /\ ~srv'["to"].append
        BY <2>1, <2>4, <3>8, TruncateServed
      <4> QED BY <3>3, <3>8, <4>1 DEF CrossPhase
    <3>9. CASE x.pc = "closing_to" /\ Closing("to") /\ CrossDone
      <4>1. Closing("to")' /\ ~srv'["to"].append /\ file' = file /\ (failed' = 0 => failed = 0)
        BY <2>1, <2>4, <3>9, CloseServed
      <4>2. CrossDone'
        BY <3>3, <3>9, <4>1 DEF CrossDone
      <4> QED BY <3>3, <3>9, <4>1, <4>2 DEF CrossPhase
    <3> QED BY <1>0, <3>2, <3>4, <3>5, <3>6, <3>7, <3>8, <3>9 DEF CrossPhase
  <2> QED BY <2>1, <2>2, <2>3, <2>4 DEF CrossInv
<1> QED BY <1>1, <1>2 DEF Servers

\* Everything but the pc of a crossload's loop is as before, at "to" too.
CrossAte(r) ==
    /\ srv'["to"] = [srv["to"] EXCEPT !.out = <<>>]
    /\ x'.num_upload = x.num_upload - Len(srv["to"].out)
    /\ x'.write_error <=> (x.write_error \/ \E i \in DOMAIN srv["to"].out : srv["to"].out[i].type # "OK")
    /\ r = srv'["to"]

LEMMA CrossAteFacts ==
    ASSUME TypeInv, CrossLoop, NEW r, CrossAte(r)
    PROVE  /\ srv'["to"].append = srv["to"].append /\ Asked("to")' = Asked("to")
           /\ Told("to")' \subseteq Told("to")
           /\ x'.num_upload = Len(Work("to")') + Len(Answers("to")')
           /\ (x.write_error => x'.write_error) /\ (~x'.write_error /\ ~Failing("to")' => ~Failing("to"))
<1>0. "to" \in Servers
  BY DEF Servers
<1>1. /\ r \in Server /\ r.out = <<>> /\ r.oqueue = srv["to"].oqueue /\ r.in = srv["to"].in
      /\ r.iqueue = srv["to"].iqueue /\ r.append = srv["to"].append /\ srv'["to"] = r
  <2>1. srv["to"] \in Server /\ <<>> \in Seq(RepRec)
    BY <1>0 DEF TypeInv
  <2>2. r = [srv["to"] EXCEPT !.out = <<>>] /\ srv'["to"] = r
    BY DEF CrossAte
  <2> QED BY <2>1, <2>2 DEF Server
<1>2. /\ Work("to")' = Work("to") /\ Asked("to")' = Asked("to")
      /\ Len(Answers("to")') = Len(Answers("to")) - Len(srv["to"].out)
      /\ Told("to")' \subseteq Told("to") /\ Told("to") = Told("to")' \cup El(srv["to"].out)
      /\ Len(srv["to"].out) \in Nat /\ srv["to"].out \in Seq(RepRec)
  BY ONLY TypeInv, <1>1, AteEffect
<1>3. x'.num_upload = Len(Work("to")') + Len(Answers("to")')
  <2> DEFINE w == Len(Work("to"))
             a == Len(Answers("to"))
             o == Len(srv["to"].out)
             w2 == Len(Work("to")')
             a2 == Len(Answers("to")')
  <2>1. /\ w \in Nat /\ a \in Nat /\ o \in Nat /\ x.num_upload = w + a /\ x'.num_upload = x.num_upload - o
        /\ w2 = w /\ a2 = a - o
    BY <1>0, <1>2, QueueTypes DEF CrossLoop, CrossAte
  <2> HIDE DEF w, a, o, w2, a2
  <2>2. x'.num_upload = w2 + a2
    BY ONLY <2>1
  <2> QED BY <2>2 DEF w2, a2
<1>4. ASSUME ~x'.write_error, ~Failing("to")', NEW m \in Told("to"), m.type = "FAILURE" PROVE FALSE
  <2>1. CASE m \in Told("to")'
    BY <1>4, <2>1 DEF Failing
  <2>2. CASE m \in El(srv["to"].out)
    <3>1. PICK i \in 1..Len(srv["to"].out) : m = srv["to"].out[i]
      BY <2>2 DEF El
    <3>2. i \in DOMAIN srv["to"].out
      BY <1>2
    <3> QED BY <1>4, <3>1, <3>2 DEF CrossAte
  <2> QED BY <1>2, <2>1, <2>2
<1>5. x.write_error => x'.write_error
  BY DEF CrossAte
<1>6. ~x'.write_error /\ ~Failing("to")' => ~Failing("to")
  BY <1>4 DEF Failing
<1> QED BY <1>1, <1>2, <1>3, <1>5, <1>6

LEMMA CrossSent ==
    ASSUME TypeInv, MatchInv, CrossLoop, ~srv["to"].append, SendRequests
    PROVE  TypeInv' /\ MatchInv' /\ UNCHANGED job /\ ~srv'["to"].append /\ CrossPhase'
<1>1. /\ TypeInv' /\ MatchInv' /\ UNCHANGED <<job, file, interrupted, failed>>
      /\ x'.pc = "wait"
      /\ x.offset <= x'.offset /\ Wanted \subseteq Wanted'
      /\ \A b \in Nat : x.offset < b /\ b <= x'.offset => \E r \in Wanted' : In(r, b)
      /\ x'.max_req = IF interrupted THEN 0 ELSE x.max_req
      /\ x'.read_error = x.read_error
      /\ x'.num_upload = x.num_upload - Len(srv["to"].out)
      /\ x'.write_error <=> (x.write_error \/ \E i \in DOMAIN srv["to"].out : srv["to"].out[i].type # "OK")
      /\ srv'["to"] = [srv["to"] EXCEPT !.out = <<>>]
  BY RequestEffect
<1> DEFINE r == srv'["to"]
<1>2. CrossAte(r)
  BY <1>1 DEF CrossAte
<1> HIDE DEF r
<1>3. /\ srv'["to"].append = srv["to"].append /\ Asked("to")' = Asked("to")
      /\ Told("to")' \subseteq Told("to")
      /\ x'.num_upload = Len(Work("to")') + Len(Answers("to")')
      /\ (x.write_error => x'.write_error) /\ (~x'.write_error /\ ~Failing("to")' => ~Failing("to"))
  BY <1>2, CrossAteFacts
<1>4. x.offset \in Nat /\ x'.offset \in Nat /\ job.size \in Nat
  BY <1>1, LocalTypes DEF TypeInv, Locals
<1>5. EndInv'
  <2>1. x'.max_req = 0 => interrupted \/ x.max_req = 0
    BY <1>1
  <2>2. x.max_req = 0 => x.read_error \/ x.write_error \/ interrupted \/ x.offset >= job.size
    BY DEF CrossLoop, EndInv
  <2>3. x.offset >= job.size => x'.offset >= job.size
    BY <1>1, <1>4
  <2> QED BY <1>1, <1>3, <2>1, <2>2, <2>3 DEF EndInv
<1>6. ASSUME ~x'.read_error, ~x'.write_error, ~Failing("to")', NEW b \in 1..job.size, b <= x'.offset
      PROVE  \/ Good(file', b) \/ \E t \in Wanted' : In(t, b)
             \/ \E t \in Asked("to")' : In(t, b)
  <2>1. CASE b <= x.offset
    <3>1. Good(file, b) \/ (\E t \in Wanted : In(t, b)) \/ \E t \in Asked("to") : In(t, b)
      BY <1>1, <1>3, <1>6, <2>1 DEF CrossLoop
    <3> QED BY <1>1, <1>3, <3>1
  <2>2. CASE ~(b <= x.offset)
    <3>1. b \in Nat /\ x.offset < b
      BY <1>4, <2>2
    <3> QED BY <1>1, <1>6, <3>1
  <2> QED BY <2>1, <2>2
<1>7. CrossLoop'
  <2>1. /\ \A q \in Asked("to")' : q.op = "write" /\ q.off + q.len <= job.size
        /\ \A m \in Told("to")' : m.type \in {"OK", "FAILURE"}
        /\ Len(file) <= job.size
    BY <1>3 DEF CrossLoop
  <2> QED BY <1>1, <1>3, <1>5, <1>6, <2>1 DEF CrossLoop
<1> QED BY <1>1, <1>3, <1>7 DEF CrossPhase

\* What a crossload has done when the last write is answered.
LEMMA CrossDrained ==
    ASSUME TypeInv, MatchInv, CrossLoop, Over, ~srv["to"].append, x.pc = "drain", Drain
    PROVE  TypeInv' /\ MatchInv' /\ UNCHANGED job /\ ~srv'["to"].append /\ CrossPhase'
<1>0. "to" \in Servers /\ "from" \in Servers /\ "to" # "from"
  BY DEF Servers
<1>1. UNCHANGED <<job, file, interrupted, failed>>
  BY DEF Drain
<1>2. /\ job \in Jobs /\ job.size \in Nat /\ file \in Seq(Int) /\ Len(file) \in Nat /\ x.offset \in Nat /\ x \in Locals
  BY LocalTypes DEF TypeInv
<1>3. Source' = Source /\ (Fine(file)' <=> Fine(file'))
  BY <1>1, SameJob
<1>4. x.requests = <<>> /\ Wanted = {}
  BY DEF Over, Wanted, El
<1> DEFINE bad == x.read_error \/ x.write_error \/ interrupted
           p == IF bad THEN "discard" ELSE "close_from"
           st == IF bad THEN "failure" ELSE "ok"
<1>5. CASE x.num_upload = 0 /\ x' = [x EXCEPT !.pc = p, !.status = st] /\ UNCHANGED srv
  <2>1. p \in PC /\ st \in Status
    BY DEF PC, Status
  <2>2. Likewise(x') /\ x'.pc = p /\ x'.status = st
    <3> HIDE DEF p, st
    <3>1. x' = Goes(p, st)
      BY <1>5 DEF Goes
    <3> QED BY <2>1, <3>1, GoesFacts
  <2>3. TypeInv'
    BY <1>1, <1>5, <2>2 DEF TypeInv, Likewise
  <2>4. MatchInv'
    BY <1>1, <1>5, <2>2, MatchKept DEF Likewise
  <2>5. Work("to") = <<>> /\ Answers("to") = <<>> /\ Asked("to") = {} /\ Told("to") = {}
    <3> DEFINE w == Len(Work("to"))
               a == Len(Answers("to"))
    <3>1. w \in Nat /\ a \in Nat /\ w + a = 0
      BY <1>0, <1>5, QueueTypes DEF CrossLoop
    <3>2. (w = 0 <=> Work("to") = <<>>) /\ (a = 0 <=> Answers("to") = <<>>)
          /\ (Work("to") = <<>> <=> Asked("to") = {}) /\ (Answers("to") = <<>> <=> Told("to") = {})
      BY <1>0, QueueTypes
    <3> HIDE DEF w, a
    <3>3. w = 0 /\ a = 0
      BY ONLY <3>1
    <3> QED BY <3>2, <3>3
  <2>6. Quiet("to")'
    BY <1>5, <2>5 DEF Quiet, Work, Answers
  <2>7. CASE bad
    <3>1. x'.pc = "discard" /\ x'.status = "failure" /\ x'.requests = <<>>
      BY <1>4, <2>2, <2>7 DEF Likewise
    <3> QED BY <1>1, <1>5, <2>3, <2>4, <2>6, <3>1 DEF CrossPhase
  <2>8. CASE ~bad
    <3>1. x'.pc = "close_from" /\ x'.requests = <<>> /\ x.offset >= job.size
      BY <1>4, <2>2, <2>8 DEF Likewise, Over, CrossLoop, EndInv
    <3>2. ~Failing("to")
      BY <2>5 DEF Failing
    <3>3. \A b \in 1..job.size : b <= x.offset =>
              Good(file, b) \/ (\E r \in Wanted : In(r, b)) \/ \E q \in Asked("to") : In(q, b)
      BY <2>8, <3>2 DEF CrossLoop
    <3>4. \A b \in 1..job.size : b <= x.offset
      BY ONLY <1>2, <3>1
    <3>5. \A b \in 1..job.size : Good(file, b)
      BY <1>4, <2>5, <3>3, <3>4
    <3>6. job.size <= Len(file)
      BY <1>2, <3>5 DEF Good
    <3>7. Len(file) = job.size
      <4>1. Len(file) <= job.size
        BY DEF CrossLoop
      <4> QED BY ONLY <1>2, <3>6, <4>1
    <3>8. Fine(file) /\ file = Source
      <4>1. Len(file) <= job.size /\ \A b \in 1..Len(file) : Good(file, b)
        BY <1>2, <3>5, <3>7
      <4> QED BY ONLY <1>2, <3>7, <4>1, GoodFile
    <3>9. CrossDone'
      BY <1>1, <1>3, <3>1, <3>8 DEF CrossDone
    <3> QED BY <1>1, <1>5, <2>3, <2>4, <2>6, <3>1, <3>9 DEF CrossPhase
  <2> QED BY <2>7, <2>8
<1>6. CASE x' = AteReplies(x) /\ srv' = [srv EXCEPT !["to"].out = <<>>]
  <2> DEFINE err == x.write_error \/ \E i \in DOMAIN srv["to"].out : srv["to"].out[i].type # "OK"
             num == x.num_upload - Len(srv["to"].out)
             r == [srv["to"] EXCEPT !.out = <<>>]
  <2>1. x' = [x EXCEPT !.num_upload = num, !.write_error = err]
    BY <1>2, <1>6 DEF AteReplies, Locals
  <2>2. srv["to"] \in Server /\ srv["to"].out \in Seq(RepRec) /\ Len(srv["to"].out) \in Nat /\ <<>> \in Seq(RepRec)
    BY <1>0 DEF TypeInv, Server
  <2>3. err \in BOOLEAN /\ num \in Int
    <3>1. x.write_error \in BOOLEAN /\ x.num_upload \in Int
      BY LocalTypes
    <3> QED BY <2>2, <3>1
  <2>4. r \in Server
    BY <2>2 DEF Server
  <2>5. srv' \in [Servers -> Server] /\ srv'["to"] = r /\ srv'["from"] = srv["from"]
    <3>1. srv' = [srv EXCEPT !["to"] = r]
      BY <1>0, <1>6 DEF TypeInv
    <3> HIDE DEF r
    <3> QED BY <1>0, <2>4, <3>1 DEF TypeInv
  <2> HIDE DEF err, num
  <2>6. x' \in Locals
    BY <1>2, <2>1, <2>3, Zenon DEF Locals
  <2>7. /\ x'.pc = x.pc /\ x'.requests = x.requests /\ x'.offset = x.offset /\ x'.msg_id = x.msg_id
        /\ x'.max_req = x.max_req /\ x'.read_error = x.read_error /\ x'.num_upload = num /\ x'.write_error = err
    BY <1>2, <2>1 DEF Locals
  <2>8. TypeInv'
    BY <1>1, <2>5, <2>6 DEF TypeInv
  <2>9. MatchInv'
    BY <1>1, <2>5, <2>7, MatchKept
  <2>10. CrossAte(r)
    <3>1. x'.num_upload = x.num_upload - Len(srv["to"].out)
      BY <2>7 DEF num
    <3>2. x'.write_error <=> (x.write_error \/ \E i \in DOMAIN srv["to"].out : srv["to"].out[i].type # "OK")
      BY <2>7, Zenon DEF err
    <3> QED BY <2>5, <3>1, <3>2 DEF CrossAte
  <2> HIDE DEF r
  <2>11. /\ srv'["to"].append = srv["to"].append /\ Asked("to")' = Asked("to")
         /\ Told("to")' \subseteq Told("to")
         /\ x'.num_upload = Len(Work("to")') + Len(Answers("to")')
         /\ (x.write_error => x'.write_error) /\ (~x'.write_error /\ ~Failing("to")' => ~Failing("to"))
    BY <2>10, CrossAteFacts
  <2>12. Wanted' = Wanted /\ Over'
    BY <1>1, <2>7 DEF Wanted, Over
  <2>13. CrossLoop'
    <3>1. /\ \A q \in Asked("to")' : q.op = "write" /\ q.off + q.len <= job.size
          /\ \A m \in Told("to")' : m.type \in {"OK", "FAILURE"}
          /\ Len(file) <= job.size
      BY <2>11 DEF CrossLoop
    <3>2. EndInv'
      BY <1>1, <2>7, <2>11 DEF CrossLoop, EndInv
    <3>3. ~x'.read_error /\ ~x'.write_error /\ ~Failing("to")' => \A b \in 1..job.size : b <= x'.offset =>
             Good(file', b) \/ (\E t \in Wanted' : In(t, b)) \/ \E t \in Asked("to")' : In(t, b)
      BY <1>1, <2>7, <2>11, <2>12 DEF CrossLoop
    <3> QED BY <1>1, <2>11, <3>1, <3>2, <3>3 DEF CrossLoop
  <2> QED BY <1>1, <2>7, <2>8, <2>9, <2>11, <2>12, <2>13 DEF CrossPhase
<1> QED BY <1>5, <1>6 DEF Drain

WriteOf(id, off, len) == [Msg("write", id) EXCEPT !.off = off, !.len = len]
IsWrite(w, off, len) == w \in ReqRec /\ w.op = "write" /\ w.off = off /\ w.len = len

LEMMA WriteMsg ==
    ASSUME NEW id \in Nat, NEW off \in Nat, NEW len \in Nat
    PROVE  IsWrite(WriteOf(id, off, len), off, len)
<1> DEFINE m == Msg("write", id)
<1>1. m \in ReqRec /\ m.op = "write" /\ m.id = id
  BY DEF Msg, ReqRec, Op
<1>2. WriteOf(id, off, len) = [m EXCEPT !.off = off, !.len = len]
  BY DEF WriteOf
<1> HIDE DEF m
<1>3. WriteOf(id, off, len) \in ReqRec
  BY <1>1, <1>2, Zenon DEF ReqRec
<1> DEFINE w == WriteOf(id, off, len)
<1> HIDE DEF w
<1>4. w = [m EXCEPT !.off = off, !.len = len] /\ w \in ReqRec
  BY <1>2, <1>3 DEF w
<1>5. IsWrite(w, off, len)
  BY <1>1, <1>4 DEF ReqRec, IsWrite
<1> QED BY <1>5 DEF w

\* A block that was read is sent on to be written.
Forwarded(q, n) ==
    \E w \in ReqRec : /\ w.op = "write" /\ w.off = q.off /\ w.len = n
                      /\ Asked("to")' = Asked("to") \cup {w} /\ Len(Work("to")') = Len(Work("to")) + 1
                      /\ Answers("to")' = Answers("to")

LEMMA ForwardEffect ==
    ASSUME TypeInv, MatchInv, NEW i \in 1..Len(srv["from"].out), NEW k \in 1..Len(x.requests), NEW m,
           m = srv["from"].out[i], NEW q, q = x.requests[k], q.id = m.id, CrossloadReply(i, m, k),
           UNCHANGED <<job, interrupted>>
    PROVE  /\ TypeInv' /\ MatchInv' /\ x'.pc = "loop" /\ UNCHANGED <<file, failed>>
           /\ x'.offset = x.offset /\ x'.read_error = x.read_error /\ x'.write_error = x.write_error
           /\ (x'.max_req = 0 <=> x.max_req = 0) /\ x'.num_upload = x.num_upload + 1
           /\ srv'["to"].append = srv["to"].append
           /\ q \in Block /\ m.len \in Nat /\ m.len <= q.len
           /\ q.off + m.len <= job.size
           /\ Wanted \subseteq Wanted' \cup {q}
           /\ \A b \in Nat : In(q, b) /\ q.off + m.len < b => \E r \in Wanted' : In(r, b)
           /\ Forwarded(q, m.len)
<1> DEFINE n == m.len
           rest == Remaining(x, k, n)
           write == [Msg("write", x.msg_id["to"]) EXCEPT !.off = q.off, !.len = n]
           again == AskedAgain(i, k, rest)
           y == [rest EXCEPT !.num_upload = @ + 1, !.msg_id["to"] = @ + 1]
<1>0. "from" \in Servers /\ "to" \in Servers /\ "from" # "to"
  BY DEF Servers
<1>1. /\ Usable(m, k) /\ srv' = [again EXCEPT !["to"].in = Append(@, write)]
      /\ x' = NextTurn(y, m) /\ UNCHANGED <<file, failed>>
  BY DEF CrossloadReply
<1>2. m \in RepRec /\ n \in Nat /\ n <= q.len
  <2>1. srv["from"].out \in Seq(RepRec)
    BY <1>0 DEF TypeInv, Server
  <2>2. m \in RepRec
    BY <2>1
  <2> QED BY <1>1, <2>2 DEF Usable, RepRec
<1>3. n \in Nat /\ n <= x.requests[k].len /\ rest = Remaining(x, k, n)
  BY <1>2
<1> HIDE DEF rest
<1>4. /\ rest \in Locals /\ q \in Block
      /\ rest.offset = x.offset /\ rest.max_req = x.max_req /\ rest.read_error = x.read_error
      /\ rest.write_error = x.write_error /\ rest.num_upload = x.num_upload
  <2> HIDE DEF n
  <2>1. RestOf(k, x.requests[k], n, Remaining(x, k, n))
    BY ONLY TypeInv, k \in 1..Len(x.requests), <1>3, RemainingFacts
  <2>2. RestOf(k, q, n, rest)
    BY ONLY <1>3, <2>1, q = x.requests[k]
  <2> QED BY ONLY <2>2 DEF RestOf
<1>5. q.off \in Nat /\ q.len \in Nat /\ x.msg_id["to"] \in Nat /\ x.num_upload \in Int
  BY <1>4, LocalTypes DEF Block
<1>6. write = WriteOf(x.msg_id["to"], q.off, n)
  BY DEF WriteOf
<1> HIDE DEF write
<1>7. write \in ReqRec /\ write.op = "write" /\ write.off = q.off /\ write.len = n
  <2> DEFINE id == x.msg_id["to"]
             off == q.off
  <2>1. id \in Nat /\ off \in Nat /\ n \in Nat /\ write = WriteOf(id, off, n)
    BY <1>3, <1>5, <1>6
  <2> HIDE DEF n, id, off
  <2>2. IsWrite(WriteOf(id, off, n), off, n)
    BY ONLY <2>1, WriteMsg
  <2> QED BY <2>1, <2>2 DEF off, IsWrite
<1> DEFINE ids == [rest.msg_id EXCEPT !["to"] = @ + 1]
<1>8. rest.msg_id \in [Servers -> Nat] /\ ids \in [Servers -> Nat] /\ ids["from"] = rest.msg_id["from"]
  <2>1. rest.msg_id \in [Servers -> Nat]
    BY <1>4 DEF Locals
  <2> QED BY <1>0, <2>1
<1>9. y = [rest EXCEPT !.num_upload = x.num_upload + 1, !.msg_id = ids] /\ x.num_upload + 1 \in Int
  BY <1>4, <1>5 DEF Locals
<1> HIDE DEF y, ids
<1>10. y \in Locals
  BY <1>4, <1>8, <1>9, Zenon DEF Locals
<1>11. /\ y.requests = rest.requests /\ y.offset = rest.offset /\ y.msg_id = ids
       /\ y.read_error = rest.read_error /\ y.write_error = rest.write_error /\ y.max_req = rest.max_req
       /\ y.num_upload = x.num_upload + 1
  BY <1>4, <1>9 DEF Locals
<1>12. /\ x' \in Locals /\ x'.pc = "loop" /\ x'.requests = y.requests /\ x'.offset = y.offset
       /\ x'.msg_id = y.msg_id /\ x'.read_error = y.read_error
       /\ x'.write_error = y.write_error /\ x'.num_upload = y.num_upload
       /\ x'.max_req = 0 <=> y.max_req = 0
  BY ONLY <1>1, <1>10, NextTurnFacts
<1>13. x'.requests = rest.requests /\ x'.offset = rest.offset /\ x'.msg_id["from"] = rest.msg_id["from"]
  BY <1>8, <1>11, <1>12
<1>14. \E f : again = [srv EXCEPT !["from"] = f]
  <2> DEFINE more == IF Len(rest.requests) < Len(x.requests) THEN <<>>
                     ELSE <<[Msg("read", rest.requests[k].id) EXCEPT !.off = rest.requests[k].off, !.len = rest.requests[k].len]>>
             f == [srv["from"] EXCEPT !.out = RemoveAt(@, i), !.in = @ \o more]
  <2>1. again = [srv EXCEPT !["from"].out = RemoveAt(@, i), !["from"].in = @ \o more]
    BY DEF AskedAgain
  <2> HIDE DEF more, again
  <2>2. again = [srv EXCEPT !["from"] = f]
    BY <1>0, <2>1 DEF TypeInv, Server
  <2> QED BY <2>2
<1>15. PICK f : again = [srv EXCEPT !["from"] = f]
  BY <1>14
<1> HIDE DEF again
<1> DEFINE t == [srv["to"] EXCEPT !.in = Append(@, write)]
<1>16. srv'["from"] = again["from"] /\ srv'["to"] = t /\ srv' = [s \in Servers |-> srv'[s]]
  <2>1. again["to"] = srv["to"] /\ DOMAIN again = Servers
    BY <1>0, <1>15 DEF TypeInv
  <2>2. srv' = [again EXCEPT !["to"] = [again["to"] EXCEPT !.in = Append(@, write)]]
    BY <1>0, <1>1, <2>1
  <2>3. srv' = [again EXCEPT !["to"] = t]
    BY <2>1, <2>2
  <2>4. again = [s \in Servers |-> again[s]]
    BY <1>15 DEF TypeInv
  <2> HIDE DEF t
  <2> QED BY <1>0, <2>1, <2>3, <2>4
<1>17. srv["to"] \in Server /\ srv["to"].in \in Seq(ReqRec)
  BY <1>0 DEF TypeInv, Server
<1>18. srv["to"].in \o <<write>> \in Seq(ReqRec) /\ Append(srv["to"].in, write) = srv["to"].in \o <<write>>
       /\ <<write>> \in Seq(ReqRec) /\ Len(<<write>>) = 1 /\ El(<<write>>) = {write}
  <2>1. <<write>> \in Seq(ReqRec) /\ Len(<<write>>) = 1 /\ El(<<write>>) = {write}
    BY <1>7 DEF El
  <2>2. Append(srv["to"].in, write) = srv["to"].in \o <<write>>
    BY <1>7, <1>17, AppendIsConcat
  <2>3. srv["to"].in \o <<write>> \in Seq(ReqRec)
    BY <1>17, <2>1, ElCat
  <2> QED BY <2>1, <2>2, <2>3
<1>19. /\ t \in Server /\ t.in = srv["to"].in \o <<write>> /\ t.iqueue = srv["to"].iqueue
       /\ t.out = srv["to"].out /\ t.oqueue = srv["to"].oqueue /\ t.append = srv["to"].append
  BY <1>17, <1>18 DEF Server
<1> HIDE DEF t
<1>20. /\ TypeInv' /\ MatchInv'
       /\ q.off + m.len <= job.size
       /\ Wanted \subseteq Wanted' \cup {q}
       /\ \A b \in Nat : In(q, b) /\ q.off + m.len < b => \E r \in Wanted' : In(r, b)
  <2>1. rest = Remaining(x, k, m.len) /\ srv'["from"] = AskedAgain(i, k, rest)["from"] /\ srv'["to"] \in Server
    BY <1>3, <1>16, <1>19 DEF n, again
  <2>2. /\ UNCHANGED job /\ interrupted' \in BOOLEAN /\ file' \in Seq(Int) /\ failed' \in Nat
    BY <1>1 DEF TypeInv
  <2>3. DataTaken(i, k, m, q, rest)
    BY <1>1, <1>12, <1>13, <1>16, <2>1, <2>2 DEF DataTaken
  <2> QED BY ONLY TypeInv, MatchInv, <2>3, DataEffect
<1>21. Forwarded(q, n)
  <2> DEFINE msgs == <<write>>
  <2>1. msgs \in Seq(ReqRec) /\ t \in Server /\ t.in = srv["to"].in \o msgs /\ t.iqueue = srv["to"].iqueue
        /\ t.out = srv["to"].out /\ t.oqueue = srv["to"].oqueue /\ srv'["to"] = t
    BY <1>16, <1>18, <1>19
  <2>2. Len(msgs) = 1 /\ El(msgs) = {write}
    BY <1>18
  <2> HIDE DEF msgs
  <2>3. /\ Len(Work("to")') = Len(Work("to")) + Len(msgs)
        /\ Asked("to")' = Asked("to") \cup El(msgs) /\ Answers("to")' = Answers("to")
    BY ONLY TypeInv, <1>0, <2>1, SendEffect
  <2> QED BY <1>7, <2>2, <2>3 DEF Forwarded
<1>22. x'.max_req = 0 <=> x.max_req = 0
  BY <1>4, <1>11, <1>12
<1>23. srv'["to"].append = srv["to"].append
  BY <1>16, <1>19
<1> QED BY <1>1, <1>2, <1>4, <1>11, <1>12, <1>20, <1>21, <1>22, <1>23 DEF n

LEMMA CrossForwarded ==
    ASSUME TypeInv, TypeInv', CrossLoop, UNCHANGED <<job, interrupted, file>>, x'.offset = x.offset,
           x'.read_error = x.read_error, x'.write_error = x.write_error, x'.max_req = 0 <=> x.max_req = 0,
           x'.num_upload = x.num_upload + 1,
           NEW q \in Block, NEW n \in Nat, n <= q.len, q.off + n <= job.size,
           Wanted \subseteq Wanted' \cup {q},
           \A b \in Nat : In(q, b) /\ q.off + n < b => \E r \in Wanted' : In(r, b),
           Forwarded(q, n)
    PROVE  CrossLoop'
<1>0. "to" \in Servers
  BY DEF Servers
<1>1. PICK w \in ReqRec : /\ w.op = "write" /\ w.off = q.off /\ w.len = n
                          /\ Asked("to")' = Asked("to") \cup {w} /\ Len(Work("to")') = Len(Work("to")) + 1
                          /\ Answers("to")' = Answers("to")
  BY DEF Forwarded
<1>2. EndInv'
  BY DEF CrossLoop, EndInv
<1>3. \A r \in Asked("to")' : r.op = "write" /\ r.off + r.len <= job.size
  BY <1>1 DEF CrossLoop
<1>4. Told("to")' = Told("to") /\ (Failing("to")' <=> Failing("to"))
  BY <1>1 DEF Told, Failing
<1>5. x'.num_upload = Len(Work("to")') + Len(Answers("to")')
  <2> DEFINE a == Len(Work("to"))
             c == Len(Answers("to"))
             a2 == Len(Work("to")')
             c2 == Len(Answers("to")')
  <2>1. a \in Nat /\ c \in Nat /\ x.num_upload = a + c /\ a2 = a + 1 /\ c2 = c
    BY <1>0, <1>1, QueueTypes DEF CrossLoop
  <2> HIDE DEF a, c, a2, c2
  <2>2. x'.num_upload = a2 + c2
    BY ONLY <2>1, x'.num_upload = x.num_upload + 1
  <2> QED BY <2>2 DEF a2, c2
<1>6. ASSUME ~x'.read_error, ~x'.write_error, ~Failing("to")', NEW b \in 1..job.size, b <= x'.offset
      PROVE  Good(file', b) \/ (\E r \in Wanted' : In(r, b)) \/ \E r \in Asked("to")' : In(r, b)
  <2>1. Good(file, b) \/ (\E r \in Wanted : In(r, b)) \/ \E r \in Asked("to") : In(r, b)
    BY <1>4, <1>6 DEF CrossLoop
  <2>2. CASE In(q, b)
    <3>0. b \in Nat /\ q.off \in Nat
      BY DEF Block
    <3>1. CASE q.off + n < b
      BY <2>2, <3>0, <3>1
    <3>2. CASE ~(q.off + n < b)
      <4>1. q.off < b
        BY <2>2 DEF In
      <4>2. b <= q.off + n
        BY ONLY <3>0, <3>2, n \in Nat
      <4>3. In(w, b)
        BY <1>1, <4>1, <4>2 DEF In
      <4> QED BY <1>1, <4>3
    <3> QED BY <3>1, <3>2
  <2> QED BY <1>1, <2>1, <2>2
<1>7. Len(file') <= job.size /\ \A m \in Told("to")' : m.type \in {"OK", "FAILURE"}
  BY <1>4 DEF CrossLoop
<1> QED BY <1>2, <1>3, <1>5, <1>6, <1>7 DEF CrossLoop

LEMMA CrossRead ==
    ASSUME TypeInv, MatchInv, CrossLoop, job.kind = "crossload", ~srv["to"].append, ReadReply
    PROVE  TypeInv' /\ UNCHANGED job /\ (Broken' \/ (MatchInv' /\ ~srv'["to"].append /\ CrossPhase'))
<1>1. /\ UNCHANGED <<job, interrupted>>
      /\ \E i \in 1..Len(srv["from"].out) : \E m : m = srv["from"].out[i] /\
           \/ UnexpectedReply(i, m, request_find(m.id))
           \/ \E k \in 1..Len(x.requests) : /\ x.requests[k].id = m.id
                                            /\ StatusReply(i, m, k) \/ DownloadReply(i, m, k) \/ CrossloadReply(i, m, k)
  BY ReadCases
<1>2. PICK i \in 1..Len(srv["from"].out) : \E m : m = srv["from"].out[i] /\
           \/ UnexpectedReply(i, m, request_find(m.id))
           \/ \E k \in 1..Len(x.requests) : /\ x.requests[k].id = m.id
                                            /\ StatusReply(i, m, k) \/ DownloadReply(i, m, k) \/ CrossloadReply(i, m, k)
  BY <1>1
<1>3. PICK m : /\ m = srv["from"].out[i]
               /\ \/ UnexpectedReply(i, m, request_find(m.id))
                  \/ \E k \in 1..Len(x.requests) : /\ x.requests[k].id = m.id
                                                   /\ StatusReply(i, m, k) \/ DownloadReply(i, m, k) \/ CrossloadReply(i, m, k)
  BY <1>2
<1>4. CASE UnexpectedReply(i, m, request_find(m.id))
  BY <1>1, <1>4, UnexpectedEffect
<1>5. ASSUME NEW k \in 1..Len(x.requests), x.requests[k].id = m.id, StatusReply(i, m, k)
      PROVE  TypeInv' /\ MatchInv' /\ ~srv'["to"].append /\ CrossPhase'
  <2> DEFINE q == x.requests[k]
  <2>1. q = x.requests[k] /\ q.id = m.id
    BY <1>5
  <2> HIDE DEF q
  <2>2. /\ TypeInv' /\ MatchInv' /\ UNCHANGED <<file, failed>> /\ srv'["to"] = srv["to"]
        /\ x'.pc = "loop" /\ x'.max_req = 0 /\ (x.read_error => x'.read_error)
        /\ ~x'.read_error => q.off >= job.size /\ x.offset >= job.size
        /\ x'.offset = x.offset /\ x'.write_error = x.write_error /\ x'.num_upload = x.num_upload
        /\ Wanted \subseteq Wanted' \cup {q} /\ q \in Block
    BY ONLY TypeInv, MatchInv, i \in 1..Len(srv["from"].out), <1>1, <1>3, <1>5, <2>1, StatusEffect
  <2>3. EndInv'
    BY <1>1, <2>2 DEF EndInv
  <2>4. /\ Work("to")' = Work("to") /\ Answers("to")' = Answers("to") /\ Asked("to")' = Asked("to")
        /\ Told("to")' = Told("to") /\ (Failing("to")' <=> Failing("to"))
    BY <2>2 DEF Work, Answers, Asked, Told, Failing
  <2>5. ASSUME ~x'.read_error, ~x'.write_error, ~Failing("to")', NEW b \in 1..job.size, b <= x'.offset
        PROVE  Good(file', b) \/ (\E r \in Wanted' : In(r, b)) \/ \E r \in Asked("to")' : In(r, b)
    <3>1. Good(file, b) \/ (\E r \in Wanted : In(r, b)) \/ \E r \in Asked("to") : In(r, b)
      BY <2>2, <2>4, <2>5 DEF CrossLoop
    <3>2. ~In(q, b)
      <4>1. q.off \in Nat /\ q.off >= job.size /\ job.size \in Nat
        BY <2>2, <2>5, LocalTypes DEF Block
      <4>2. ~(q.off < b)
        BY <4>1
      <4> QED BY <4>2 DEF In
    <3> QED BY <2>2, <2>4, <3>1, <3>2
  <2>6. CrossLoop'
    <3>1. /\ \A r \in Asked("to") : r.op = "write" /\ r.off + r.len <= job.size
          /\ \A a \in Told("to") : a.type \in {"OK", "FAILURE"}
          /\ x.num_upload = Len(Work("to")) + Len(Answers("to")) /\ Len(file) <= job.size
      BY DEF CrossLoop
    <3> QED BY <1>1, <2>2, <2>3, <2>4, <2>5, <3>1 DEF CrossLoop
  <2> QED BY <2>2, <2>6 DEF CrossPhase
<1>6. ASSUME NEW k \in 1..Len(x.requests), x.requests[k].id = m.id, CrossloadReply(i, m, k)
      PROVE  TypeInv' /\ MatchInv' /\ ~srv'["to"].append /\ CrossPhase'
  <2> DEFINE q == x.requests[k]
  <2>1. q = x.requests[k] /\ q.id = m.id
    BY <1>6
  <2> HIDE DEF q
  <2>2. /\ TypeInv' /\ MatchInv' /\ x'.pc = "loop" /\ UNCHANGED <<file, failed>>
        /\ x'.offset = x.offset /\ x'.read_error = x.read_error /\ x'.write_error = x.write_error
        /\ (x'.max_req = 0 <=> x.max_req = 0) /\ x'.num_upload = x.num_upload + 1
        /\ srv'["to"].append = srv["to"].append
        /\ q \in Block /\ m.len \in Nat /\ m.len <= q.len
        /\ q.off + m.len <= job.size
        /\ Wanted \subseteq Wanted' \cup {q}
        /\ \A b \in Nat : In(q, b) /\ q.off + m.len < b => \E r \in Wanted' : In(r, b)
        /\ Forwarded(q, m.len)
    <3>1. /\ UNCHANGED <<job, interrupted>> /\ CrossloadReply(i, m, k) /\ m = srv["from"].out[i]
          /\ i \in 1..Len(srv["from"].out) /\ k \in 1..Len(x.requests)
      BY <1>1, <1>3, <1>6
    <3> QED BY ONLY TypeInv, MatchInv, <2>1, <3>1, ForwardEffect
  <2>3. CrossLoop'
    BY <1>1, <2>2, CrossForwarded
  <2> QED BY <2>2, <2>3 DEF CrossPhase
<1>7. ASSUME NEW k \in 1..Len(x.requests), DownloadReply(i, m, k) PROVE FALSE
  BY <1>7 DEF DownloadReply
<1> QED BY <1>1, <1>3, <1>4, <1>5, <1>6, <1>7

LEMMA CrossOpenedTo ==
    ASSUME TypeInv, MatchInv, job.kind = "crossload", ~srv["to"].append, Truncating, Fresh, OpenedTo
    PROVE  TypeInv' /\ UNCHANGED job /\ (Broken' \/ (MatchInv' /\ ~srv'["to"].append /\ CrossPhase'))
<1> DEFINE good == [x EXCEPT !.pc = "loop", !.to_open = TRUE]
           bad == Goes("close_from", "failure")
<1>1. Answered("to", "opening_to", good, bad)
  BY DEF OpenedTo, Goes
<1>2. "loop" \in PC /\ "close_from" \in PC /\ "failure" \in Status /\ TRUE \in BOOLEAN /\ x \in Locals
  BY DEF PC, Status, TypeInv
<1>3. good \in Locals
  BY <1>2, Zenon DEF Locals
<1>4. /\ good.pc = "loop" /\ good.requests = x.requests /\ good.offset = x.offset /\ good.msg_id = x.msg_id
      /\ good.max_req = x.max_req /\ good.num_upload = x.num_upload
  BY <1>2 DEF Locals
<1>5. Likewise(bad) /\ bad.pc = "close_from" /\ bad.status = "failure"
  BY <1>2, GoesFacts
<1> HIDE DEF good, bad
<1>6. bad \in Locals /\ bad.requests = x.requests /\ bad.offset = x.offset /\ bad.msg_id = x.msg_id
  BY <1>5 DEF Likewise
<1>7. /\ TypeInv' /\ UNCHANGED <<job, file, interrupted, failed>>
      /\ srv'["from"] = srv["from"] /\ srv'["to"].append = srv["to"].append
      /\ Quiet("to")'
      /\ \/ Broken'
         \/ \E m \in Told("to") : \/ m.type \in {"OK", "HANDLE"} /\ x' = good
                                  \/ m.type \notin {"OK", "HANDLE"} /\ x' = bad
  BY <1>1, <1>3, <1>6, ToAnswer DEF Truncating
<1>8. Source' = Source /\ (Fine(file)' <=> Fine(file'))
  BY <1>7, SameJob
<1>9. ASSUME NEW m \in Told("to"), m.type \in {"OK", "HANDLE"}, x' = good
      PROVE  MatchInv' /\ ~srv'["to"].append /\ CrossPhase'
  <2>1. file = <<>>
    BY <1>9 DEF Truncating
  <2>2. MatchInv'
    BY <1>4, <1>7, <1>9, MatchKept
  <2>3. Work("to")' = <<>> /\ Answers("to")' = <<>>
    BY <1>7 DEF Quiet
  <2>4. Asked("to")' = {} /\ Told("to")' = {} /\ Len(Work("to")') = 0 /\ Len(Answers("to")') = 0
    <3>1. Len(<<>>) = 0 /\ El(<<>>) = {}
      BY DEF El
    <3> QED BY <2>3, <3>1 DEF Asked, Told
  <2>5. x'.max_req = 1 /\ x'.num_upload = 0 /\ x'.offset = 0
    BY <1>4, <1>9 DEF Fresh
  <2>6. Len(file') <= job.size /\ job.size \in Nat
    <3>1. job.size \in Nat /\ Len(<<>>) = 0
      BY LocalTypes
    <3> QED BY <1>7, <2>1, <3>1
  <2>7. x'.num_upload = Len(Work("to")') + Len(Answers("to")')
    BY <2>4, <2>5
  <2>8. EndInv'
    BY <2>5 DEF EndInv
  <2>9. \A b \in 1..job.size : ~(b <= x'.offset)
    BY <2>5, <2>6
  <2>10. CrossLoop'
    BY <1>7, <2>4, <2>6, <2>7, <2>8, <2>9 DEF CrossLoop
  <2> QED BY <1>4, <1>7, <1>9, <2>2, <2>10 DEF CrossPhase
<1>10. ASSUME NEW m \in Told("to"), m.type \notin {"OK", "HANDLE"}, x' = bad
       PROVE  MatchInv' /\ ~srv'["to"].append /\ CrossPhase'
  <2>1. failed > 0 /\ failed \in Nat
    BY <1>10, LocalTypes DEF Truncating
  <2>2. failed' # 0
    BY <1>7, <2>1
  <2>3. MatchInv'
    BY <1>6, <1>7, <1>10, MatchKept
  <2>4. CrossDone'
    BY <1>5, <1>6, <1>10, <2>2 DEF CrossDone, Fresh
  <2> QED BY <1>5, <1>7, <1>10, <2>3, <2>4 DEF CrossPhase
<1> QED BY <1>7, <1>9, <1>10

LEMMA CrossReopened ==
    ASSUME TypeInv, MatchInv, ~srv["to"].append, Truncating, x.status = "failure", Reopened
    PROVE  TypeInv' /\ UNCHANGED job /\ (Broken' \/ (MatchInv' /\ ~srv'["to"].append /\ CrossPhase'))
<1> DEFINE next(ok) == [x EXCEPT !.pc = "close_from", !.to_open = ok]
           good == next(TRUE)
           bad == next(FALSE)
<1>1. Answered("to", "reopening", good, bad)
  BY DEF Reopened
<1>2. "close_from" \in PC /\ x \in Locals
  BY DEF PC, TypeInv
<1>3. ASSUME NEW ok \in BOOLEAN
      PROVE  /\ next(ok) \in Locals /\ next(ok).pc = "close_from" /\ next(ok).requests = x.requests
             /\ next(ok).offset = x.offset /\ next(ok).msg_id = x.msg_id /\ next(ok).status = x.status
  <2>1. next(ok) \in Locals
    BY <1>2, Zenon DEF Locals
  <2> QED BY <1>2, <2>1 DEF Locals
<1>4. /\ good \in Locals /\ good.pc = "close_from" /\ good.requests = x.requests
      /\ good.offset = x.offset /\ good.msg_id = x.msg_id /\ good.status = x.status
      /\ bad \in Locals /\ bad.pc = "close_from" /\ bad.requests = x.requests
      /\ bad.offset = x.offset /\ bad.msg_id = x.msg_id /\ bad.status = x.status
  BY <1>3
<1> HIDE DEF good, bad
<1>5. /\ TypeInv' /\ UNCHANGED <<job, file, interrupted, failed>>
      /\ srv'["from"] = srv["from"] /\ srv'["to"].append = srv["to"].append
      /\ Quiet("to")'
      /\ \/ Broken'
         \/ \E m \in Told("to") : \/ m.type \in {"OK", "HANDLE"} /\ x' = good
                                  \/ m.type \notin {"OK", "HANDLE"} /\ x' = bad
  BY <1>1, <1>4, ToAnswer DEF Truncating
<1>6. Source' = Source /\ (Fine(file)' <=> Fine(file'))
  BY <1>5, SameJob
<1>7. ASSUME NEW m \in Told("to"), x' = good \/ x' = bad
      PROVE  MatchInv' /\ ~srv'["to"].append /\ CrossPhase'
  <2>1. x'.pc = "close_from" /\ x'.requests = <<>> /\ x'.status = "failure"
    BY <1>4, <1>7 DEF Truncating
  <2>2. MatchInv'
    BY <1>4, <1>5, <1>7, MatchKept
  <2>3. file = <<>> \/ failed > 0
    BY <1>7 DEF Truncating
  <2>4. failed = 0 => Fine(file)
    <3>1. file = <<>> => Fine(file)
      <4>1. file \in Seq(Int) /\ job \in Jobs /\ job.size \in Nat
        BY LocalTypes
      <4>2. file = <<>> => Len(file) <= job.size /\ \A b \in 1..Len(file) : Good(file, b)
        BY <4>1
      <4> QED BY ONLY <4>1, <4>2, GoodFile
    <3> QED BY <2>3, <3>1
  <2>5. CrossDone'
    BY <1>5, <1>6, <2>1, <2>4 DEF CrossDone
  <2> QED BY <1>5, <2>1, <2>2, <2>5 DEF CrossPhase
<1> QED BY <1>5, <1>7

\* The other answers.
LEMMA CrossAnswered ==
    ASSUME TypeInv, MatchInv, ~srv["to"].append, Closing("to"), x.requests = <<>>,
           \/ Discarded /\ x.status = "failure"
           \/ ClosedTo /\ CrossDone
    PROVE  TypeInv' /\ UNCHANGED job /\ (Broken' \/ (MatchInv' /\ ~srv'["to"].append /\ CrossPhase'))
<1>1. "reopen" \in PC /\ "done" \in PC /\ x.status \in Status
  BY DEF PC, TypeInv, Locals
<1>2. CASE Discarded /\ x.status = "failure"
  <2> DEFINE good == GoesTo("reopen")
  <2>1. Answered("to", "discarding", good, good)
    BY <1>2 DEF Discarded, GoesTo
  <2>2. Likewise(good) /\ good.pc = "reopen" /\ good.status = x.status
    BY <1>1, PcFacts
  <2> HIDE DEF good
  <2>3. good \in Locals
    BY <2>2 DEF Likewise
  <2>4. /\ TypeInv' /\ UNCHANGED <<job, file, interrupted, failed>>
        /\ srv'["from"] = srv["from"] /\ srv'["to"].append = srv["to"].append
        /\ Quiet("to")' /\ (Broken' \/ x' = good)
    BY <2>1, <2>3, ToAnswer DEF Closing
  <2>5. CASE x' = good
    <3>1. MatchInv'
      BY <2>2, <2>4, <2>5, MatchKept DEF Likewise
    <3>2. CrossPhase'
      BY <1>2, <2>2, <2>4, <2>5 DEF CrossPhase, Likewise
    <3> QED BY <2>4, <3>1, <3>2
  <2> QED BY <2>4, <2>5
<1>3. CASE ClosedTo /\ CrossDone
  <2> DEFINE good == Goes("done", x.status)
  <2>1. Answered("to", "closing_to", good, good)
    BY <1>3 DEF ClosedTo, Goes, Returns
  <2>2. Likewise(good) /\ good.pc = "done" /\ good.status = x.status
    BY <1>1, GoesFacts
  <2> HIDE DEF good
  <2>3. good \in Locals
    BY <2>2 DEF Likewise
  <2>4. /\ TypeInv' /\ UNCHANGED <<job, file, interrupted, failed>>
        /\ srv'["from"] = srv["from"] /\ srv'["to"].append = srv["to"].append
        /\ Quiet("to")' /\ (Broken' \/ x' = good)
    BY <2>1, <2>3, ToAnswer DEF Closing
  <2>5. CASE x' = good
    <3>1. MatchInv'
      BY <2>2, <2>4, <2>5, MatchKept DEF Likewise
    <3>2. Source' = Source /\ (Fine(file)' <=> Fine(file'))
      BY <2>4, SameJob
    <3>3. CrossDone'
      BY <1>3, <2>2, <2>4, <2>5, <3>2 DEF CrossDone, Likewise
    <3>4. CrossPhase'
      BY <2>2, <2>4, <2>5, <3>3 DEF CrossPhase, Likewise
    <3> QED BY <2>4, <3>1, <3>4
  <2> QED BY <2>4, <2>5
<1> QED BY <1>2, <1>3

\* The source has been opened, or closed in the end.
LEMMA CrossFrom ==
    ASSUME TypeInv, MatchInv, job.kind = "crossload", ~srv["to"].append, Quiet("to"),
           \/ OpenedFrom /\ Fresh /\ file = Before(job) /\ failed = 0
           \/ ClosedFrom /\ CrossDone
    PROVE  TypeInv' /\ UNCHANGED job /\ (Broken' \/ (MatchInv' /\ ~srv'["to"].append /\ CrossPhase'))
<1>1. "open_to" \in PC /\ "close_to" \in PC /\ "done" \in PC /\ "failure" \in Status /\ "ok" \in Status
  BY DEF PC, Status
<1>2. CASE OpenedFrom /\ Fresh /\ file = Before(job) /\ failed = 0
  <2> DEFINE good == GoesTo("open_to")
             bad == Goes("done", "failure")
  <2>1. Answered("from", "opening_from", good, bad)
    <3>1. [x EXCEPT !.pc = IF job.kind = "crossload" THEN "open_to" ELSE "local"] = GoesTo("open_to")
      BY DEF GoesTo
    <3> QED BY <1>2, <3>1 DEF OpenedFrom, Returns, Goes
  <2>2. Likewise(good) /\ good.pc = "open_to" /\ good.status = x.status
    BY <1>1, PcFacts
  <2>3. Likewise(bad) /\ bad.pc = "done" /\ bad.status = "failure"
    BY <1>1, GoesFacts
  <2> HIDE DEF good, bad
  <2>4. /\ TypeInv' /\ UNCHANGED <<job, file, interrupted, failed>> /\ srv'["to"] = srv["to"]
        /\ Broken' \/ (MatchInv' /\ (x' = good \/ x' = bad))
    BY <2>1, <2>2, <2>3, FromAnswer DEF Likewise
  <2>5. Source' = Source /\ Before(job)' = Before(job) /\ (Fine(file)' <=> Fine(file'))
    BY <2>4, SameJob
  <2>6. Quiet("to")'
    BY <2>4 DEF Quiet, Work, Answers
  <2>7. CASE x' = good
    <3>1. Fresh' /\ x'.pc = "open_to"
      BY <1>2, <2>2, <2>7 DEF Fresh, Likewise
    <3>2. CrossPhase'
      BY <1>2, <2>4, <2>5, <2>6, <3>1 DEF CrossPhase
    <3> QED BY <2>4, <3>2
  <2>8. CASE x' = bad
    <3>1. x'.requests = <<>> /\ x'.pc = "done" /\ x'.status # "ok"
      BY <1>2, <2>3, <2>8 DEF Fresh, Likewise
    <3>2. Fine(file')
      BY <1>2, <2>4 DEF Fine
    <3>3. CrossDone'
      BY <2>5, <3>1, <3>2 DEF CrossDone
    <3>4. CrossPhase'
      BY <2>6, <3>1, <3>3 DEF CrossPhase
    <3> QED BY <2>4, <3>4
  <2> QED BY <2>4, <2>7, <2>8
<1>3. CASE ClosedFrom /\ CrossDone
  <2> DEFINE st == IF x.status = "ok" /\ ~interrupted THEN "ok" ELSE "failure"
             p == IF x.to_open THEN "close_to" ELSE "done"
             good == Goes(p, st)
             bad == Goes(p, "failure")
  <2>1. Answered("from", "closing_from", good, bad)
    BY <1>3 DEF ClosedFrom, Returns, Goes
  <2>2. p \in PC /\ st \in Status /\ (st = "ok" => file = Source) /\ p \in {"close_to", "done"}
    BY <1>1, <1>3 DEF CrossDone
  <2> HIDE DEF st, p
  <2>3. Likewise(good) /\ good.pc = p /\ good.status = st
    BY <2>2, GoesFacts
  <2>4. Likewise(bad) /\ bad.pc = p /\ bad.status = "failure"
    BY <1>1, <2>2, GoesFacts
  <2> HIDE DEF good, bad
  <2>5. /\ TypeInv' /\ UNCHANGED <<job, file, interrupted, failed>> /\ srv'["to"] = srv["to"]
        /\ Broken' \/ (MatchInv' /\ (x' = good \/ x' = bad))
    BY <2>1, <2>3, <2>4, FromAnswer DEF Likewise
  <2>6. Source' = Source /\ (Fine(file)' <=> Fine(file'))
    BY <2>5, SameJob
  <2>7. Quiet("to")'
    BY <2>5 DEF Quiet, Work, Answers
  <2>8. CASE x' = good \/ x' = bad
    <3>1. x'.requests = <<>> /\ x'.pc \in {"close_to", "done"} /\ (x'.status = "ok" => file = Source)
      BY <1>3, <2>2, <2>3, <2>4, <2>8 DEF Likewise, CrossDone
    <3>2. CrossDone'
      BY <1>3, <2>5, <2>6, <3>1 DEF CrossDone
    <3>3. CrossPhase'
      BY <2>7, <3>1, <3>2 DEF CrossPhase
    <3> QED BY <2>5, <2>8, <3>3
  <2> QED BY <2>5, <2>8
<1> QED BY <1>2, <1>3

OpenOf(t, a) == [Msg("open", 0) EXCEPT !.trunc = t, !.append = a]
IsOpen(m, t, a) == m \in ReqRec /\ m.op = "open" /\ m.trunc = t /\ m.append = a

LEMMA OpenMsg ==
    ASSUME NEW t \in BOOLEAN, NEW a \in BOOLEAN
    PROVE  IsOpen(OpenOf(t, a), t, a)
<1> DEFINE m == Msg("open", 0)
           w == OpenOf(t, a)
<1>1. m \in ReqRec /\ m.op = "open"
  BY MsgFacts DEF Op
<1>2. w = [m EXCEPT !.trunc = t, !.append = a]
  BY DEF OpenOf
<1> HIDE DEF m, w
<1>3. w \in ReqRec
  BY <1>1, <1>2, Zenon DEF ReqRec
<1>4. IsOpen(w, t, a)
  BY <1>1, <1>2, <1>3 DEF ReqRec, IsOpen
<1> QED BY <1>4 DEF w

\* The client of a crossload keeps its invariant.
LEMMA CrossClient ==
    ASSUME TypeInv, job.kind = "crossload", CrossInv, Client
    PROVE  TypeInv' /\ UNCHANGED job /\ (Broken' \/ CrossInv')
<1>0. MatchInv /\ ~srv["to"].append /\ CrossPhase
  BY DEF CrossInv
<1>1. CASE OpenFrom
  <2>1. Fresh /\ file = Before(job) /\ failed = 0 /\ Quiet("to")
    BY <1>0, <1>1 DEF CrossPhase, OpenFrom
  <2>2. "open" \in {"open", "close"} /\ "opening_from" \in PC
    BY DEF PC
  <2>3. /\ TypeInv' /\ MatchInv' /\ UNCHANGED <<job, file, interrupted, failed>>
        /\ Kept /\ x'.pc = "opening_from" /\ x'.status = x.status /\ x'.to_open = x.to_open
        /\ srv'["to"] = srv["to"]
    BY <1>0, <1>1, <2>2, FromCall DEF OpenFrom
  <2>4. Fresh' /\ Before(job)' = Before(job) /\ Quiet("to")'
    <3>1. Before(job)' = Before(job)
      BY <2>3, SameJob
    <3>2. Quiet("to")'
      BY <2>1, <2>3 DEF Quiet, Work, Answers
    <3> QED BY <2>1, <2>3, <3>1, <3>2 DEF Fresh, Kept
  <2> QED BY <1>0, <2>1, <2>3, <2>4 DEF CrossInv, CrossPhase
<1>2. CASE OpenedFrom
  <2>1. Fresh /\ file = Before(job) /\ failed = 0 /\ Quiet("to")
    BY <1>0, <1>2 DEF CrossPhase, OpenedFrom, Answered
  <2> QED BY <1>0, <1>2, <2>1, CrossFrom DEF CrossInv
<1>3. CASE OpenTo
  <2>1. Fresh /\ file = Before(job) /\ failed = 0 /\ Quiet("to")
    BY <1>0, <1>3 DEF CrossPhase, OpenTo
  <2> DEFINE msg == [Msg("open", 0) EXCEPT !.trunc = job.kind = "crossload" \/ ~(job.resume \/ job.inplace),
                                           !.append = job.kind = "upload" /\ job.resume]
  <2>2. Call("to", msg, "opening_to") /\ "opening_to" \in PC
    BY <1>3 DEF OpenTo, PC
  <2>3. msg = OpenOf(TRUE, FALSE)
    BY DEF OpenOf
  <2> HIDE DEF msg
  <2>4. msg \in ReqRec /\ msg.op = "open" /\ msg.trunc /\ ~msg.append
    BY <2>3, OpenMsg DEF IsOpen
  <2>5. /\ TypeInv' /\ UNCHANGED <<job, file, interrupted, failed>>
        /\ Kept /\ x'.pc = "opening_to" /\ x'.status = x.status /\ x'.to_open = x.to_open
        /\ srv'["from"] = srv["from"] /\ x'.msg_id["from"] = x.msg_id["from"]
        /\ srv'["to"].append = srv["to"].append
        /\ Calling("to")' /\ Told("to")' = {}
        /\ \A q \in Asked("to")' : q.op = msg.op /\ q.trunc = msg.trunc /\ q.append = msg.append
    BY <2>1, <2>2, <2>4, ToCall
  <2>6. Fresh'
    BY <2>1, <2>5 DEF Fresh, Kept
  <2>7. Truncating'
    BY <2>4, <2>5, <2>6 DEF Truncating, Fresh
  <2>8. MatchInv'
    BY <1>0, <2>5, MatchKept DEF Kept
  <2> QED BY <1>0, <2>5, <2>6, <2>7, <2>8 DEF CrossInv, CrossPhase
<1>4. CASE OpenedTo
  <2>1. Truncating /\ Fresh
    BY <1>0, <1>4 DEF CrossPhase, OpenedTo, Answered
  <2> QED BY <1>0, <1>4, <2>1, CrossOpenedTo DEF CrossInv
<1>5. CASE SendRequests
  <2>1. CrossLoop
    BY <1>0, <1>5 DEF CrossPhase, SendRequests
  <2> QED BY <1>0, <1>5, <2>1, CrossSent DEF CrossInv
<1>6. CASE EndLoop
  <2>1. CrossLoop /\ x.pc = "loop" /\ LoopEnds
    BY <1>0, <1>6 DEF CrossPhase, EndLoop
  <2>2. x' = GoesTo("drain") /\ UNCHANGED <<job, srv, file, interrupted, failed>> /\ "drain" \in PC
    BY <1>6 DEF EndLoop, GoesTo, PC
  <2>3. Likewise(x') /\ x'.pc = "drain"
    BY <2>2, PcFacts
  <2>4. TypeInv'
    BY <2>2, <2>3 DEF TypeInv, Likewise
  <2>5. MatchInv'
    BY <1>0, <2>2, <2>3, MatchKept DEF Likewise
  <2>6. Work("to")' = Work("to") /\ Answers("to")' = Answers("to") /\ Asked("to")' = Asked("to")
        /\ Told("to")' = Told("to") /\ Wanted' = Wanted /\ (Failing("to")' <=> Failing("to"))
    BY <2>2, <2>3 DEF Work, Answers, Asked, Told, Wanted, Likewise, Failing
  <2>7. CrossLoop' /\ Over'
    BY <2>1, <2>2, <2>3, <2>6 DEF CrossLoop, EndInv, Over, LoopEnds, Likewise
  <2> QED BY <1>0, <2>2, <2>3, <2>4, <2>5, <2>7 DEF CrossInv, CrossPhase
<1>7. CASE ReadReply
  <2>1. CrossLoop
    BY <1>0, <1>7 DEF CrossPhase, ReadReply
  <2> QED BY <1>0, <1>7, <2>1, CrossRead DEF CrossInv
<1>8. CASE Drain
  <2>1. CrossLoop /\ Over /\ x.pc = "drain"
    BY <1>0, <1>8 DEF CrossPhase, Drain
  <2> QED BY <1>0, <1>8, <2>1, CrossDrained DEF CrossInv
<1>9. ASSUME NEW p \in {"discarding", "closing_to"}, Quiet("to"), x.requests = <<>>, Call("to", Msg("close", 0), p),
             (p = "discarding" /\ x.status = "failure") \/ (p = "closing_to" /\ CrossDone)
      PROVE  TypeInv' /\ UNCHANGED job /\ CrossInv'
  <2> DEFINE msg == Msg("close", 0)
  <2>1. msg \in ReqRec /\ msg.op = "close" /\ p \in PC
    BY MsgFacts DEF Op, PC
  <2>2. Call("to", msg, p)
    BY <1>9
  <2> HIDE DEF msg
  <2>3. /\ TypeInv' /\ UNCHANGED <<job, file, interrupted, failed>>
        /\ Kept /\ x'.pc = p /\ x'.status = x.status /\ x'.to_open = x.to_open
        /\ srv'["from"] = srv["from"] /\ x'.msg_id["from"] = x.msg_id["from"]
        /\ srv'["to"].append = srv["to"].append
        /\ Calling("to")' /\ Told("to")' = {}
        /\ \A q \in Asked("to")' : q.op = msg.op
    BY <1>9, <2>1, <2>2, ToCall
  <2>4. Closing("to")'
    BY <2>1, <2>3 DEF Closing
  <2>5. MatchInv'
    BY <1>0, <2>3, MatchKept DEF Kept
  <2>6. Source' = Source /\ (Fine(file)' <=> Fine(file')) /\ x'.requests = <<>>
    BY <1>9, <2>3, SameJob DEF Kept
  <2>7. CrossDone => CrossDone'
    BY <2>3, <2>6 DEF CrossDone
  <2> QED BY <1>0, <1>9, <2>3, <2>4, <2>5, <2>6, <2>7 DEF CrossInv, CrossPhase
<1>10. CASE Discard
  <2>1. Quiet("to") /\ x.requests = <<>> /\ x.status = "failure"
    BY <1>0, <1>10 DEF CrossPhase, Discard
  <2> DEFINE p == "discarding"
  <2>2. /\ Call("to", Msg("close", 0), p) /\ p \in {"discarding", "closing_to"}
        /\ (p = "discarding" /\ x.status = "failure") \/ (p = "closing_to" /\ CrossDone)
    BY <1>10, <2>1 DEF Discard
  <2> HIDE DEF p
  <2> QED BY <1>9, <2>1, <2>2
<1>11. CASE Discarded
  <2>1. Closing("to") /\ x.requests = <<>> /\ x.status = "failure"
    BY <1>0, <1>11 DEF CrossPhase, Discarded, Answered
  <2> QED BY <1>0, <1>11, <2>1, CrossAnswered DEF CrossInv
<1>12. CASE Reopen
  <2>1. Quiet("to") /\ x.requests = <<>> /\ x.status = "failure"
    BY <1>0, <1>12 DEF CrossPhase, Reopen
  <2> DEFINE msg == [Msg("open", 0) EXCEPT !.trunc = TRUE]
  <2>2. Call("to", msg, "reopening") /\ "reopening" \in PC
    BY <1>12 DEF Reopen, PC
  <2>3. Msg("open", 0) \in ReqRec /\ Msg("open", 0).op = "open" /\ ~Msg("open", 0).append /\ TRUE \in BOOLEAN
    BY MsgFacts DEF Op
  <2>4. msg \in ReqRec /\ msg.op = "open" /\ msg.trunc /\ ~msg.append
    <3>1. msg \in ReqRec
      BY <2>3, Zenon DEF ReqRec
    <3> QED BY <2>3, <3>1 DEF ReqRec
  <2> HIDE DEF msg
  <2>5. /\ TypeInv' /\ UNCHANGED <<job, file, interrupted, failed>>
        /\ Kept /\ x'.pc = "reopening" /\ x'.status = x.status
        /\ srv'["from"] = srv["from"] /\ x'.msg_id["from"] = x.msg_id["from"]
        /\ srv'["to"].append = srv["to"].append
        /\ Calling("to")' /\ Told("to")' = {}
        /\ \A q \in Asked("to")' : q.op = msg.op /\ q.trunc = msg.trunc /\ q.append = msg.append
    BY <2>1, <2>2, <2>4, ToCall
  <2>6. Truncating'
    BY <2>1, <2>4, <2>5 DEF Truncating, Kept
  <2>7. MatchInv'
    BY <1>0, <2>5, MatchKept DEF Kept
  <2> QED BY <1>0, <2>1, <2>5, <2>6, <2>7 DEF CrossInv, CrossPhase
<1>13. CASE Reopened
  <2>1. Truncating /\ x.status = "failure"
    BY <1>0, <1>13 DEF CrossPhase, Reopened, Answered
  <2> QED BY <1>0, <1>13, <2>1, CrossReopened DEF CrossInv
<1>14. CASE CloseFrom
  <2>1. CrossDone /\ Quiet("to")
    BY <1>0, <1>14 DEF CrossPhase, CloseFrom
  <2>2. "close" \in {"open", "close"} /\ "closing_from" \in PC
    BY DEF PC
  <2>3. /\ TypeInv' /\ MatchInv' /\ UNCHANGED <<job, file, interrupted, failed>>
        /\ Kept /\ x'.pc = "closing_from" /\ x'.status = x.status
        /\ srv'["to"] = srv["to"]
    BY <1>0, <1>14, <2>2, FromCall DEF CloseFrom
  <2>4. Source' = Source /\ (Fine(file)' <=> Fine(file'))
    BY <2>3, SameJob
  <2>5. CrossDone'
    BY <2>1, <2>3, <2>4 DEF CrossDone, Kept
  <2>6. Quiet("to")'
    BY <2>1, <2>3 DEF Quiet, Work, Answers
  <2> QED BY <1>0, <2>3, <2>5, <2>6 DEF CrossInv, CrossPhase
<1>15. CASE ClosedFrom
  <2>1. CrossDone /\ Quiet("to")
    BY <1>0, <1>15 DEF CrossPhase, ClosedFrom, Answered
  <2> QED BY <1>0, <1>15, <2>1, CrossFrom DEF CrossInv
<1>16. CASE CloseTo
  <2>1. Quiet("to") /\ CrossDone
    BY <1>0, <1>16 DEF CrossPhase, CloseTo
  <2>2. Call("to", Msg("close", 0), "closing_to") /\ x.requests = <<>>
    BY <1>16, <2>1 DEF CloseTo, CrossDone
  <2> QED BY <1>9, <2>1, <2>2
<1>17. CASE ClosedTo
  <2>1. Closing("to") /\ CrossDone
    BY <1>0, <1>17 DEF CrossPhase, ClosedTo, Answered
  <2>2. x.requests = <<>>
    BY <2>1 DEF CrossDone
  <2> QED BY <1>0, <1>17, <2>1, <2>2, CrossAnswered DEF CrossInv
<1>18. x.pc \in {"open_from", "opening_from", "open_to", "opening_to", "loop", "wait", "drain", "discard", "discarding",
                 "reopen", "reopening", "close_from", "closing_from", "close_to", "closing_to", "done"}
  BY <1>0 DEF CrossPhase
<1>19. CASE \/ ResumeRefused \/ OpenLocal \/ Settle \/ UploadTurn \/ UploadAck \/ Uploaded \/ UploadTruncated
            \/ Finish \/ Finished
  BY <1>18, <1>19 DEF ResumeRefused, OpenLocal, Settle, UploadTurn, UploadAck, Uploaded, UploadTruncated, Finish,
       Finished, Answered
<1> QED BY <1>1, <1>2, <1>3, <1>4, <1>5, <1>6, <1>7, <1>8, <1>10, <1>11, <1>12, <1>13, <1>14, <1>15, <1>16,
           <1>17, <1>19 DEF Client

----------------------------------------------------------------------------
(* Uploads.                                                                *)

\* The writes that wait at the server follow each other, up to offset o.
Chain(w, o) ==
    \A i \in 1..Len(w) : /\ w[i].op = "write"
                         /\ w[i].off + w[i].len = IF i = Len(w) THEN o ELSE w[i + 1].off
FirstOff(w, o) == IF w = <<>> THEN o ELSE w[1].off

LEMMA ChainTail ==
    ASSUME NEW w \in Seq(ReqRec), w # <<>>, NEW o, Chain(w, o)
    PROVE  Chain(Tail(w), o) /\ FirstOff(Tail(w), o) = w[1].off + w[1].len /\ w[1].op = "write"
<1> DEFINE t == Tail(w)
<1>1. /\ t \in Seq(ReqRec) /\ Len(t) = Len(w) - 1 /\ Len(w) \in Nat /\ \A i \in 1..Len(w) - 1 : t[i] = w[i + 1]
  BY ElTail, ElType
<1>2. Len(w) > 0 /\ Len(t) \in Nat /\ (Len(t) = 0 <=> t = <<>>)
  <2>1. Len(w) # 0
    BY ElType
  <2>2. Len(t) \in Nat /\ (Len(t) = 0 <=> t = <<>>)
    BY <1>1, ElType
  <2> QED BY <1>1, <2>1, <2>2
<1> HIDE DEF t
<1>3. w[1].op = "write" /\ w[1].off + w[1].len = IF 1 = Len(w) THEN o ELSE w[2].off
  BY <1>1, <1>2 DEF Chain
<1>4. FirstOff(t, o) = w[1].off + w[1].len
  <2>1. CASE Len(w) = 1
    BY <1>1, <1>2, <1>3, <2>1 DEF FirstOff
  <2>2. CASE Len(w) # 1
    <3>1. 1 \in 1..Len(w) - 1 /\ t # <<>>
      BY <1>1, <1>2, <2>2
    <3>2. t[1] = w[1 + 1]
      BY <1>1, <3>1
    <3> QED BY <1>3, <2>2, <3>1, <3>2 DEF FirstOff
  <2> QED BY <2>1, <2>2
<1>5. ASSUME NEW i \in 1..Len(t)
      PROVE t[i].op = "write" /\ t[i].off + t[i].len = IF i = Len(t) THEN o ELSE t[i + 1].off
  <2>1. i \in 1..Len(w) - 1 /\ i + 1 \in 1..Len(w) /\ t[i] = w[i + 1] /\ (i = Len(t) <=> i + 1 = Len(w))
    BY <1>1, <1>2
  <2>2. w[i + 1].op = "write" /\ w[i + 1].off + w[i + 1].len = IF i + 1 = Len(w) THEN o ELSE w[i + 1 + 1].off
    BY <2>1 DEF Chain
  <2>3. i # Len(t) => t[i + 1] = w[i + 1 + 1]
    <3>1. i # Len(t) => i + 1 \in 1..Len(w) - 1
      BY <1>1, <1>2
    <3> QED BY <1>1, <3>1
  <2> QED BY <2>1, <2>2, <2>3
<1>6. Chain(t, o)
  BY <1>5 DEF Chain
<1> QED BY <1>3, <1>4, <1>6 DEF t

LEMMA ChainMore ==
    ASSUME NEW w \in Seq(ReqRec), NEW o \in Nat, Chain(w, o), NEW e \in ReqRec, e.op = "write", e.off = o
    PROVE  Chain(w \o <<e>>, o + e.len) /\ FirstOff(w \o <<e>>, o + e.len) = FirstOff(w, o)
<1> DEFINE v == w \o <<e>>
           n == Len(w)
<1>0. <<e>> \in Seq(ReqRec) /\ Len(<<e>>) = 1 /\ <<e>>[1] = e /\ n \in Nat
  BY ElType
<1>1. v \in Seq(ReqRec) /\ Len(v) = n + 1
  BY <1>0, ElCat
<1>2. /\ \A i \in 1..n : v[i] = w[i]
      /\ v[n + 1] = e
  <2>1. \A i \in 1..n + 1 : v[i] = IF i <= n THEN w[i] ELSE <<e>>[i - n]
    BY <1>0, ConcatProperties
  <2>2. \A i \in 1..n : i \in 1..n + 1 /\ i <= n
    BY <1>0
  <2>3. n + 1 \in 1..n + 1 /\ ~(n + 1 <= n) /\ (n + 1) - n = 1
    BY <1>0
  <2> HIDE DEF v, n
  <2>4. v[n + 1] = <<e>>[1]
    BY <2>1, <2>3
  <2> QED BY <1>0, <2>1, <2>2, <2>4
<1>3. (w = <<>> <=> n = 0) /\ v # <<>>
  <2>1. v # <<>>
    BY <1>0, <1>1
  <2> QED BY <2>1, ElType
<1>4. \A i \in 1..n : w[i].op = "write" /\ w[i].off + w[i].len = IF i = n THEN o ELSE w[i + 1].off
  BY DEF Chain
<1> HIDE DEF v, n
<1>5. ASSUME NEW i \in 1..n + 1
      PROVE  v[i].op = "write" /\ v[i].off + v[i].len = IF i = n + 1 THEN o + e.len ELSE v[i + 1].off
  <2>1. CASE i = n + 1
    BY <1>2, <2>1
  <2>2. CASE i = n
    <3>1. i \in 1..n /\ i # n + 1 /\ v[i + 1] = e /\ v[i] = w[i]
      BY <1>0, <1>2, <2>2
    <3> QED BY <1>4, <2>2, <3>1
  <2>3. CASE i # n + 1 /\ i # n
    <3>1. i \in 1..n /\ i + 1 \in 1..n
      BY <1>0, <2>3
    <3> QED BY <1>2, <1>4, <2>3, <3>1
  <2> QED BY <2>1, <2>2, <2>3
<1>6. Chain(v, o + e.len)
  BY <1>1, <1>5 DEF Chain
<1>7. FirstOff(v, o + e.len) = FirstOff(w, o)
  <2>1. CASE n = 0
    BY <1>2, <1>3, <2>1 DEF FirstOff
  <2>2. CASE n # 0
    <3>1. 1 \in 1..n
      BY <1>0, <2>2
    <3> QED BY <1>2, <1>3, <2>2, <3>1 DEF FirstOff
  <2> QED BY <2>1, <2>2
<1> QED BY <1>6, <1>7 DEF v

\* The invariant in these terms.
UpRest ==
    /\ srv["to"].append = job.resume
    /\ \A m \in Told("to") : m.type \in {"OK", "FAILURE"}
    /\ Len(x.requests) = Len(Work("to")) + Len(Answers("to"))
    /\ failed > 0 <=> x.write_error \/ Failing("to")
    /\ Start <= x.offset /\ x.offset <= job.size /\ (job.resume => job.old < job.size)
    /\ \A r \in Wanted : r.off + r.len <= x.offset
    /\ x.maxack <= x.offset /\ x.highwater <= x.offset
    /\ \/ x.offset = Start \/ x.offset = x.maxack
       \/ \E r \in Wanted : r.off + r.len = x.offset
UpFile(f, n) == /\ \A b \in 1..n : Good(f, b)
                /\ job.resume \/ ~job.inplace => Len(f) = n

LEMMA UpLoopParts ==
    UpLoop <=> /\ UpRest /\ Chain(Work("to"), x.offset)
               /\ (failed = 0 => UpFile(file, FirstOff(Work("to"), x.offset)))
<1>1. Reached = FirstOff(Work("to"), x.offset)
  BY DEF Reached, FirstOff
<1> DEFINE c == Chain(Work("to"), x.offset)
           r == FirstOff(Work("to"), x.offset)
<1>2. c <=> \A i \in 1..Len(Work("to")) :
          /\ Work("to")[i].op = "write"
          /\ Work("to")[i].off + Work("to")[i].len =
                IF i = Len(Work("to")) THEN x.offset ELSE Work("to")[i + 1].off
  BY DEF Chain
<1> HIDE DEF c, r
<1>3. Reached = r
  BY <1>1 DEF r
<1>4. UpLoop <=> UpRest /\ c /\ (failed = 0 => UpFile(file, r))
  BY <1>2, <1>3 DEF UpLoop, UpRest, UpFile
<1> QED BY <1>4 DEF c, r

\* The server of an upload writes a block.
LEMMA UpWritten ==
    ASSUME TypeInv, TypeInv', UpLoop, UNCHANGED <<job, x, interrupted>>, NEW q, NEW d, Served(q, d)
    PROVE  UpLoop'
<1>0. "to" \in Servers
  BY DEF Servers
<1>1. /\ q \in ReqRec /\ q = Head(Work("to")) /\ Processed("to", q, d) /\ d.reply \in RepRec
      /\ Work("to") # <<>> /\ Work("to")' = Tail(Work("to")) /\ Len(Work("to")') = Len(Work("to")) - 1
      /\ Told("to")' = Told("to") \cup {d.reply} /\ Len(Answers("to")') = Len(Answers("to")) + 1
      /\ srv'["to"].append = d.append /\ file' = d.file
      /\ failed' = IF d.reply.type = "FAILURE" THEN failed + 1 ELSE failed
  BY DEF Served
<1>2. /\ UpRest /\ Chain(Work("to"), x.offset)
      /\ (failed = 0 => UpFile(file, FirstOff(Work("to"), x.offset)))
  BY UpLoopParts
<1>3. Work("to") \in Seq(ReqRec) /\ Len(Work("to")) \in Nat /\ Len(Answers("to")) \in Nat /\ q = Work("to")[1]
  BY <1>0, <1>1, QueueTypes, ElTail
<1>4. /\ Chain(Tail(Work("to")), x.offset) /\ FirstOff(Tail(Work("to")), x.offset) = q.off + q.len
      /\ q.op = "write" /\ FirstOff(Work("to"), x.offset) = q.off
  <2> DEFINE w == Work("to")
             o == x.offset
  <2>1. w \in Seq(ReqRec) /\ w # <<>> /\ Chain(w, o)
    BY <1>1, <1>2, <1>3
  <2> HIDE DEF w, o
  <2>2. Chain(Tail(w), o) /\ FirstOff(Tail(w), o) = w[1].off + w[1].len /\ w[1].op = "write"
    BY ONLY <2>1, ChainTail
  <2>3. FirstOff(w, o) = w[1].off
    BY <2>1 DEF FirstOff
  <2> QED BY <1>3, <2>2, <2>3 DEF w, o
<1>5. q.off \in Nat /\ q.len \in Nat /\ file \in Seq(Int) /\ Len(file) \in Nat /\ failed \in Nat
  BY <1>1, LocalTypes DEF ReqRec
<1> DEFINE at == IF srv["to"].append THEN Len(file) ELSE q.off
<1>6. /\ d.append = srv["to"].append
      /\ \/ d.reply.type = "OK" /\ d.file = Written(file, at, q.off, q.len)
         \/ d.reply.type = "FAILURE"
  BY <1>1, <1>4 DEF Processed
<1>7. ASSUME failed' = 0 PROVE UpFile(file', q.off + q.len)
  <2>1. failed = 0 /\ d.reply.type = "OK"
    BY <1>1, <1>5, <1>6, <1>7
  <2>2. (\A b \in 1..q.off : Good(file, b)) /\ (job.resume \/ ~job.inplace => Len(file) = q.off)
    BY <1>2, <1>4, <2>1 DEF UpFile
  <2>3. at = q.off
    BY <1>2, <2>2 DEF UpRest
  <2>4. file' = Written(file, q.off, q.off, q.len)
    BY <1>1, <1>6, <2>1, <2>3
  <2>5. /\ Len(file') = (IF q.len > 0 /\ q.off + q.len > Len(file) THEN q.off + q.len ELSE Len(file))
        /\ \A b : Good(file, b) \/ (b \in Nat /\ q.off < b /\ b <= q.off + q.len) => Good(file', b)
    BY <1>5, <2>4, WrittenFacts
  <2>6. ASSUME NEW b \in 1..q.off + q.len PROVE Good(file', b)
    <3>1. b \in Nat /\ (b \in 1..q.off \/ (q.off < b /\ b <= q.off + q.len))
      BY ONLY <1>5, b \in 1..q.off + q.len
    <3> QED BY <2>2, <2>5, <3>1
  <2>7. job.resume \/ ~job.inplace => Len(file') = q.off + q.len
    BY <1>5, <2>2, <2>5
  <2> QED BY <2>6, <2>7 DEF UpFile
<1>8. failed' > 0 <=> x'.write_error \/ Failing("to")'
  <2>1. failed > 0 <=> x.write_error \/ Failing("to")
    BY <1>2 DEF UpRest
  <2>2. Failing("to")' <=> Failing("to") \/ d.reply.type = "FAILURE"
    BY <1>1 DEF Failing
  <2>3. failed' > 0 <=> failed > 0 \/ d.reply.type = "FAILURE"
    BY <1>1, <1>5
  <2> QED BY <2>1, <2>2, <2>3
<1>9. Len(x'.requests) = Len(Work("to")') + Len(Answers("to")')
  <2> DEFINE w == Len(Work("to"))
             a == Len(Answers("to"))
             l == Len(x.requests)
             w2 == Len(Work("to")')
             a2 == Len(Answers("to")')
  <2>1. w \in Nat /\ a \in Nat /\ l = w + a /\ w2 = w - 1 /\ a2 = a + 1 /\ Len(x'.requests) = l
    BY <1>1, <1>2, <1>3 DEF UpRest
  <2> HIDE DEF w, a, l, w2, a2
  <2>2. l = w2 + a2
    BY ONLY <2>1
  <2> QED BY <2>1, <2>2 DEF w2, a2
<1>10. UpRest'
  <2>1. Wanted' = Wanted /\ Start' = Start
    BY SameJob DEF Wanted
  <2>2. \A m \in Told("to")' : m.type \in {"OK", "FAILURE"}
    BY <1>1, <1>2, <1>6 DEF UpRest
  <2>3. srv'["to"].append = job.resume
    BY <1>1, <1>2, <1>6 DEF UpRest
  <2> QED BY <1>2, <1>8, <1>9, <2>1, <2>2, <2>3 DEF UpRest
<1>11. Chain(Work("to"), x.offset)' /\ FirstOff(Work("to"), x.offset)' = q.off + q.len
  <2>1. Chain(Work("to"), x.offset)' <=> Chain(Work("to")', x'.offset)
    BY DEF Chain
  <2>2. FirstOff(Work("to"), x.offset)' = FirstOff(Work("to")', x'.offset)
    BY DEF FirstOff
  <2> QED BY <1>1, <1>4, <2>1, <2>2
<1>12. (failed = 0 => UpFile(file, FirstOff(Work("to"), x.offset)))'
  <2> DEFINE n == q.off + q.len
  <2>1. failed' = 0 => UpFile(file', n)
    BY <1>7
  <2>2. FirstOff(Work("to"), x.offset)' = n
    BY <1>11
  <2> HIDE DEF n
  <2>3. UpFile(file', n) => UpFile(file, FirstOff(Work("to"), x.offset))'
    BY <2>2 DEF UpFile
  <2> QED BY <2>1, <2>3
<1> QED BY <1>10, <1>11, <1>12, UpLoopParts, PTL

\* The file is being opened: empty, unless the upload resumes or writes in place.
OpeningTo ==
    /\ x.pc = "opening_to" /\ Calling("to") /\ Fresh /\ (job.resume => job.old < job.size)
    /\ \A q \in Asked("to") : /\ q.op = "open" /\ q.append = job.resume
                              /\ q.trunc = ~(job.resume \/ job.inplace)
                              /\ file = Before(job) /\ failed = 0
    /\ \A m \in Told("to") :
          \/ /\ m.type = "HANDLE" /\ srv["to"].append = job.resume /\ failed = 0
             /\ file = IF job.resume \/ job.inplace THEN Before(job) ELSE <<>>
          \/ m.type = "FAILURE" /\ failed > 0
ResizingTo ==
    /\ x.pc = "truncating" /\ Calling("to")
    /\ \A q \in Asked("to") : q.op = "fsetstat" /\ UpFinal(Truncated(file, q.len)) /\ UpTail
    /\ \A m \in Told("to") : (m.type = "OK" /\ UpFinal(file)) \/ (m.type = "FAILURE" /\ UpUncut)

LEMMA UpPhases ==
    UpPhase <=> \/ x.pc = "open_to" /\ Quiet("to") /\ Fresh /\ file = Before(job) /\ failed = 0
                \/ OpeningTo
                \/ x.pc \in {"up", "ack"} /\ UpLoop
                \/ /\ x.pc = "uploaded" /\ UpLoop /\ x.requests = <<>>
                   /\ interrupted \/ x.write_error \/ x.offset = job.size
                \/ ResizingTo
                \/ x.pc \in {"finish", "done"} /\ Quiet("to") /\ UpResult
                \/ x.pc = "finishing" /\ Closing("to") /\ UpResult
  BY DEF UpPhase, OpeningTo, ResizingTo

\* What the file must be in the end.
LEMMA FinalPrime ==
    ASSUME UNCHANGED job
    PROVE  UpFinal(file)' <=> /\ x'.status = "ok" /\ ~interrupted' => file' = Source
                              /\ failed' = 0 => Fine(file')
<1>1. Source' = Source /\ (Fine(file)' <=> Fine(file'))
  BY SameJob
<1> QED BY <1>1 DEF UpFinal

\* It stays so when the file is closed, or a signal arrives.
LEMMA ResultKept ==
    ASSUME UNCHANGED <<job, file>>, x'.uncut = x.uncut, x'.status = "ok" => x.status = "ok",
           interrupted => interrupted', failed' = 0 => failed = 0
    PROVE  (UpTail => UpTail') /\ (UpUncut => UpUncut') /\ (UpResult => UpResult')
<1>1. Followed' <=> Followed
  BY SameJob DEF Followed
<1>2. UpTail => UpTail'
  BY <1>1 DEF UpTail
<1>3. UpUncut => UpUncut'
  BY <1>2 DEF UpUncut
<1>4. UpFinal(file) => UpFinal(file)'
  BY FinalPrime DEF UpFinal
<1> QED BY <1>2, <1>3, <1>4 DEF UpResult

\* The upload's invariant does not see where requests and replies are queued.
LEMMA UpKept ==
    ASSUME UNCHANGED <<job, x, interrupted, file, failed>>, Work("to")' = Work("to"), Answers("to")' = Answers("to"),
           srv'["to"].append = srv["to"].append, UpPhase
    PROVE  UpPhase'
<1>1. /\ (Quiet("to")' <=> Quiet("to")) /\ (Calling("to")' <=> Calling("to")) /\ Asked("to")' = Asked("to")
      /\ Told("to")' = Told("to") /\ Wanted' = Wanted /\ (Fresh' <=> Fresh)
      /\ Before(job)' = Before(job) /\ Source' = Source /\ (Fine(file)' <=> Fine(file)) /\ Start' = Start
  BY ToKept
<1>2. UpLoop => UpLoop'
  <2>1. Reached' = Reached /\ (Failing("to")' <=> Failing("to"))
    BY <1>1 DEF Reached, Failing
  <2>2. (\A b \in 1..Reached : Good(file, b))' <=> \A b \in 1..Reached : Good(file, b)
    BY <2>1 DEF Good
  <2> QED BY <1>1, <2>1, <2>2 DEF UpLoop
<1>3. OpeningTo => OpeningTo'
  BY <1>1 DEF OpeningTo
<1>4. UpFinal(file) => UpFinal(file)'
  BY <1>1 DEF UpFinal
<1>5. ASSUME NEW q, UpFinal(Truncated(file, q.len)) PROVE UpFinal(Truncated(file, q.len))'
  <2>1. Truncated(file, q.len)' = Truncated(file, q.len)
    BY DEF Truncated
  <2>2. Fine(Truncated(file, q.len))' <=> Fine(Truncated(file, q.len))
    BY <1>1, <2>1 DEF Fine
  <2> QED BY <1>1, <1>5, <2>1, <2>2 DEF UpFinal
<1>a. (UpTail => UpTail') /\ (UpUncut => UpUncut') /\ (UpResult => UpResult')
  BY ResultKept
<1>6. ResizingTo => ResizingTo'
  BY <1>1, <1>4, <1>5, <1>a DEF ResizingTo
<1>7. Closing("to") => Closing("to")'
  BY <1>1 DEF Closing
<1>8. CASE OpeningTo
  <2>1. OpeningTo'
    BY <1>3, <1>8
  <2> QED BY <2>1, UpPhases, PTL
<1>9. CASE ResizingTo
  <2>1. ResizingTo'
    BY <1>6, <1>9
  <2> QED BY <2>1, UpPhases, PTL
<1>10. CASE ~OpeningTo /\ ~ResizingTo
  <2>1. \/ x.pc = "open_to" /\ Quiet("to") /\ Fresh /\ file = Before(job) /\ failed = 0
        \/ x.pc \in {"up", "ack"} /\ UpLoop
        \/ /\ x.pc = "uploaded" /\ UpLoop /\ x.requests = <<>>
           /\ interrupted \/ x.write_error \/ x.offset = job.size
        \/ x.pc \in {"finish", "done"} /\ Quiet("to") /\ UpResult
        \/ x.pc = "finishing" /\ Closing("to") /\ UpResult
    BY <1>10, UpPhases
  <2> QED BY <1>1, <1>2, <1>a, <1>7, <2>1 DEF UpPhase
<1> QED BY <1>8, <1>9, <1>10

LEMMA OpenServed ==
    ASSUME TypeInv, OpeningTo, UNCHANGED <<job, x>>, NEW q, NEW d, Served(q, d)
    PROVE  OpeningTo'
<1>1. Calling("to")' /\ Asked("to")' = {} /\ Told("to")' = {d.reply}
  BY LastServed DEF OpeningTo
<1>2. q \in Asked("to") /\ Processed("to", q, d) /\ srv'["to"].append = d.append /\ file' = d.file
      /\ failed' = IF d.reply.type = "FAILURE" THEN failed + 1 ELSE failed
  BY DEF Served
<1>3. q.op = "open" /\ q.append = job.resume /\ q.trunc = ~(job.resume \/ job.inplace)
      /\ file = Before(job) /\ failed = 0
  BY <1>2 DEF OpeningTo
<1>4. \/ d.reply.type = "HANDLE" /\ d.append = q.append /\ d.file = (IF q.trunc THEN <<>> ELSE file)
      \/ d.reply.type = "FAILURE"
  BY <1>2, <1>3 DEF Processed
<1>5. Before(job)' = Before(job) /\ (Fresh' <=> Fresh)
  BY SameJob DEF Fresh
<1>6. \/ /\ d.reply.type = "HANDLE" /\ srv'["to"].append = job.resume /\ failed' = 0
         /\ file' = IF job.resume \/ job.inplace THEN Before(job) ELSE <<>>
      \/ d.reply.type = "FAILURE" /\ failed' > 0
  <2>1. CASE d.reply.type = "HANDLE"
    BY <1>2, <1>3, <1>4, <2>1
  <2>2. CASE d.reply.type = "FAILURE"
    BY <1>2, <1>3, <2>2
  <2> QED BY <1>4, <2>1, <2>2
<1> QED BY <1>1, <1>5, <1>6 DEF OpeningTo

LEMMA ResizeServed ==
    ASSUME TypeInv, ResizingTo, UNCHANGED <<job, x, interrupted>>, NEW q, NEW d, Served(q, d)
    PROVE  ResizingTo'
<1>1. Calling("to")' /\ Asked("to")' = {} /\ Told("to")' = {d.reply}
  BY LastServed DEF ResizingTo
<1>2. q \in Asked("to") /\ Processed("to", q, d) /\ file' = d.file
      /\ failed' = IF d.reply.type = "FAILURE" THEN failed + 1 ELSE failed
  BY DEF Served
<1>3. q.op = "fsetstat" /\ UpFinal(Truncated(file, q.len)) /\ UpTail
  BY <1>2 DEF ResizingTo
<1>4. \/ d.reply.type = "OK" /\ d.file = Truncated(file, q.len)
      \/ d.reply.type = "FAILURE" /\ d.file = file
  BY <1>2, <1>3 DEF Processed
<1>5. CASE d.reply.type = "OK" /\ d.file = Truncated(file, q.len)
  <2>1. UpFinal(file') /\ failed' = failed
    BY <1>2, <1>3, <1>5
  <2>2. UpFinal(file)'
    BY <2>1, FinalPrime DEF UpFinal
  <2> QED BY <1>1, <1>5, <2>2 DEF ResizingTo
<1>6. CASE d.reply.type = "FAILURE" /\ d.file = file
  <2>1. failed \in Nat /\ failed' = failed + 1 /\ file' = file
    BY <1>2, <1>6 DEF TypeInv
  <2>2. failed' # 0
    BY <2>1
  <2>3. UpTail'
    BY <1>3, <2>1, <2>2, ResultKept
  <2>4. UpUncut'
    BY <2>2, <2>3 DEF UpUncut
  <2> QED BY <1>1, <1>6, <2>4 DEF ResizingTo
<1> QED BY <1>4, <1>5, <1>6

\* A server that nobody has asked anything does nothing.
LEMMA IdleStays ==
    ASSUME NEW s, srv[s] = Idle
    PROVE  ~ServerTurn(s)
  BY IdleFacts DEF ServerTurn, PollReturns

LEMMA UpTurn ==
    ASSUME TypeInv, UpInv, NEW s \in Servers, ServerTurn(s)
    PROVE  TypeInv' /\ UpInv'
<1>1. s = "to" /\ UpPhase /\ srv["from"] = Idle
  BY IdleStays DEF UpInv, Servers
<1>2. /\ TypeInv' /\ UNCHANGED <<job, x, interrupted>> /\ srv'["from"] = srv["from"]
      /\ Moves("to") \/ \E q, d : Served(q, d)
  BY <1>1, ToTurn
<1>3. CASE Moves("to")
  <2>1. UpPhase'
    BY <1>1, <1>2, <1>3, UpKept DEF Moves
  <2> QED BY <1>1, <1>2, <2>1 DEF UpInv
<1>4. ASSUME NEW q, NEW d, Served(q, d) PROVE UpPhase'
  <2>1. Work("to") # <<>>
    BY <1>4 DEF Served
  <2>2. ~Quiet("to")
    BY <2>1 DEF Quiet
  <2>3. CASE OpeningTo
    <3>1. OpeningTo'
      BY <1>2, <1>4, <2>3, OpenServed
    <3> QED BY <3>1, UpPhases, PTL
  <2>4. CASE x.pc \in {"up", "ack"} /\ UpLoop
    <3>1. UpLoop'
      BY <1>2, <1>4, <2>4, UpWritten
    <3> QED BY <1>2, <2>4, <3>1 DEF UpPhase
  <2>5. CASE /\ x.pc = "uploaded" /\ UpLoop /\ x.requests = <<>>
             /\ interrupted \/ x.write_error \/ x.offset = job.size
    <3>1. UpLoop'
      BY <1>2, <1>4, <2>5, UpWritten
    <3> QED BY <1>2, <2>5, <3>1 DEF UpPhase
  <2>6. CASE ResizingTo
    <3>1. ResizingTo'
      BY <1>2, <1>4, <2>6, ResizeServed
    <3> QED BY <3>1, UpPhases, PTL
  <2>7. CASE x.pc = "finishing" /\ Closing("to") /\ UpResult
    <3>1. Closing("to")' /\ file' = file /\ (failed' = 0 => failed = 0)
      BY <1>4, <2>7, CloseServed
    <3>2. UpResult'
      BY <1>2, <2>7, <3>1, ResultKept
    <3> QED BY <1>2, <2>7, <3>1, <3>2 DEF UpPhase
  <2> QED BY <1>1, <2>2, <2>3, <2>4, <2>5, <2>6, <2>7, UpPhases
<1> QED BY <1>1, <1>2, <1>3, <1>4 DEF UpInv

\* The client sends one request to "to".
LEMMA ToSend ==
    ASSUME TypeInv, NEW m \in ReqRec, Transmit("to", <<m>>)
    PROVE  /\ srv' \in [Servers -> Server] /\ srv'["from"] = srv["from"]
           /\ srv'["to"].append = srv["to"].append
           /\ Work("to")' = Work("to") \o <<m>> /\ Len(Work("to")') = Len(Work("to")) + 1
           /\ Asked("to")' = Asked("to") \cup {m}
           /\ Answers("to")' = Answers("to") /\ Told("to")' = Told("to")
<1>0. "to" \in Servers /\ "from" \in Servers /\ "from" # "to"
  BY DEF Servers
<1> DEFINE r == [srv["to"] EXCEPT !.in = @ \o <<m>>]
<1>1. srv' = [srv EXCEPT !["to"].in = @ \o <<m>>]
  BY DEF Transmit
<1>2. <<m>> \in Seq(ReqRec) /\ Len(<<m>>) = 1 /\ El(<<m>>) = {m}
  BY DEF El
<1>3. srv["to"] \in Server /\ srv["to"].in \in Seq(ReqRec) /\ srv["to"].in \o <<m>> \in Seq(ReqRec)
  <2>1. srv["to"] \in Server /\ srv["to"].in \in Seq(ReqRec)
    BY <1>0 DEF TypeInv, Server
  <2> QED BY <1>2, <2>1, ElCat
<1>4. /\ r \in Server /\ r.in = srv["to"].in \o <<m>> /\ r.iqueue = srv["to"].iqueue /\ r.out = srv["to"].out
      /\ r.oqueue = srv["to"].oqueue /\ r.append = srv["to"].append
  BY <1>3 DEF Server
<1>5. srv' = [srv EXCEPT !["to"] = r]
  BY <1>0, <1>1 DEF TypeInv
<1> HIDE DEF r
<1>6. srv' \in [Servers -> Server] /\ srv'["to"] = r /\ srv'["from"] = srv["from"]
  BY <1>0, <1>4, <1>5 DEF TypeInv
<1>7. /\ Len(Work("to")') = Len(Work("to")) + 1 /\ Asked("to")' = Asked("to") \cup {m}
      /\ Answers("to")' = Answers("to") /\ Told("to")' = Told("to") /\ Work("to")' = Work("to") \o <<m>>
  BY <1>0, <1>2, <1>4, <1>6, SendEffect
<1> QED BY <1>4, <1>6, <1>7

\* It takes one of the replies of "to".
LEMMA ToTake ==
    ASSUME TypeInv, NEW i \in Replies("to"), TakeReply("to", i)
    PROVE  /\ srv' \in [Servers -> Server] /\ srv'["from"] = srv["from"]
           /\ srv'["to"].append = srv["to"].append /\ Work("to")' = Work("to")
           /\ srv["to"].out[i] \in Told("to") /\ srv["to"].out[i] \in RepRec
           /\ Len(Answers("to")') = Len(Answers("to")) - 1
           /\ Told("to")' \subseteq Told("to") /\ Told("to") \subseteq Told("to")' \cup {srv["to"].out[i]}
<1>0. "to" \in Servers /\ "from" \in Servers /\ "from" # "to"
  BY DEF Servers
<1>1. srv' = [srv EXCEPT !["to"].out = RemoveAt(@, i)]
  BY DEF TakeReply
<1>2. srv["to"] \in Server /\ srv["to"].out \in Seq(RepRec) /\ i \in 1..Len(srv["to"].out)
  <2>1. srv["to"] \in Server /\ srv["to"].out \in Seq(RepRec)
    BY <1>0 DEF TypeInv, Server
  <2>2. /\ Len(srv["to"].out) \in Nat /\ (Len(srv["to"].out) = 0 <=> srv["to"].out = <<>>)
        /\ DOMAIN srv["to"].out = 1..Len(srv["to"].out)
    BY <2>1, ElType
  <2> QED BY <2>1, <2>2 DEF Replies
<1> DEFINE r == [srv["to"] EXCEPT !.out = RemoveAt(@, i)]
<1>3. RemoveAt(srv["to"].out, i) \in Seq(RepRec)
  BY <1>2, ElRemoveAt
<1>4. /\ r \in Server /\ r.in = srv["to"].in /\ r.iqueue = srv["to"].iqueue /\ r.out = RemoveAt(srv["to"].out, i)
      /\ r.oqueue = srv["to"].oqueue /\ r.append = srv["to"].append
  BY <1>2, <1>3 DEF Server
<1>5. srv' = [srv EXCEPT !["to"] = r]
  BY <1>0, <1>1 DEF TypeInv
<1> HIDE DEF r
<1>6. srv' \in [Servers -> Server] /\ srv'["to"] = r /\ srv'["from"] = srv["from"]
  BY <1>0, <1>4, <1>5 DEF TypeInv
<1>7. /\ srv["to"].out[i] \in Told("to") /\ srv["to"].out[i] \in RepRec
      /\ Len(Answers("to")') = Len(Answers("to")) - 1
      /\ Told("to")' \subseteq Told("to") /\ Told("to") \subseteq Told("to")' \cup {srv["to"].out[i]}
  BY <1>0, <1>2, <1>4, <1>6, TakeEffect
<1>8. Work("to")' = Work("to")
  BY <1>4, <1>6 DEF Work
<1> QED BY <1>4, <1>6, <1>7, <1>8

\* The client of an upload sends a block.
LEMMA UpSent ==
    ASSUME TypeInv, UpLoop, UploadTurn, BlockLen > 0
    PROVE  TypeInv' /\ UNCHANGED job /\ srv'["from"] = srv["from"] /\ UpPhase'
<1>0. "to" \in Servers
  BY DEF Servers
<1> DEFINE n == BlockLen
           id == x.id + 1
           o == x.offset
           wr == [Msg("write", id) EXCEPT !.off = o, !.len = n]
           blk == [id |-> id, off |-> o, len |-> n]
           p == IF id = x.startid \/ id - x.ackid >= NumRequests THEN "ack" ELSE "up"
           rq == Append(x.requests, blk)
<1>1. /\ Transmit("to", <<wr>>) /\ UNCHANGED <<job, file, interrupted, failed>>
      /\ x' = [x EXCEPT !.id = id, !.requests = Append(@, blk), !.offset = @ + n, !.pc = p]
  BY DEF UploadTurn
<1>2. UpRest /\ Chain(Work("to"), o) /\ (failed = 0 => UpFile(file, FirstOff(Work("to"), o)))
  BY UpLoopParts
<1>3. x.offset \in Nat /\ job.size \in Nat /\ x.id \in Nat /\ x.requests \in Seq(Block) /\ BufLen \in Nat
  BY LocalTypes, SftpAssumption
<1>4. n \in Nat /\ n > 0 /\ o + n <= job.size /\ id \in Nat /\ o \in Nat
  <2>1. o <= job.size
    BY <1>2 DEF UpRest
  <2>2. ~interrupted /\ ~x.write_error /\ (n = job.size - o \/ (n = BufLen /\ ~(job.size - o < BufLen)))
    BY DEF BlockLen
  <2>3. n > 0
    OBVIOUS
  <2> HIDE DEF n, o
  <2>4. o \in Nat /\ job.size \in Nat /\ BufLen \in Nat
    BY <1>3 DEF o
  <2>5. n \in Nat /\ o + n <= job.size
    BY ONLY <2>1, <2>2, <2>3, <2>4
  <2> QED BY <1>3, <2>3, <2>4, <2>5
<1>5. p \in PC /\ p \in {"up", "ack"}
  BY DEF PC
<1> HIDE DEF n, p
<1>6. wr \in ReqRec /\ wr.op = "write" /\ wr.off = o /\ wr.len = n
  <2>1. wr = WriteOf(id, o, n)
    BY DEF WriteOf
  <2> HIDE DEF id, o, wr
  <2>2. IsWrite(WriteOf(id, o, n), o, n)
    BY ONLY <1>4, WriteMsg
  <2> QED BY <2>1, <2>2 DEF IsWrite
<1> HIDE DEF wr
<1>7. /\ srv' \in [Servers -> Server] /\ srv'["from"] = srv["from"]
      /\ srv'["to"].append = srv["to"].append
      /\ Work("to")' = Work("to") \o <<wr>> /\ Len(Work("to")') = Len(Work("to")) + 1
      /\ Answers("to")' = Answers("to") /\ Told("to")' = Told("to")
  BY <1>1, <1>6, ToSend
<1>8. blk \in Block /\ blk.off = o /\ blk.len = n
  BY <1>4 DEF Block
<1> HIDE DEF blk
<1>9. rq \in Seq(Block) /\ Len(rq) = Len(x.requests) + 1 /\ El(rq) = Wanted \cup {blk}
  BY <1>3, <1>8, ElAppend DEF Wanted
<1> HIDE DEF rq, id, o
<1>10. x' = [x EXCEPT !.id = id, !.requests = rq, !.offset = o + n, !.pc = p] /\ o + n \in Nat /\ x \in Locals
  <2>1. x \in Locals
    BY DEF TypeInv
  <2> QED BY <1>1, <1>4, <2>1 DEF rq, o, Locals
<1>11. x' \in Locals
  BY <1>4, <1>5, <1>9, <1>10, Zenon DEF Locals
<1>12. /\ x'.pc = p /\ x'.requests = rq /\ x'.offset = o + n /\ x'.write_error = x.write_error
       /\ x'.maxack = x.maxack /\ x'.highwater = x.highwater
  BY <1>10 DEF Locals
<1>13. TypeInv'
  BY <1>1, <1>7, <1>11 DEF TypeInv
<1>14. Wanted' = Wanted \cup {blk} /\ Start' = Start
  BY <1>1, <1>9, <1>12, SameJob DEF Wanted
<1>15. Chain(Work("to"), x.offset)' /\ FirstOff(Work("to"), x.offset)' = FirstOff(Work("to"), o)
  <2> DEFINE w == Work("to")
  <2>1. w \in Seq(ReqRec) /\ Chain(w, o)
    BY <1>0, <1>2, QueueTypes
  <2> HIDE DEF w
  <2>2. Chain(w \o <<wr>>, o + wr.len) /\ FirstOff(w \o <<wr>>, o + wr.len) = FirstOff(w, o)
    BY ONLY <1>4, <1>6, <2>1, ChainMore
  <2>3. Chain(Work("to"), x.offset)' <=> Chain(Work("to")', x'.offset)
    BY DEF Chain
  <2>4. FirstOff(Work("to"), x.offset)' = FirstOff(Work("to")', x'.offset)
    BY DEF FirstOff
  <2>5. Work("to")' = w \o <<wr>> /\ x'.offset = o + wr.len
    BY <1>6, <1>7, <1>12 DEF w
  <2> QED BY <2>2, <2>3, <2>4, <2>5 DEF w
<1>16. UpRest'
  <2>1. Len(x'.requests) = Len(Work("to")') + Len(Answers("to")')
    <3> DEFINE w == Len(Work("to"))
               a == Len(Answers("to"))
               l == Len(x.requests)
               w2 == Len(Work("to")')
               a2 == Len(Answers("to")')
               l2 == Len(x'.requests)
    <3>1. w \in Nat /\ a \in Nat /\ l = w + a /\ w2 = w + 1 /\ a2 = a /\ l2 = l + 1
      BY <1>0, <1>2, <1>7, <1>9, <1>12, QueueTypes DEF UpRest
    <3> HIDE DEF w, a, l, w2, a2, l2
    <3>2. l2 = w2 + a2
      BY ONLY <3>1
    <3> QED BY <3>2 DEF w2, a2, l2
  <2>2. failed' > 0 <=> x'.write_error \/ Failing("to")'
    BY <1>1, <1>2, <1>7, <1>12 DEF UpRest, Failing
  <2>3. Start <= o + n /\ x.maxack <= o + n /\ x.highwater <= o + n
    <3>1. Start <= o /\ x.maxack <= o /\ x.highwater <= o
      BY <1>2 DEF UpRest, o
    <3>2. Start \in Nat /\ x.maxack \in Nat /\ x.highwater \in Nat
      BY LocalTypes DEF Start
    <3> QED BY <1>4, <3>1, <3>2
  <2>4. ASSUME NEW r \in Wanted' PROVE r.off + r.len <= o + n
    <3>1. CASE r = blk
      BY <1>4, <1>8, <3>1
    <3>2. CASE r \in Wanted
      <4>1. r.off \in Nat /\ r.len \in Nat /\ r.off + r.len <= o
        BY <1>0, <1>2, <3>2, QueueTypes DEF UpRest, Block, o
      <4> QED BY <1>4, <4>1
    <3> QED BY <1>14, <3>1, <3>2
  <2>5. blk \in Wanted' /\ blk.off + blk.len = o + n
    BY <1>8, <1>14
  <2> QED BY <1>1, <1>2, <1>4, <1>7, <1>12, <1>14, <2>1, <2>2, <2>3, <2>4, <2>5 DEF UpRest
<1>17. (failed = 0 => UpFile(file, FirstOff(Work("to"), x.offset)))'
  <2> DEFINE f == FirstOff(Work("to"), o)
  <2>1. FirstOff(Work("to"), x.offset)' = f
    BY <1>15
  <2>2. failed = 0 => UpFile(file, f)
    BY <1>2
  <2> HIDE DEF f
  <2>3. UpFile(file, f) => UpFile(file, FirstOff(Work("to"), x.offset))'
    BY <1>1, <2>1 DEF UpFile, Good
  <2> QED BY <1>1, <2>2, <2>3
<1>18. UpLoop'
  BY <1>15, <1>16, <1>17, UpLoopParts, PTL
<1>19. UpPhase'
  BY <1>5, <1>12, <1>18 DEF UpPhase
<1> QED BY <1>1, <1>7, <1>13, <1>19

\* Only the pc changes.
LEMMA UpGoes ==
    ASSUME TypeInv, UpLoop, NEW p \in PC, x' = GoesTo(p), UNCHANGED <<job, srv, file, interrupted, failed>>
    PROVE  TypeInv' /\ UpLoop' /\ Likewise(x') /\ x'.pc = p /\ x'.status = x.status
<1>1. Likewise(x') /\ x'.pc = p /\ x'.status = x.status
  BY PcFacts
<1>2. TypeInv'
  BY <1>1 DEF TypeInv, Likewise
<1>3. /\ Work("to")' = Work("to") /\ Answers("to")' = Answers("to") /\ Wanted' = Wanted /\ Told("to")' = Told("to")
      /\ (Failing("to")' <=> Failing("to"))
  BY <1>1 DEF Work, Answers, Wanted, Told, Likewise, Failing
<1>4. Start' = Start
  BY SameJob
<1>5. UpRest'
  BY <1>1, <1>3, <1>4, UpLoopParts DEF UpRest, Likewise
<1> DEFINE f == FirstOff(Work("to"), x.offset)
<1>6. Chain(Work("to"), x.offset)' /\ FirstOff(Work("to"), x.offset)' = f
  <2>1. x'.offset = x.offset
    BY <1>1 DEF Likewise
  <2> QED BY <1>3, <2>1, UpLoopParts DEF Chain, FirstOff
<1>7. failed = 0 => UpFile(file, f)
  BY UpLoopParts
<1> HIDE DEF f
<1>8. (failed = 0 => UpFile(file, FirstOff(Work("to"), x.offset)))'
  BY <1>6, <1>7 DEF UpFile, Good
<1>9. UpLoop'
  BY <1>5, <1>6, <1>8, UpLoopParts, PTL
<1> QED BY <1>1, <1>2, <1>9

\* There is no block to send.
LEMMA UpWaits ==
    ASSUME TypeInv, UpLoop, UploadTurn, ~(BlockLen > 0)
    PROVE  TypeInv' /\ UNCHANGED job /\ srv'["from"] = srv["from"] /\ UpPhase'
<1> DEFINE p == IF x.requests = <<>> THEN "uploaded" ELSE "ack"
<1>1. x' = GoesTo(p) /\ UNCHANGED <<job, srv, file, interrupted, failed>> /\ p \in PC
  BY DEF UploadTurn, GoesTo, PC
<1>2. (p = "uploaded" /\ x.requests = <<>>) \/ p = "ack"
  OBVIOUS
<1> HIDE DEF p
<1>3. TypeInv' /\ UpLoop' /\ Likewise(x') /\ x'.pc = p
  BY ONLY TypeInv, UpLoop, <1>1, UpGoes
<1>4. interrupted \/ x.write_error \/ x.offset = job.size
  <2>1. x.offset \in Nat /\ job.size \in Nat /\ BufLen \in Nat /\ BufLen > 0
    BY LocalTypes, SftpAssumption
  <2>2. x.offset <= job.size
    BY DEF UpLoop
  <2> QED BY <2>1, <2>2 DEF BlockLen
<1>5. UpPhase'
  BY <1>1, <1>2, <1>3, <1>4 DEF UpPhase, Likewise
<1> QED BY <1>1, <1>3, <1>5

\* A write is acknowledged, or has failed.
LEMMA UpAcked ==
    ASSUME TypeInv, UpLoop, UploadAck
    PROVE  TypeInv' /\ UNCHANGED job /\ srv'["from"] = srv["from"] /\ (Broken' \/ UpPhase')
<1>0. "to" \in Servers
  BY DEF Servers
<1>1. /\ x.ackid \in Nat /\ x.write_error \in BOOLEAN /\ x.offset \in Nat /\ x.maxack \in Nat
      /\ x.highwater \in Nat
  BY LocalTypes
<1>2. PICK i \in Replies("to") :
          LET m == srv["to"].out[i]
              at == request_find(m.id)
              k == CHOOSE j \in at : TRUE
              q == x.requests[k]
          IN  /\ TakeReply("to", i)
              /\ x' = IF at = {} THEN [x EXCEPT !.pc = "fatal"]
                      ELSE [Acknowledged(x, q.off, q.len) EXCEPT
                              !.pc = "up", !.requests = RemoveAt(@, k), !.ackid = @ + 1,
                              !.write_error = @ \/ m.type # "OK"]
  BY DEF UploadAck
<1> DEFINE m == srv["to"].out[i]
           at == request_find(m.id)
           k == CHOOSE j \in at : TRUE
           q == x.requests[k]
           a == Acknowledged(x, q.off, q.len)
           rq == RemoveAt(x.requests, k)
           we == x.write_error \/ m.type # "OK"
<1>3. UNCHANGED <<job, file, interrupted, failed>>
  BY DEF UploadAck
<1>4. /\ srv' \in [Servers -> Server] /\ srv'["from"] = srv["from"]
      /\ srv'["to"].append = srv["to"].append /\ Work("to")' = Work("to")
      /\ m \in Told("to") /\ m \in RepRec
      /\ Len(Answers("to")') = Len(Answers("to")) - 1
      /\ Told("to")' \subseteq Told("to") /\ Told("to") \subseteq Told("to")' \cup {m}
  BY <1>2, ToTake
<1>5. CASE at = {}
  <2>1. x' = GoesTo("fatal") /\ "fatal" \in PC
    BY <1>2, <1>5 DEF GoesTo, PC
  <2>2. x' \in Locals /\ x'.pc = "fatal"
    BY <2>1, PcFacts DEF Likewise
  <2>3. TypeInv'
    BY <1>3, <1>4, <2>2 DEF TypeInv
  <2> QED BY <1>3, <1>4, <2>2, <2>3 DEF Broken
<1>6. CASE at # {}
  <2>1. x' = [a EXCEPT !.pc = "up", !.requests = RemoveAt(@, k), !.ackid = @ + 1,
                       !.write_error = @ \/ m.type # "OK"]
    BY <1>2, <1>6
  <2>2. k \in at
    BY <1>6
  <2>3. x.requests \in Seq(Block) /\ k \in 1..Len(x.requests) /\ x \in Locals
    <3>1. x.requests \in Seq(Block) /\ x \in Locals
      BY LocalTypes DEF TypeInv
    <3>2. k \in DOMAIN x.requests
      BY <2>2 DEF request_find
    <3> QED BY <3>1, <3>2
  <2> HIDE DEF k
  <2>4. q \in Block /\ q \in Wanted
    BY <2>3, ElType DEF Wanted
  <2>5. /\ rq \in Seq(Block) /\ Len(rq) = Len(x.requests) - 1
        /\ El(rq) \subseteq Wanted /\ Wanted \subseteq El(rq) \cup {q}
    BY <2>3, ElRemoveAt DEF Wanted
  <2> HIDE DEF q
  <2>6. q.off \in Nat /\ q.len \in Nat
    BY <2>4 DEF Block
  <2>7. AckOf(x, q.off, q.len, a)
    <3> DEFINE off == q.off
               n == q.len
    <3>1. off \in Nat /\ n \in Nat /\ x \in Locals
      BY <2>3, <2>6
    <3> HIDE DEF off, n
    <3>2. AckOf(x, off, n, Acknowledged(x, off, n))
      BY ONLY <3>1, AcknowledgedFacts
    <3> QED BY <3>2 DEF off, n
  <2> HIDE DEF a
  <2>8. /\ a \in Locals /\ a.requests = x.requests /\ a.offset = x.offset /\ a.ackid = x.ackid
        /\ a.write_error = x.write_error
        /\ a.maxack = (IF x.maxack < q.off + q.len THEN q.off + q.len ELSE x.maxack)
        /\ a.highwater = a.maxack \/ a.highwater = x.highwater
    BY <2>7 DEF AckOf
  <2>9. /\ x' = [a EXCEPT !.pc = "up", !.requests = rq, !.ackid = x.ackid + 1, !.write_error = we]
        /\ "up" \in PC /\ x.ackid + 1 \in Nat /\ we \in BOOLEAN
    <3>1. "up" \in PC
      BY DEF PC
    <3>2. x.ackid + 1 \in Nat
      BY <1>1
    <3>3. we \in BOOLEAN
      BY Zenon
    <3>4. x' = [a EXCEPT !.pc = "up", !.requests = rq, !.ackid = x.ackid + 1, !.write_error = we]
      <4>1. a.requests = x.requests /\ a.ackid = x.ackid /\ a.write_error = x.write_error
        BY <2>8
      <4> HIDE DEF m
      <4>2. x' = [a EXCEPT !.pc = "up", !.requests = RemoveAt(a.requests, k), !.ackid = a.ackid + 1,
                           !.write_error = a.write_error \/ m.type # "OK"]
        BY <2>1, <2>8 DEF Locals
      <4> QED BY ONLY <4>1, <4>2 DEF rq, we
    <3> QED BY <3>1, <3>2, <3>3, <3>4
  <2> HIDE DEF rq, we
  <2>10. x' \in Locals
    BY <2>5, <2>8, <2>9, Zenon DEF Locals
  <2>11. /\ x'.pc = "up" /\ x'.requests = rq /\ x'.write_error = we /\ x'.offset = x.offset
         /\ x'.maxack = a.maxack /\ x'.highwater = a.highwater
    BY <2>8, <2>9 DEF Locals
  <2>12. TypeInv'
    BY <1>3, <1>4, <2>10 DEF TypeInv
  <2>13. UpRest /\ Chain(Work("to"), x.offset) /\ (failed = 0 => UpFile(file, FirstOff(Work("to"), x.offset)))
    BY UpLoopParts
  <2>14. Len(x'.requests) = Len(Work("to")') + Len(Answers("to")')
    <3> DEFINE w == Len(Work("to"))
               b == Len(Answers("to"))
               l == Len(x.requests)
               w2 == Len(Work("to")')
               b2 == Len(Answers("to")')
               l2 == Len(x'.requests)
    <3>1. w \in Nat /\ b \in Nat /\ l = w + b /\ w2 = w /\ b2 = b - 1 /\ l2 = l - 1
      BY <1>0, <1>4, <2>5, <2>11, <2>13, QueueTypes DEF UpRest
    <3> HIDE DEF w, b, l, w2, b2, l2
    <3>2. l2 = w2 + b2
      BY ONLY <3>1
    <3> QED BY <3>2 DEF w2, b2, l2
  <2>15. Wanted' = El(rq) /\ Start' = Start
    BY <1>3, <2>11, SameJob DEF Wanted
  <2>16. failed' > 0 <=> x'.write_error \/ Failing("to")'
    <3>1. m.type \in {"OK", "FAILURE"}
      BY <1>4, <2>13 DEF UpRest
    <3>2. Failing("to") => Failing("to")' \/ m.type = "FAILURE"
      BY <1>4 DEF Failing
    <3>3. Failing("to")' \/ m.type = "FAILURE" => Failing("to")
      BY <1>4 DEF Failing
    <3>4. x'.write_error <=> x.write_error \/ m.type # "OK"
      BY <2>11 DEF we
    <3>5. failed > 0 <=> x.write_error \/ Failing("to")
      BY <2>13 DEF UpRest
    <3> HIDE DEF m
    <3> QED BY <1>3, <3>1, <3>2, <3>3, <3>4, <3>5
  <2>17. q.off + q.len <= x.offset /\ x.maxack <= x.offset /\ x.highwater <= x.offset
    BY <2>4, <2>13 DEF UpRest
  <2>18. /\ x'.maxack <= x.offset /\ x'.highwater <= x.offset /\ x.maxack <= x'.maxack
         /\ q.off + q.len <= x'.maxack /\ x'.maxack \in Nat
    <3> DEFINE o == x.offset
               e == q.off + q.len
               n == x.maxack
               h == x.highwater
               n2 == x'.maxack
               h2 == x'.highwater
    <3>1. o \in Nat /\ e \in Nat /\ n \in Nat /\ h \in Nat
      BY <1>1, <2>6
    <3>2. n2 = (IF n < e THEN e ELSE n) /\ (h2 = n2 \/ h2 = h)
      BY <2>8, <2>11
    <3>3. e <= o /\ n <= o /\ h <= o
      BY <2>17
    <3> HIDE DEF o, e, n, h, n2, h2
    <3>4. n2 <= o /\ h2 <= o /\ n <= n2 /\ e <= n2 /\ n2 \in Nat
      BY ONLY <3>1, <3>2, <3>3
    <3> QED BY <3>4 DEF o, e, n, h, n2, h2
  <2>19. x'.offset = Start \/ x'.offset = x'.maxack \/ \E r \in Wanted' : r.off + r.len = x'.offset
    <3>1. x.offset = Start \/ x.offset = x.maxack \/ \E r \in Wanted : r.off + r.len = x.offset
      BY <2>13 DEF UpRest
    <3>2. x.offset \in Nat /\ x'.maxack \in Nat /\ x.maxack \in Nat
      BY <1>1, <2>18
    <3>3. CASE x.offset = x.maxack
      BY <2>11, <2>18, <3>2, <3>3
    <3>4. ASSUME NEW r \in Wanted, r.off + r.len = x.offset
          PROVE x'.offset = x'.maxack \/ \E u \in Wanted' : u.off + u.len = x'.offset
      <4>1. CASE r = q
        <5>1. x.offset <= x'.maxack /\ x'.maxack <= x.offset
          BY <2>18, <3>4, <4>1
        <5> QED BY <2>11, <3>2, <5>1
      <4>2. CASE r # q
        <5>1. r \in Wanted'
          BY <2>5, <2>15, <4>2
        <5> QED BY <2>11, <3>4, <5>1
      <4> QED BY <4>1, <4>2
    <3> QED BY <2>11, <3>1, <3>3, <3>4
  <2>20. UpRest'
    <3>1. \A r \in Wanted' : r.off + r.len <= x'.offset
      BY <2>5, <2>11, <2>13, <2>15 DEF UpRest
    <3>2. \A t \in Told("to")' : t.type \in {"OK", "FAILURE"}
      BY <1>4, <2>13 DEF UpRest
    <3> QED BY <1>3, <1>4, <2>11, <2>13, <2>14, <2>15, <2>16, <2>18, <2>19, <3>1, <3>2 DEF UpRest
  <2> DEFINE f == FirstOff(Work("to"), x.offset)
  <2>21. Chain(Work("to"), x.offset)' /\ FirstOff(Work("to"), x.offset)' = f
    BY <1>4, <2>11, <2>13 DEF Chain, FirstOff
  <2>22. failed = 0 => UpFile(file, f)
    BY <2>13
  <2> HIDE DEF f
  <2>23. (failed = 0 => UpFile(file, FirstOff(Work("to"), x.offset)))'
    BY <1>3, <2>21, <2>22 DEF UpFile, Good
  <2>24. UpLoop'
    BY <2>20, <2>21, <2>23, UpLoopParts, PTL
  <2>25. UpPhase'
    BY <2>11, <2>24 DEF UpPhase
  <2> QED BY <1>3, <1>4, <2>12, <2>25
<1> QED BY <1>5, <1>6

\* The file of an upload is open, or could not be opened.
LEMMA UpOpened ==
    ASSUME TypeInv, job.kind = "upload", OpeningTo, OpenedTo
    PROVE  TypeInv' /\ UNCHANGED job /\ srv'["from"] = srv["from"] /\ (Broken' \/ UpPhase')
<1> DEFINE n == x.msg_id["to"]
           good == [x EXCEPT !.pc = "up", !.id = n, !.startid = n + 1, !.ackid = n + 1,
                             !.offset = Start, !.highwater = Start]
           bad == Goes("done", "failure")
<1>1. Answered("to", "opening_to", good, bad)
  <2>1. StartUpload = good
    BY DEF StartUpload, Start
  <2>2. Returns("failure") = bad
    BY DEF Returns, Goes
  <2> HIDE DEF good, bad
  <2> QED BY <2>1, <2>2 DEF OpenedTo
<1>2. /\ "up" \in PC /\ "done" \in PC /\ "failure" \in Status /\ x \in Locals
      /\ n \in Nat /\ n + 1 \in Nat /\ Start \in Nat
  <2>1. "up" \in PC /\ "done" \in PC /\ "failure" \in Status /\ x \in Locals
    BY DEF PC, Status, TypeInv
  <2>2. n \in Nat /\ job.old \in Nat
    BY LocalTypes
  <2>3. n + 1 \in Nat
    BY ONLY <2>2
  <2>4. Start \in Nat
    BY ONLY <2>2 DEF Start
  <2> QED BY <2>1, <2>2, <2>3, <2>4
<1> HIDE DEF n
<1>3. good \in Locals
  BY <1>2, Zenon DEF Locals
<1>4. /\ good.pc = "up" /\ good.requests = x.requests /\ good.offset = Start /\ good.highwater = Start
      /\ good.maxack = x.maxack /\ good.write_error = x.write_error
  BY <1>2 DEF Locals
<1>5. Likewise(bad) /\ bad.pc = "done" /\ bad.status = "failure"
  BY <1>2, GoesFacts
<1> HIDE DEF good, bad
<1>6. bad \in Locals
  BY <1>5 DEF Likewise
<1>7. /\ TypeInv' /\ UNCHANGED <<job, file, interrupted, failed>>
      /\ srv'["from"] = srv["from"] /\ srv'["to"].append = srv["to"].append
      /\ Quiet("to")'
      /\ \/ Broken'
         \/ \E m \in Told("to") : \/ m.type \in {"OK", "HANDLE"} /\ x' = good
                                  \/ m.type \notin {"OK", "HANDLE"} /\ x' = bad
  BY <1>1, <1>3, <1>6, ToAnswer DEF OpeningTo
<1>8. ASSUME NEW m \in Told("to"), m.type \in {"OK", "HANDLE"}, x' = good
      PROVE  UpPhase'
  <2>1. /\ srv["to"].append = job.resume /\ failed = 0
        /\ file = IF job.resume \/ job.inplace THEN Before(job) ELSE <<>>
    BY <1>8 DEF OpeningTo
  <2>2. Work("to")' = <<>> /\ Answers("to")' = <<>>
    BY <1>7 DEF Quiet
  <2>3. x'.requests = <<>> /\ x'.offset = Start /\ x'.highwater = Start /\ x'.maxack = 0 /\ ~x'.write_error
    BY <1>4, <1>8 DEF OpeningTo, Fresh
  <2>4. /\ Told("to")' = {} /\ Wanted' = {} /\ Len(Work("to")') = 0
        /\ Len(Answers("to")') = 0 /\ Len(x'.requests) = 0
    <3>1. Len(<<>>) = 0 /\ El(<<>>) = {}
      BY DEF El
    <3> QED BY <2>2, <2>3, <3>1 DEF Told, Wanted
  <2>5. ~Failing("to")' /\ Start' = Start
    BY <1>7, <2>4, SameJob DEF Failing
  <2>6. (job.resume => job.old < job.size) /\ job.size \in Nat /\ job.old \in Nat /\ Start <= job.size
    <3>1. job.size \in Nat /\ job.old \in Nat /\ job.resume \in BOOLEAN
      BY LocalTypes
    <3>2. job.resume => job.old < job.size
      BY DEF OpeningTo
    <3> QED BY <3>1, <3>2 DEF Start
  <2>7. UpRest'
    <3>1. 0 <= Start /\ Start <= Start
      BY <1>2
    <3>2. ~(failed' > 0) /\ srv'["to"].append = job.resume
      BY <1>7, <2>1
    <3>3. Len(x'.requests) = Len(Work("to")') + Len(Answers("to")')
      BY <2>4
    <3> QED BY <1>7, <2>3, <2>4, <2>5, <2>6, <3>1, <3>2, <3>3 DEF UpRest
  <2>8. Chain(Work("to"), x.offset)' /\ FirstOff(Work("to"), x.offset)' = Start
    <3>1. Chain(Work("to"), x.offset)'
      BY <2>4 DEF Chain
    <3> QED BY <2>2, <2>3, <3>1 DEF FirstOff
  <2>9. UpFile(file, Start)
    <3>1. /\ Len(Before(job)) = job.old /\ (job.resume => \A b \in 1..job.old : Good(Before(job), b))
      BY LocalTypes, SourceFacts
    <3>2. CASE job.resume
      BY <2>1, <3>1, <3>2 DEF UpFile, Start
    <3>3. CASE ~job.resume
      <4>1. Start = 0 /\ (~job.inplace => Len(file) = 0)
        BY <2>1, <3>3 DEF Start
      <4> QED BY <3>3, <4>1 DEF UpFile
    <3> QED BY <3>2, <3>3
  <2>10. UpFile(file, FirstOff(Work("to"), x.offset))'
    BY <1>7, <2>8, <2>9 DEF UpFile, Good
  <2>11. UpLoop'
    BY <2>7, <2>8, <2>10, UpLoopParts, PTL
  <2> QED BY <1>4, <1>8, <2>11 DEF UpPhase
<1>9. ASSUME NEW m \in Told("to"), m.type \notin {"OK", "HANDLE"}, x' = bad
      PROVE  UpPhase'
  <2>1. failed > 0 /\ failed \in Nat
    BY <1>9, LocalTypes DEF OpeningTo
  <2>2. failed' # 0 /\ x'.status # "ok" /\ x'.pc = "done"
    BY <1>5, <1>7, <1>9, <2>1
  <2> QED BY <1>7, <2>2 DEF UpPhase, UpResult, UpFinal
<1> QED BY <1>7, <1>8, <1>9

\* What the file must be in the end if status st is reported.
Ends(st, f) == /\ st = "ok" /\ ~interrupted => f = Source
               /\ failed = 0 => Fine(f)

\* When everything is acknowledged the file is what it must be: once it is
\* cut, if it is written in place or resumed in vain, or as it stands.
LEMMA UpEnd ==
    ASSUME TypeInv, UpLoop, x.requests = <<>>, interrupted \/ x.write_error \/ x.offset = job.size
    PROVE  LET bad == x.write_error \/ interrupted
               end == IF bad THEN x.highwater ELSE x.maxack
               st == IF x.write_error THEN "failure" ELSE "ok"
           IN  /\ Quiet("to") /\ end \in Nat /\ Ends(st, Truncated(file, end))
               /\ ~job.inplace => Ends(st, file)
               /\ st = "ok" /\ ~interrupted => IsPrefix(Source, file)
<1> DEFINE bad == x.write_error \/ interrupted
           end == IF bad THEN x.highwater ELSE x.maxack
           st == IF x.write_error THEN "failure" ELSE "ok"
<1>0. "to" \in Servers
  BY DEF Servers
<1>1. UpRest /\ (failed = 0 => UpFile(file, FirstOff(Work("to"), x.offset)))
  BY UpLoopParts
<1>2. Quiet("to")
  <2> DEFINE w == Len(Work("to"))
             a == Len(Answers("to"))
  <2>1. w \in Nat /\ a \in Nat /\ 0 = w + a
    BY <1>0, <1>1, QueueTypes DEF UpRest
  <2>2. (Work("to") = <<>> <=> w = 0) /\ (Answers("to") = <<>> <=> a = 0)
    BY <1>0, QueueTypes
  <2> HIDE DEF w, a
  <2>3. w = 0 /\ a = 0
    BY ONLY <2>1
  <2> QED BY <2>2, <2>3 DEF Quiet
<1>3. Wanted = {} /\ Told("to") = {} /\ FirstOff(Work("to"), x.offset) = x.offset
  BY <1>0, <1>2, QueueTypes DEF Quiet, FirstOff
<1>4. failed > 0 <=> x.write_error
  BY <1>1, <1>3 DEF UpRest, Failing
<1> DEFINE o == x.offset
<1>5. failed = 0 => (\A b \in 1..o : Good(file, b)) /\ (job.resume \/ ~job.inplace => Len(file) = o)
  BY <1>1, <1>3 DEF UpFile
<1>6. /\ o \in Nat /\ x.maxack \in Nat /\ x.highwater \in Nat /\ job.size \in Nat /\ job.old \in Nat
      /\ file \in Seq(Int) /\ failed \in Nat /\ job \in Jobs /\ job.resume \in BOOLEAN
  BY LocalTypes
<1>7. /\ o <= job.size /\ x.maxack <= o /\ x.highwater <= o /\ (o = Start \/ o = x.maxack)
      /\ job.resume => job.old < job.size
  BY <1>1, <1>3 DEF UpRest
<1>8. end \in Nat /\ end <= o
  BY <1>6, <1>7
<1>9. st = "ok" /\ ~interrupted => end = job.size /\ o = job.size /\ failed = 0
  <2> SUFFICES ASSUME st = "ok", ~interrupted PROVE end = job.size /\ o = job.size /\ failed = 0
    OBVIOUS
  <2>1. ~x.write_error /\ end = x.maxack /\ o = job.size
    OBVIOUS
  <2>2. failed = 0
    BY <1>4, <1>6, <2>1
  <2>3. o = Start => x.maxack = o
    <3>1. o = Start => ~job.resume
      BY <1>6, <1>7, <2>1 DEF Start
    <3>2. o = Start => o = 0
      BY <3>1 DEF Start
    <3> QED BY <1>6, <1>7, <3>2
  <2> QED BY <1>7, <2>1, <2>2, <2>3
<1> HIDE DEF end, st, o
<1>10. Ends(st, Truncated(file, end))
  <2> DEFINE t == Truncated(file, end)
  <2>1. t \in Seq(Int) /\ Len(t) = end /\ \A b : Good(file, b) /\ b <= end => Good(t, b)
    BY <1>6, <1>8, TruncatedFacts
  <2> HIDE DEF t
  <2>2. ASSUME failed = 0 PROVE Fine(t) /\ (Len(t) = job.size => t = Source)
    <3>1. \A b \in 1..Len(t) : b \in 1..o /\ b <= end
      BY <1>6, <1>8, <2>1
    <3>2. \A b \in 1..Len(t) : Good(t, b)
      BY <1>5, <2>1, <2>2, <3>1
    <3>3. Len(t) <= job.size
      BY <1>6, <1>7, <1>8, <2>1
    <3> QED BY ONLY <1>6, <2>1, <3>2, <3>3, GoodFile
  <2>3. Ends(st, t)
    BY <1>9, <2>1, <2>2 DEF Ends
  <2> QED BY <2>3 DEF t
<1>11. ASSUME ~job.inplace PROVE Ends(st, file)
  <2>1. ASSUME failed = 0 PROVE Fine(file) /\ (Len(file) = job.size => file = Source)
    <3>1. Len(file) = o /\ \A b \in 1..Len(file) : Good(file, b)
      BY <1>5, <1>11, <2>1
    <3>2. Len(file) <= job.size
      BY <1>7, <3>1 DEF o
    <3> QED BY ONLY <1>6, <3>1, <3>2, GoodFile
  <2>2. failed = 0 => Len(file) = o
    BY <1>5, <1>11
  <2> QED BY <1>9, <2>1, <2>2 DEF Ends
<1>12. ASSUME st = "ok", ~interrupted PROVE IsPrefix(Source, file)
  <2>1. \A b \in 1..job.size : Good(file, b)
    BY <1>5, <1>9, <1>12
  <2>2. job.size <= Len(file)
    BY <1>6, <2>1 DEF Good
  <2> QED BY ONLY <1>6, <2>1, <2>2, GoodStart
<1> QED BY <1>2, <1>8, <1>10, <1>11, <1>12 DEF end, st

LEMMA FinalOf ==
    ASSUME UNCHANGED <<job, interrupted, file, failed>>
    PROVE  /\ Ends(x'.status, file) => UpFinal(file)'
           /\ \A n : Ends(x'.status, Truncated(file, n)) => UpFinal(Truncated(file, n))'
<1>1. Source' = Source /\ (Fine(file)' <=> Fine(file')) /\ Before(job)' = Before(job)
  BY SameJob
<1>2. Ends(x'.status, file) => UpFinal(file)'
  BY <1>1 DEF Ends, UpFinal
<1>3. ASSUME NEW n, Ends(x'.status, Truncated(file, n)) PROVE UpFinal(Truncated(file, n))'
  <2>1. Truncated(file, n)' = Truncated(file, n)
    BY DEF Truncated
  <2>2. Fine(Truncated(file, n))' <=> Fine(Truncated(file, n))
    BY <1>1, <2>1 DEF Fine
  <2> QED BY <1>1, <1>3, <2>1, <2>2 DEF Ends, UpFinal
<1> QED BY <1>2, <1>3

\* Everything is acknowledged: the file is cut, or closed as it is.
LEMMA UpSettled ==
    ASSUME TypeInv, UpLoop, x.requests = <<>>, interrupted \/ x.write_error \/ x.offset = job.size, Uploaded
    PROVE  TypeInv' /\ UNCHANGED job /\ srv'["from"] = srv["from"] /\ UpPhase'
<1> DEFINE bad == x.write_error \/ interrupted
           end == IF bad THEN x.highwater ELSE x.maxack
           st == IF x.write_error THEN "failure" ELSE "ok"
           r == [x EXCEPT !.status = st]
           cut == job.inplace \/ (job.resume /\ bad)
           msg == [Msg("fsetstat", x.msg_id["to"]) EXCEPT !.len = end]
<1>0. "to" \in Servers
  BY DEF Servers
<1>1. /\ Quiet("to") /\ end \in Nat /\ Ends(st, Truncated(file, end))
      /\ ~job.inplace => Ends(st, file)
      /\ st = "ok" /\ ~interrupted => IsPrefix(Source, file)
  BY UpEnd
<1>2. /\ IF cut
         THEN /\ Transmit("to", <<msg>>) /\ x' = [r EXCEPT !.pc = "truncating", !.msg_id["to"] = @ + 1]
         ELSE x' = [r EXCEPT !.pc = "finish"] /\ UNCHANGED srv
      /\ UNCHANGED <<job, file, interrupted, failed>>
  BY DEF Uploaded
<1>3. (~cut => ~job.inplace) /\ (cut /\ st = "ok" /\ ~interrupted => job.inplace)
  OBVIOUS
<1>4. st \in Status /\ "truncating" \in PC /\ "finish" \in PC /\ x \in Locals
  BY DEF Status, PC, TypeInv
<1> HIDE DEF end, st, cut
<1>5. CASE cut
  <2>1. x.msg_id \in [Servers -> Nat] /\ x.msg_id["to"] \in Nat
    BY LocalTypes
  <2>2. msg \in ReqRec /\ msg.op = "fsetstat" /\ msg.len = end
    <3> DEFINE m == Msg("fsetstat", x.msg_id["to"])
    <3>1. m \in ReqRec /\ m.op = "fsetstat"
      BY <2>1 DEF Msg, ReqRec, Op
    <3> HIDE DEF m
    <3>2. msg = [m EXCEPT !.len = end]
      BY DEF m
    <3> HIDE DEF msg
    <3>3. msg \in ReqRec
      BY <1>1, <3>1, <3>2, Zenon DEF ReqRec
    <3> QED BY <3>1, <3>2, <3>3 DEF ReqRec
  <2> HIDE DEF msg
  <2>3. /\ srv' \in [Servers -> Server] /\ srv'["from"] = srv["from"]
        /\ Len(Work("to")') = Len(Work("to")) + 1 /\ Asked("to")' = Asked("to") \cup {msg}
        /\ Answers("to")' = Answers("to") /\ Told("to")' = Told("to")
    BY <1>2, <1>5, <2>2, ToSend
  <2> DEFINE ids == [x.msg_id EXCEPT !["to"] = @ + 1]
  <2>4. ids \in [Servers -> Nat]
    BY <1>0, <2>1
  <2>5. x' = [x EXCEPT !.status = st, !.pc = "truncating", !.msg_id = ids]
    BY <1>2, <1>4, <1>5 DEF Locals
  <2> HIDE DEF ids
  <2>6. x' \in Locals
    BY <1>4, <2>4, <2>5, Zenon DEF Locals
  <2>7. x'.pc = "truncating" /\ x'.status = st
    BY <1>4, <2>5 DEF Locals
  <2>8. TypeInv'
    BY <1>2, <2>3, <2>6 DEF TypeInv
  <2>9. Len(Work("to")) = 0 /\ Len(Answers("to")) = 0 /\ Asked("to") = {} /\ Told("to") = {}
    BY <1>0, <1>1, QueueTypes DEF Quiet
  <2>10. Calling("to")'
    <3> DEFINE w == Len(Work("to")')
               a == Len(Answers("to")')
    <3>1. w = 0 + 1
      BY <2>3, <2>9
    <3>2. a = 0
      BY <2>3, <2>9
    <3>3. Calling("to")' <=> w + a = 1
      BY DEF Calling
    <3> HIDE DEF w, a
    <3>4. w + a = 1
      BY ONLY <3>1, <3>2
    <3> QED BY <3>3, <3>4
  <2>11. Asked("to")' = {msg} /\ Told("to")' = {}
    BY <2>3, <2>9
  <2>12. ASSUME NEW q, q.len = end PROVE UpFinal(Truncated(file, q.len))'
    <3>1. Ends(x'.status, Truncated(file, q.len))
      BY <1>1, <2>7, <2>12
    <3>2. \A n : Ends(x'.status, Truncated(file, n)) => UpFinal(Truncated(file, n))'
      BY <1>2, FinalOf
    <3> QED BY <3>1, <3>2
  <2>13. ResizingTo'
    <3>2. UpTail'
      BY <1>1, <1>2, <1>3, <1>5, <2>7, SameJob DEF UpTail
    <3>1. ASSUME NEW q \in Asked("to")' PROVE q.op = "fsetstat" /\ UpFinal(Truncated(file, q.len))'
      <4>1. q.op = "fsetstat" /\ q.len = end
        BY <2>2, <2>11
      <4> QED BY <2>12, <4>1
    <3> QED BY <2>7, <2>10, <2>11, <3>1, <3>2 DEF ResizingTo
  <2>14. UpPhase'
    BY <2>13, UpPhases, PTL
  <2> QED BY <1>2, <2>3, <2>8, <2>14
<1>6. CASE ~cut
  <2>1. x' = Goes("finish", st) /\ UNCHANGED srv
    BY <1>2, <1>4, <1>6 DEF Goes, Locals
  <2>2. Likewise(x') /\ x'.pc = "finish" /\ x'.status = st
    BY <1>4, <2>1, GoesFacts
  <2>3. TypeInv'
    BY <1>2, <2>1, <2>2 DEF TypeInv, Likewise
  <2>4. Ends(x'.status, file)
    BY <1>1, <1>3, <1>6, <2>2
  <2>5. UpFinal(file)'
    BY <1>2, <2>4, FinalOf
  <2>6. Quiet("to")'
    BY <1>1, <2>1 DEF Quiet, Work, Answers
  <2>7. UpPhase'
    BY <2>2, <2>5, <2>6 DEF UpPhase, UpResult
  <2> QED BY <1>2, <2>1, <2>3, <2>7
<1> QED BY <1>5, <1>6

LEMMA UpCut ==
    ASSUME TypeInv, ResizingTo, UploadTruncated
    PROVE  TypeInv' /\ UNCHANGED job /\ srv'["from"] = srv["from"] /\ (Broken' \/ UpPhase')
<1> DEFINE next(uncut) == [x EXCEPT !.pc = "finish", !.uncut = uncut]
           good == next(FALSE)
           bad == next(TRUE)
<1>1. Answered("to", "truncating", good, bad)
  BY DEF UploadTruncated
<1>2. ASSUME NEW u \in BOOLEAN
      PROVE  next(u) \in Locals /\ next(u).pc = "finish" /\ next(u).status = x.status /\ next(u).uncut = u
  <2> DEFINE y == next(u)
  <2>1. x \in Locals /\ "finish" \in PC
    BY DEF TypeInv, PC
  <2>2. y = [x EXCEPT !.pc = "finish", !.uncut = u]
    OBVIOUS
  <2> HIDE DEF y
  <2>3. y \in Locals
    BY <2>1, <2>2, Zenon DEF Locals
  <2>4. y.pc = "finish" /\ y.status = x.status /\ y.uncut = u
    BY <2>1, <2>2 DEF Locals
  <2> QED BY <2>3, <2>4 DEF y
<1>3. /\ good \in Locals /\ good.pc = "finish" /\ good.status = x.status
      /\ bad \in Locals /\ bad.pc = "finish" /\ bad.status = x.status /\ bad.uncut = TRUE
  BY <1>2
<1> HIDE DEF good, bad, next
<1>4. /\ TypeInv' /\ UNCHANGED <<job, file, interrupted, failed>> /\ srv'["from"] = srv["from"] /\ Quiet("to")'
      /\ \/ Broken'
         \/ \E m \in Told("to") : \/ m.type \in {"OK", "HANDLE"} /\ x' = good
                                  \/ m.type \notin {"OK", "HANDLE"} /\ x' = bad
  BY <1>1, <1>3, ToAnswer DEF ResizingTo
<1>5. ASSUME NEW m \in Told("to"), m.type \in {"OK", "HANDLE"}, x' = good PROVE UpPhase'
  <2>1. UpFinal(file)
    BY <1>5 DEF ResizingTo
  <2>2. UpFinal(file)'
    BY <1>3, <1>4, <1>5, <2>1, FinalPrime DEF UpFinal
  <2> QED BY <1>3, <1>4, <1>5, <2>2 DEF UpPhase, UpResult
<1>6. ASSUME NEW m \in Told("to"), m.type \notin {"OK", "HANDLE"}, x' = bad PROVE UpPhase'
  <2>1. UpUncut
    BY <1>6 DEF ResizingTo
  <2>2. x'.uncut /\ x'.status = x.status /\ x'.pc = "finish"
    BY <1>3, <1>6
  <2>3. Followed' <=> Followed
    BY <1>4, SameJob DEF Followed
  <2>4. UpUncut'
    BY <1>4, <2>1, <2>2, <2>3 DEF UpUncut, UpTail
  <2> QED BY <1>4, <2>2, <2>4 DEF UpPhase, UpResult
<1> QED BY <1>4, <1>5, <1>6

LEMMA UpFinished ==
    ASSUME TypeInv, Closing("to"), UpResult, Finished
    PROVE  TypeInv' /\ UNCHANGED job /\ srv'["from"] = srv["from"] /\ (Broken' \/ UpPhase')
<1> DEFINE good == Goes("done", x.status)
           bad == Goes("done", "failure")
<1>1. Answered("to", "finishing", good, bad) /\ "done" \in PC /\ x.status \in Status /\ "failure" \in Status
  BY DEF Finished, Goes, Returns, PC, Status, TypeInv, Locals
<1>2. /\ Likewise(good) /\ good.pc = "done" /\ good.status = x.status
      /\ Likewise(bad) /\ bad.pc = "done" /\ bad.status = "failure"
  BY <1>1, GoesFacts
<1> HIDE DEF good, bad
<1>3. good \in Locals /\ bad \in Locals
  BY <1>2 DEF Likewise
<1>4. /\ TypeInv' /\ UNCHANGED <<job, file, interrupted, failed>> /\ srv'["from"] = srv["from"] /\ Quiet("to")'
      /\ Broken' \/ x' = good \/ x' = bad
  BY <1>1, <1>3, ToAnswer DEF Closing
<1>5. CASE x' = good \/ x' = bad
  <2>1. x'.pc = "done" /\ (x'.status = "ok" => x.status = "ok") /\ x'.uncut = x.uncut
    BY <1>2, <1>5 DEF Likewise
  <2>2. UpResult'
    BY <1>4, <2>1, ResultKept
  <2> QED BY <1>4, <2>1, <2>2 DEF UpPhase
<1> QED BY <1>4, <1>5

LEMMA UpOpens ==
    ASSUME TypeInv, job.kind = "upload", Quiet("to"), Fresh, file = Before(job), failed = 0, OpenTo
    PROVE  TypeInv' /\ UNCHANGED job /\ srv'["from"] = srv["from"] /\ UpPhase'
<1> DEFINE t == ~(job.resume \/ job.inplace)
           a == job.resume
           msg == [Msg("open", 0) EXCEPT !.trunc = job.kind = "crossload" \/ ~(job.resume \/ job.inplace),
                                         !.append = job.kind = "upload" /\ job.resume]
<1>1. /\ Call("to", msg, "opening_to") /\ "opening_to" \in PC /\ t \in BOOLEAN /\ a \in BOOLEAN
      /\ job.size \in Nat /\ job.old \in Nat
  BY LocalTypes DEF OpenTo, PC
<1>2. job.resume => job.old < job.size
  BY <1>1 DEF OpenTo
<1>3. msg = OpenOf(t, a)
  <2>1. (job.kind = "crossload" \/ ~(job.resume \/ job.inplace)) = t /\ (job.kind = "upload" /\ job.resume) = a
    BY <1>1
  <2> QED BY <2>1 DEF OpenOf
<1> HIDE DEF msg, t, a
<1>4. msg \in ReqRec /\ msg.op = "open" /\ msg.trunc = t /\ msg.append = a
  <2>1. IsOpen(OpenOf(t, a), t, a)
    BY ONLY <1>1, OpenMsg
  <2> QED BY <1>3, <2>1 DEF IsOpen
<1>5. /\ TypeInv' /\ UNCHANGED <<job, file, interrupted, failed>>
      /\ Kept /\ x'.pc = "opening_to" /\ x'.status = x.status /\ x'.to_open = x.to_open
      /\ srv'["from"] = srv["from"]
      /\ Calling("to")' /\ Told("to")' = {}
      /\ \A q \in Asked("to")' : q.op = msg.op /\ q.trunc = msg.trunc /\ q.append = msg.append
  BY <1>1, <1>4, ToCall
<1>6. Fresh' /\ Before(job)' = Before(job)
  BY <1>5, SameJob DEF Fresh, Kept
<1>7. \A q \in Asked("to")' : q.op = "open" /\ q.append = job.resume /\ q.trunc = ~(job.resume \/ job.inplace)
  BY <1>4, <1>5 DEF t, a
<1>8. OpeningTo'
  BY <1>2, <1>5, <1>6, <1>7 DEF OpeningTo
<1>9. UpPhase'
  BY <1>8, UpPhases, PTL
<1> QED BY <1>5, <1>9

\* The client of an upload keeps its invariant.
LEMMA UpClient ==
    ASSUME TypeInv, job.kind = "upload", UpInv, Client
    PROVE  TypeInv' /\ UNCHANGED job /\ (Broken' \/ UpInv')
<1>1. UpPhase /\ srv["from"] = Idle
  BY DEF UpInv
<1>2. SUFFICES TypeInv' /\ UNCHANGED job /\ srv'["from"] = srv["from"] /\ (Broken' \/ UpPhase')
  BY <1>1 DEF UpInv
<1>3. CASE ResumeRefused
  <2>1. Quiet("to") /\ file = Before(job)
    BY <1>1, <1>3 DEF UpPhase, ResumeRefused
  <2>2. x' = Goes("done", "failure") /\ UNCHANGED <<job, srv, file, interrupted, failed>>
        /\ "done" \in PC /\ "failure" \in Status
    BY <1>3 DEF ResumeRefused, Returns, Goes, PC, Status
  <2>3. Likewise(x') /\ x'.pc = "done" /\ x'.status = "failure"
    BY <2>2, GoesFacts
  <2>4. TypeInv'
    BY <2>2, <2>3 DEF TypeInv, Likewise
  <2>5. Quiet("to")'
    BY <2>1, <2>2 DEF Quiet, Work, Answers
  <2>6. UpFinal(file)'
    BY <2>1, <2>2, <2>3, FinalPrime DEF Fine
  <2> QED BY <2>2, <2>3, <2>4, <2>5, <2>6 DEF UpPhase, UpResult
<1>4. CASE OpenTo
  <2>1. Quiet("to") /\ Fresh /\ file = Before(job) /\ failed = 0
    BY <1>1, <1>4 DEF UpPhase, OpenTo
  <2> QED BY <1>4, <2>1, UpOpens
<1>5. CASE OpenedTo
  <2>1. OpeningTo
    <3>1. x.pc = "opening_to"
      BY <1>5 DEF OpenedTo, Answered
    <3>2. ResizingTo => x.pc = "truncating"
      BY DEF ResizingTo
    <3> QED BY <1>1, <3>1, <3>2, UpPhases
  <2> QED BY <1>5, <2>1, UpOpened
<1>6. CASE UploadTurn
  <2>1. UpLoop
    BY <1>1, <1>6 DEF UpPhase, UploadTurn
  <2> QED BY <1>6, <2>1, UpSent, UpWaits
<1>7. CASE UploadAck
  <2>1. UpLoop
    BY <1>1, <1>7 DEF UpPhase, UploadAck
  <2> QED BY <1>7, <2>1, UpAcked
<1>8. CASE Uploaded
  <2>1. /\ UpLoop /\ x.requests = <<>>
        /\ interrupted \/ x.write_error \/ x.offset = job.size
    BY <1>1, <1>8 DEF UpPhase, Uploaded
  <2> QED BY <1>8, <2>1, UpSettled
<1>9. CASE UploadTruncated
  <2>1. ResizingTo
    <3>1. x.pc = "truncating"
      BY <1>9 DEF UploadTruncated, Answered
    <3>2. OpeningTo => x.pc = "opening_to"
      BY DEF OpeningTo
    <3> QED BY <1>1, <3>1, <3>2, UpPhases
  <2> QED BY <1>9, <2>1, UpCut
<1>10. CASE Finish
  <2>1. Quiet("to") /\ UpResult
    BY <1>1, <1>10 DEF UpPhase, Finish
  <2> DEFINE msg == Msg("close", 0)
  <2>2. msg \in ReqRec /\ msg.op = "close" /\ "finishing" \in PC
    BY MsgFacts DEF Op, PC
  <2>3. Call("to", msg, "finishing")
    BY <1>10 DEF Finish
  <2> HIDE DEF msg
  <2>4. /\ TypeInv' /\ UNCHANGED <<job, file, interrupted, failed>>
        /\ Kept /\ x'.pc = "finishing" /\ x'.status = x.status
        /\ srv'["from"] = srv["from"]
        /\ Calling("to")' /\ Told("to")' = {}
        /\ \A q \in Asked("to")' : q.op = msg.op
    BY <2>1, <2>2, <2>3, ToCall
  <2>5. Closing("to")'
    BY <2>2, <2>4 DEF Closing
  <2>6. UpResult'
    BY <2>1, <2>4, ResultKept DEF Kept
  <2> QED BY <2>4, <2>5, <2>6 DEF UpPhase
<1>11. CASE Finished
  <2>1. Closing("to") /\ UpResult
    BY <1>1, <1>11 DEF UpPhase, Finished, Answered
  <2> QED BY <1>11, <2>1, UpFinished
<1>12. x.pc \in {"open_to", "opening_to", "up", "ack", "uploaded", "truncating", "finish", "finishing", "done"}
  BY <1>1 DEF UpPhase
<1>13. CASE \/ OpenFrom \/ OpenedFrom \/ OpenLocal \/ SendRequests \/ EndLoop \/ ReadReply \/ Settle \/ CloseFrom
            \/ ClosedFrom \/ Drain \/ Discard \/ Discarded \/ Reopen \/ Reopened \/ CloseTo \/ ClosedTo
  BY <1>12, <1>13 DEF OpenFrom, OpenedFrom, OpenLocal, SendRequests, EndLoop, ReadReply, Settle, CloseFrom,
       ClosedFrom, Drain, Discard, Discarded, Reopen, Reopened, CloseTo, ClosedTo, Answered
<1> QED BY <1>3, <1>4, <1>5, <1>6, <1>7, <1>8, <1>9, <1>10, <1>11, <1>13 DEF Client

----------------------------------------------------------------------------
(* The invariant and the theorems.                                         *)

\* A signal may arrive; nothing else changes.
LEMMA DownSame ==
    ASSUME UNCHANGED <<job, x, file, failed>>, interrupted => interrupted', DownPhase
    PROVE  DownPhase'
<1>1. Source' = Source /\ Before(job)' = Before(job) /\ (Fine(file)' <=> Fine(file')) /\ Wanted' = Wanted
  BY SameJob DEF Wanted
<1>2. (Fresh => Fresh') /\ (Over => Over') /\ (EndInv => EndInv')
  BY DEF Fresh, Over, EndInv
<1>3. DownLoop => DownLoop'
  <2>1. \A b : (Good(file, b))' <=> Good(file, b)
    BY DEF Good
  <2> QED BY <1>1, <1>2, <2>1 DEF DownLoop
<1>4. DownResult => DownResult'
  BY SameJob DEF DownResult, Followed
<1> QED BY <1>1, <1>2, <1>3, <1>4 DEF DownPhase

LEMMA CrossSame ==
    ASSUME UNCHANGED <<job, x, srv, file, failed>>, interrupted => interrupted', CrossPhase
    PROVE  CrossPhase'
<1>1. Source' = Source /\ Before(job)' = Before(job) /\ (Fine(file)' <=> Fine(file'))
  BY SameJob
<1>2. /\ Work("to")' = Work("to") /\ Answers("to")' = Answers("to")
      /\ Asked("to")' = Asked("to") /\ Told("to")' = Told("to") /\ Wanted' = Wanted
  BY DEF Work, Answers, Asked, Told, Wanted
<1>3. (Fresh => Fresh') /\ (Over => Over') /\ (EndInv => EndInv')
  BY DEF Fresh, Over, EndInv
<1>4. (Quiet("to") => Quiet("to")') /\ (Calling("to") => Calling("to")') /\ (Failing("to")' => Failing("to"))
      /\ (Failing("to") => Failing("to")')
  BY <1>2 DEF Quiet, Calling, Failing
<1>5. CrossLoop => CrossLoop'
  BY <1>2, <1>3, <1>4 DEF CrossLoop, Good
<1>6. (Truncating => Truncating') /\ (Closing("to") => Closing("to")') /\ (CrossDone => CrossDone')
  BY <1>1, <1>2, <1>4 DEF Truncating, Closing, CrossDone
<1> QED BY <1>1, <1>3, <1>4, <1>5, <1>6 DEF CrossPhase

LEMMA UpSame ==
    ASSUME UNCHANGED <<job, x, srv, file, failed>>, interrupted => interrupted', UpPhase
    PROVE  UpPhase'
<1>1. Source' = Source /\ Before(job)' = Before(job) /\ (Fine(file)' <=> Fine(file')) /\ Start' = Start
  BY SameJob
<1>2. /\ Work("to")' = Work("to") /\ Answers("to")' = Answers("to")
      /\ Asked("to")' = Asked("to") /\ Told("to")' = Told("to") /\ Wanted' = Wanted
  BY DEF Work, Answers, Asked, Told, Wanted
<1>3. /\ (Quiet("to") => Quiet("to")') /\ (Calling("to") => Calling("to")') /\ (Failing("to")' <=> Failing("to"))
      /\ (Fresh => Fresh') /\ (Closing("to") => Closing("to")')
  BY <1>2 DEF Quiet, Calling, Failing, Fresh, Closing
<1>4. UpLoop => UpLoop'
  <2>1. Reached' = Reached
    BY <1>2 DEF Reached
  <2>2. (\A b \in 1..Reached : Good(file, b))' <=> \A b \in 1..Reached : Good(file, b)
    BY <2>1 DEF Good
  <2> QED BY <1>1, <1>2, <1>3, <2>1, <2>2 DEF UpLoop
<1>5. UpFinal(file) => UpFinal(file)'
  BY <1>1 DEF UpFinal
<1>6. ASSUME NEW q, UpFinal(Truncated(file, q.len)) PROVE UpFinal(Truncated(file, q.len))'
  <2>1. Truncated(file, q.len)' = Truncated(file, q.len)
    BY DEF Truncated
  <2>2. Fine(Truncated(file, q.len))' <=> Fine(Truncated(file, q.len))
    BY <1>1, <2>1 DEF Fine
  <2> QED BY <1>1, <1>6, <2>1, <2>2 DEF UpFinal
<1>a. (UpTail => UpTail') /\ (UpUncut => UpUncut') /\ (UpResult => UpResult')
  BY ResultKept
<1>7. CASE OpeningTo
  <2>1. OpeningTo'
    BY <1>1, <1>2, <1>3, <1>7 DEF OpeningTo
  <2> QED BY <2>1, UpPhases, PTL
<1>8. CASE ResizingTo
  <2>1. ResizingTo'
    BY <1>2, <1>3, <1>5, <1>6, <1>a, <1>8 DEF ResizingTo
  <2> QED BY <2>1, UpPhases, PTL
<1>9. CASE ~OpeningTo /\ ~ResizingTo
  <2>1. \/ x.pc = "open_to" /\ Quiet("to") /\ Fresh /\ file = Before(job) /\ failed = 0
        \/ x.pc \in {"up", "ack"} /\ UpLoop
        \/ /\ x.pc = "uploaded" /\ UpLoop /\ x.requests = <<>>
           /\ interrupted \/ x.write_error \/ x.offset = job.size
        \/ x.pc \in {"finish", "done"} /\ Quiet("to") /\ UpResult
        \/ x.pc = "finishing" /\ Closing("to") /\ UpResult
    BY <1>9, UpPhases
  <2> QED BY <1>1, <1>3, <1>4, <1>a, <2>1 DEF UpPhase
<1> QED BY <1>7, <1>8, <1>9

LEMMA Same ==
    ASSUME IInv, UNCHANGED <<job, x, srv, file, failed>>, interrupted => interrupted', interrupted' \in BOOLEAN
    PROVE  IInv'
<1>1. TypeInv'
  BY DEF IInv, TypeInv
<1>2. CASE Broken
  BY <1>1, <1>2 DEF IInv, Broken
<1>3. CASE KindInv
  <2>1. MatchInv => MatchInv'
    BY MatchKept
  <2>2. DownInv => DownInv'
    BY <2>1, DownSame DEF DownInv, Idle
  <2>3. CrossInv => CrossInv'
    BY <2>1, CrossSame DEF CrossInv
  <2>4. UpInv => UpInv'
    BY UpSame DEF UpInv, Idle
  <2> QED BY <1>1, <1>3, <2>2, <2>3, <2>4 DEF IInv, KindInv
<1> QED BY <1>2, <1>3 DEF IInv

LEMMA DownTurn ==
    ASSUME TypeInv, DownInv, NEW s \in Servers, ServerTurn(s)
    PROVE  TypeInv' /\ DownInv'
<1>1. s = "from" /\ MatchInv /\ DownPhase /\ srv["to"] = Idle
  BY IdleStays DEF DownInv, Servers
<1>2. /\ TypeInv' /\ MatchInv' /\ UNCHANGED <<job, x, interrupted, file, failed>>
      /\ srv'["to"] = srv["to"]
  BY <1>1, FromTurn
<1>3. DownPhase'
  BY <1>1, <1>2, DownSame
<1> QED BY <1>1, <1>2, <1>3 DEF DownInv, Idle

LEMMA Kinds ==
    ASSUME TypeInv
    PROVE  job.kind \in {"download", "upload", "crossload"}
  BY JobAssumption DEF TypeInv

LEMMA Turns ==
    ASSUME IInv, NEW s \in Servers, ServerTurn(s)
    PROVE  IInv'
<1>1. TypeInv
  BY DEF IInv
<1>2. TypeInv' /\ UNCHANGED <<job, x, interrupted>>
  BY <1>1, TurnEffect
<1>3. CASE Broken
  BY <1>2, <1>3 DEF IInv, Broken
<1>4. CASE KindInv
  <2>1. job.kind = "download" => DownInv'
    BY <1>1, <1>4, DownTurn DEF KindInv
  <2>2. job.kind = "crossload" => CrossInv'
    BY <1>1, <1>4, CrossTurn DEF KindInv
  <2>3. job.kind = "upload" => UpInv'
    BY <1>1, <1>4, UpTurn DEF KindInv
  <2> QED BY <1>2, <2>1, <2>2, <2>3 DEF IInv, KindInv
<1> QED BY <1>3, <1>4 DEF IInv

LEMMA Clients ==
    ASSUME IInv, Client
    PROVE  IInv'
<1>1. TypeInv /\ job.kind \in {"download", "upload", "crossload"}
  BY Kinds DEF IInv
<1>2. ~Broken
  <2> SUFFICES ASSUME Broken PROVE FALSE
    OBVIOUS
  <2>1. x.pc \in {"fatal", "zerolen"}
    BY DEF Broken
  <2>2. ~(\/ ResumeRefused \/ OpenTo \/ OpenFrom \/ OpenedTo \/ OpenedFrom \/ OpenLocal
          \/ SendRequests \/ EndLoop \/ ReadReply \/ Settle \/ CloseFrom \/ ClosedFrom)
    BY <2>1 DEF ResumeRefused, OpenTo, OpenFrom, OpenedTo, OpenedFrom, OpenLocal, SendRequests, EndLoop, ReadReply,
         Settle, CloseFrom, ClosedFrom, Answered
  <2>3. ~(\/ Drain \/ Discard \/ Discarded \/ Reopen \/ Reopened \/ CloseTo \/ ClosedTo
          \/ UploadTurn \/ UploadAck \/ Uploaded \/ UploadTruncated \/ Finish \/ Finished)
    BY <2>1 DEF Drain, Discard, Discarded, Reopen, Reopened, CloseTo, ClosedTo, UploadTurn, UploadAck, Uploaded,
         UploadTruncated, Finish, Finished, Answered
  <2> QED BY <2>2, <2>3 DEF Client
<1>3. KindInv
  BY <1>2 DEF IInv
<1>4. CASE job.kind = "download"
  <2>1. TypeInv' /\ UNCHANGED job /\ (Broken' \/ DownInv')
    BY <1>1, <1>3, <1>4, DownClient DEF KindInv
  <2> QED BY <1>4, <2>1 DEF IInv, KindInv
<1>5. CASE job.kind = "crossload"
  <2>1. TypeInv' /\ UNCHANGED job /\ (Broken' \/ CrossInv')
    BY <1>1, <1>3, <1>5, CrossClient DEF KindInv
  <2> QED BY <1>5, <2>1 DEF IInv, KindInv
<1>6. CASE job.kind = "upload"
  <2>1. TypeInv' /\ UNCHANGED job /\ (Broken' \/ UpInv')
    BY <1>1, <1>3, <1>6, UpClient DEF KindInv
  <2> QED BY <1>6, <2>1 DEF IInv, KindInv
<1> QED BY <1>1, <1>4, <1>5, <1>6

LEMMA Starts ==
    ASSUME Init
    PROVE  IInv
<1>0. "from" \in Servers /\ "to" \in Servers
  BY DEF Servers
<1>1. /\ job \in Jobs /\ srv = [s \in Servers |-> Idle] /\ file = Before(job) /\ interrupted = FALSE /\ failed = 0
      /\ x = [pc |-> IF job.kind = "upload" THEN "open_to" ELSE "open_from",
              msg_id |-> [s \in Servers |-> 1], requests |-> <<>>, offset |-> 0, max_req |-> 1,
              buflen |-> BufLen, seen_zerolen |-> FALSE, read_error |-> FALSE, write_error |-> FALSE,
              highwater |-> 0, maxack |-> 0, reordered |-> FALSE, status |-> "", num_upload |-> 0,
              id |-> 0, ackid |-> 0, startid |-> 0, to_open |-> FALSE, uncut |-> FALSE]
  BY DEF Init
<1>2. Idle \in Server
  BY DEF Idle, Server
<1>3. x \in Locals
  <2> DEFINE p == IF job.kind = "upload" THEN "open_to" ELSE "open_from"
             ids == [s \in Servers |-> 1]
             none == <<>>
  <2>1. BufLen \in Nat /\ ids \in [Servers -> Nat] /\ none \in Seq(Block) /\ 0 \in Nat /\ 1 \in Nat /\ 0 \in Int
    BY SftpAssumption
  <2>2. p \in PC /\ "" \in Status /\ FALSE \in BOOLEAN
    BY DEF PC, Status
  <2>3. x = [pc |-> p, msg_id |-> ids, requests |-> none, offset |-> 0, max_req |-> 1,
             buflen |-> BufLen, seen_zerolen |-> FALSE, read_error |-> FALSE, write_error |-> FALSE,
             highwater |-> 0, maxack |-> 0, reordered |-> FALSE, status |-> "", num_upload |-> 0,
             id |-> 0, ackid |-> 0, startid |-> 0, to_open |-> FALSE, uncut |-> FALSE]
    BY <1>1
  <2> HIDE DEF p, ids, none
  <2> QED BY <2>1, <2>2, <2>3, Zenon DEF Locals
<1>4. TypeInv
  <2>1. srv \in [Servers -> Server]
    BY <1>1, <1>2
  <2>2. file \in Seq(Int)
    BY <1>1, SourceFacts
  <2> QED BY <1>1, <1>3, <2>1, <2>2 DEF TypeInv
<1>5. srv["from"] = Idle /\ srv["to"] = Idle
  BY <1>0, <1>1
<1>6. Work("from") = <<>> /\ Answers("from") = <<>> /\ Work("to") = <<>> /\ Answers("to") = <<>>
  <2>1. <<>> \o <<>> = <<>>
    OBVIOUS
  <2> QED BY <1>5, <2>1, IdleFacts DEF Work, Answers
<1>7. Fresh /\ x.pc = IF job.kind = "upload" THEN "open_to" ELSE "open_from"
  BY <1>1 DEF Fresh
<1>8. Asked("from") = {} /\ Told("from") = {} /\ Wanted = {}
  <2>1. El(<<>>) = {}
    BY DEF El
  <2> QED BY <1>6, <1>7, <2>1 DEF Asked, Told, Wanted, Fresh
<1>9. MatchInv /\ Quiet("to") /\ ~srv["to"].append
  <2>1. ~Idle.append
    BY DEF Idle
  <2> QED BY <1>5, <1>6, <1>8, <2>1 DEF MatchInv, Quiet
<1>10. job.kind = "download" => DownInv
  BY <1>1, <1>5, <1>7, <1>9 DEF DownInv, DownPhase
<1>11. job.kind = "crossload" => CrossInv
  BY <1>1, <1>7, <1>9 DEF CrossInv, CrossPhase
<1>12. job.kind = "upload" => UpInv
  BY <1>1, <1>5, <1>7, <1>9 DEF UpInv, UpPhase
<1> QED BY <1>4, <1>10, <1>11, <1>12 DEF IInv, KindInv

LEMMA StepKeeps ==
    ASSUME IInv, [Next]_vars
    PROVE  IInv'
<1>1. interrupted \in BOOLEAN
  BY DEF IInv, TypeInv
<1>2. CASE Client
  BY <1>2, Clients
<1>3. CASE Interrupt
  BY <1>3, Same DEF Interrupt
<1>4. ASSUME NEW s \in Servers, ServerTurn(s) PROVE IInv'
  BY <1>4, Turns
<1>5. CASE UNCHANGED vars
  BY <1>1, <1>5, Same DEF vars
<1> QED BY <1>2, <1>3, <1>4, <1>5 DEF Next, Stopped

LEMMA Ended ==
    ASSUME IInv
    PROVE  TransferFaithful /\ NoHoles
<1>1. TypeInv /\ job.kind \in {"download", "upload", "crossload"} /\ failed \in Nat
  BY Kinds DEF IInv, TypeInv
<1>2. SUFFICES ASSUME x.pc = "done"
               PROVE  /\ x.status = "ok" /\ (job.kind = "upload" => ~interrupted) => file = Source \/ (x.uncut /\ Followed)
                      /\ ~x.uncut /\ failed <= (IF job.kind = "download" THEN 1 ELSE 0) => Fine(file)
  BY DEF TransferFaithful, NoHoles, Fine, Followed
<1>3. KindInv
  BY <1>2 DEF IInv, Broken
<1>4. CASE job.kind = "download"
  BY <1>2, <1>3, <1>4 DEF KindInv, DownInv, DownPhase, DownResult
<1>5. CASE job.kind = "crossload"
  <2>1. CrossDone
    BY <1>2, <1>3, <1>5 DEF KindInv, CrossInv, CrossPhase
  <2> QED BY <1>1, <1>5, <2>1 DEF CrossDone
<1>6. CASE job.kind = "upload"
  <2>1. UpResult
    BY <1>2, <1>3, <1>6 DEF KindInv, UpInv, UpPhase
  <2> QED BY <1>1, <1>6, <2>1 DEF UpResult, UpFinal, UpUncut, UpTail
<1> QED BY <1>1, <1>4, <1>5, <1>6

\* sftp_download, sftp_upload and sftp_crossload: whatever the size of the
\* file and of the buffer, however many requests are under way, in whatever
\* order the replies come, however short the reads and whatever fails, a
\* transfer that reports success has made an exact copy of the source, or a
\* copy in place whose truncation failed: one that the rest of the old file
\* may follow.
THEOREM TransfersAreFaithful == Spec => []TransferFaithful
<1>1. Init => IInv
  BY Starts
<1>2. IInv /\ [Next]_vars => IInv'
  BY StepKeeps
<1>3. IInv => TransferFaithful
  BY Ended
<1> QED BY <1>1, <1>2, <1>3, PTL DEF Spec

\* A transfer that ends without success has left the file as it was or a
\* beginning of the source: sftp_download and sftp_upload cut it at
\* highwater, the "highest contiguous point", and sftp_crossload empties
\* it.  The destination's writes must have worked, all of them at a server
\* and all but one in a local file, and so must the truncation.
THEOREM NoTransferLeavesHoles == Spec => []NoHoles
<1>1. Init => IInv
  BY Starts
<1>2. IInv /\ [Next]_vars => IInv'
  BY StepKeeps
<1>3. IInv => NoHoles
  BY Ended
<1> QED BY <1>1, <1>2, <1>3, PTL DEF Spec
=============================================================================
