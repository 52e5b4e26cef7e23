-------------------------------- MODULE Sftp --------------------------------
(***************************************************************************)
(* SFTP file transfers: the pipelined loops of the client (sftp_download,  *)
(* sftp_upload, sftp_crossload) and the loop of sftp-server that serves    *)
(* them.                                                                   *)
(*                                                                         *)
(* A file is a sequence of blocks; block i of the source holds the value   *)
(* i, a block that was never written holds Hole.  A download reads from    *)
(* server "from" and writes a local file, an upload reads a local file and *)
(* writes to server "to", a crossload does both at servers.  Names,        *)
(* attributes other than the size, and handles' numbers are left out.      *)
(***************************************************************************)
EXTENDS Integers, Sequences, SequencesExt, FiniteSets

CONSTANTS
    Jobs,           \* the transfers: kind, size, old, resume, inplace, order
    BufLen,         \* conn->download_buflen, conn->upload_buflen
    MinRead,        \* MIN_READ_SIZE
    NumRequests,    \* conn->num_requests
    ReplyRoom,      \* replies that leave sftp-server's oqueue its reserve
    MaxFaults       \* bound: operations that fail or stop short

ASSUME SftpAssumption ==
    /\ BufLen \in Nat \ {0} /\ MinRead \in 1..BufLen
    /\ NumRequests \in Nat \ {0} /\ ReplyRoom \in Nat \ {0} /\ MaxFaults \in Nat
ASSUME JobAssumption ==
    Jobs \subseteq [kind : {"download", "upload", "crossload"}, size : Nat, old : Nat,
                    resume : BOOLEAN, inplace : BOOLEAN, order : {"fifo", "any"}]

Hole == 0
Old == -1
Servers == {"from", "to"}

VARIABLES
    job,            \* the arguments of the transfer
    x,              \* the local variables of the client's function; history:
                    \* uncut, the truncation in the end failed
    srv,            \* srv[s]: pipes, queues and open file of server s
    file,           \* the destination file
    interrupted,    \* SIGINT was received
    faults,         \* bound: faults left
    failed          \* history: how often the destination could not be written

vars == <<job, x, srv, file, interrupted, faults, failed>>

Source == [i \in 1..job.size |-> i]
\* What a destination holds before the transfer: the beginning of the
\* source when it is resumed, something else otherwise.
Before(j) == [i \in 1..j.old |-> IF j.resume THEN i ELSE Old]

Truncated(f, n) == [i \in 1..n |-> IF i <= Len(f) THEN f[i] ELSE Hole]
\* n blocks of the source from offset off on, written at offset at.
Written(f, at, off, n) ==
    [i \in 1..IF n > 0 /\ at + n > Len(f) THEN at + n ELSE Len(f) |->
        IF i \in at+1..at+n THEN off + i - at ELSE IF i <= Len(f) THEN f[i] ELSE Hole]

----------------------------------------------------------------------------
(* sftp-server.                                                            *)

Idle == [in |-> <<>>, iqueue |-> <<>>, oqueue |-> <<>>, out |-> <<>>, append |-> FALSE]

Reply(q, type) == [id |-> q.id, type |-> type, len |-> 0]

\* What a request does: the reply, the destination file, the flags of the
\* handle and the faults it took.
Done(q, type, f, append) ==
    [reply |-> Reply(q, type), file |-> f, append |-> append, cost |-> 0]

process_open(s, q) ==
    { Done(q, "HANDLE", IF s = "to" /\ q.trunc THEN <<>> ELSE file, q.append),
      [Done(q, "FAILURE", file, FALSE) EXCEPT !.cost = 1] }

\* A read may return less than it was asked for; a server of another make
\* may even send no data once.
process_read(s, q) ==
    LET left == job.size - q.off
        most == IF q.len < left THEN q.len ELSE left
        short == IF most > 0 THEN 1..most-1 \cup (IF job.order = "any" THEN {0} ELSE {}) ELSE {}
        data(n, cost) == [reply |-> [Reply(q, "DATA") EXCEPT !.len = n], file |-> file,
                          append |-> srv[s].append, cost |-> cost]
    IN  { IF left <= 0 THEN Done(q, "EOF", file, srv[s].append) ELSE data(most, 0) }
        \cup { data(n, 1) : n \in short }
        \cup { [Done(q, "FAILURE", file, srv[s].append) EXCEPT !.cost = 1] }

\* A write that stops short counts as a failure.
process_write(s, q) ==
    LET at == IF srv[s].append THEN Len(file) ELSE q.off
    IN  { Done(q, "OK", Written(file, at, q.off, q.len), srv[s].append) }
        \cup { [Done(q, "FAILURE", Written(file, at, q.off, n), srv[s].append) EXCEPT !.cost = 1] :
               n \in 0..q.len-1 }

process_fsetstat(s, q) ==
    { Done(q, "OK", Truncated(file, q.len), srv[s].append),
      [Done(q, "FAILURE", file, srv[s].append) EXCEPT !.cost = 1] }

process_close(s, q) ==
    { Done(q, "OK", file, FALSE), [Done(q, "FAILURE", file, FALSE) EXCEPT !.cost = 1] }

process(s, q) ==
    CASE q.op = "open" -> process_open(s, q)
      [] q.op = "read" -> process_read(s, q)
      [] q.op = "write" -> process_write(s, q)
      [] q.op = "fsetstat" -> process_fsetstat(s, q)
      [] q.op = "close" -> process_close(s, q)

\* Mutant: waits for input although requests it has read are still queued.
PollsForInput(s) == srv[s].in # <<>>

\* There is something to read and room for the replies, or something to write.
PollReturns(s) ==
    \/ srv[s].in # <<>> /\ Len(srv[s].oqueue) < ReplyRoom
    \/ srv[s].oqueue # <<>>

\* One turn of sftp_server_main: input and output are moved, then one
\* request is processed if there is room for its reply.
ServerTurn(s) ==
    /\ PollReturns(s)
    /\ \E n \in IF srv[s].in # <<>> /\ Len(srv[s].oqueue) < ReplyRoom THEN 1..Len(srv[s].in) ELSE {0} :
       LET r == srv[s]
           moved == [r EXCEPT !.in = SubSeq(@, n + 1, Len(@)), !.iqueue = @ \o SubSeq(r.in, 1, n),
                              !.oqueue = <<>>, !.out = @ \o r.oqueue]
       IN  IF moved.iqueue = <<>>
           THEN srv' = [srv EXCEPT ![s] = moved] /\ UNCHANGED <<file, faults, failed>>
           ELSE \E d \in process(s, Head(moved.iqueue)) :
                   /\ d.cost <= faults /\ faults' = faults - d.cost
                   /\ srv' = [srv EXCEPT ![s] = [moved EXCEPT !.iqueue = Tail(@), !.append = d.append,
                                                              !.oqueue = <<d.reply>>]]
                   /\ file' = d.file
                   /\ failed' = IF s = "to" /\ d.reply.type = "FAILURE" THEN failed + 1 ELSE failed
    /\ UNCHANGED <<job, x, interrupted>>

----------------------------------------------------------------------------
(* The client: what it sends and what it takes from a server.              *)

Msg(op, id) == [op |-> op, id |-> id, off |-> 0, len |-> 0, trunc |-> FALSE, append |-> FALSE]
Transmit(s, msgs) == srv' = [srv EXCEPT ![s].in = @ \o msgs]

\* The replies get_msg may return: a server of another make reorders them.
Replies(s) == IF srv[s].out = <<>> THEN {} ELSE IF job.order = "any" THEN DOMAIN srv[s].out ELSE {1}
TakeReply(s, i) == srv' = [srv EXCEPT ![s].out = RemoveAt(@, i)]

request_find(id) == {i \in DOMAIN x.requests : x.requests[i].id = id}

\* A request whose answer is waited for: send_open, sftp_fsetstat, sftp_close.
Call(s, msg, pc) ==
    /\ Transmit(s, <<[msg EXCEPT !.id = x.msg_id[s]]>>)
    /\ x' = [x EXCEPT !.pc = pc, !.msg_id[s] = @ + 1]
    /\ UNCHANGED <<job, file, interrupted, faults, failed>>

\* get_status and get_handle: anything but the answer is fatal.
Answered(s, pc, good, bad) ==
    /\ x.pc = pc
    /\ \E i \in Replies(s) :
          /\ TakeReply(s, i)
          /\ x' = IF srv[s].out[i].id # x.msg_id[s] - 1 THEN [x EXCEPT !.pc = "fatal"]
                  ELSE IF srv[s].out[i].type \in {"OK", "HANDLE"} THEN good ELSE bad
    /\ UNCHANGED <<job, file, interrupted, faults, failed>>

Returns(status) == [x EXCEPT !.pc = "done", !.status = status]

Init ==
    /\ job \in Jobs
    /\ x = [pc |-> IF job.kind = "upload" THEN "open_to" ELSE "open_from",
            msg_id |-> [s \in Servers |-> 1], requests |-> <<>>, offset |-> 0, max_req |-> 1,
            buflen |-> BufLen, seen_zerolen |-> FALSE, read_error |-> FALSE, write_error |-> FALSE,
            highwater |-> 0, maxack |-> 0, reordered |-> FALSE, status |-> "", num_upload |-> 0,
            id |-> 0, ackid |-> 0, startid |-> 0, to_open |-> FALSE, uncut |-> FALSE]
    /\ srv = [s \in Servers |-> Idle] /\ file = Before(job)
    /\ interrupted = FALSE /\ faults = MaxFaults /\ failed = 0

Interrupt ==
    /\ ~interrupted /\ interrupted' = TRUE /\ x.pc # "done"
    /\ UNCHANGED <<job, x, srv, file, faults, failed>>

\* sftp_stat found the destination to be at least as long as the source.
ResumeRefused ==
    /\ x.pc = "open_to" /\ job.kind = "upload" /\ job.resume /\ job.old >= job.size
    /\ x' = Returns("failure")
    /\ UNCHANGED <<job, srv, file, interrupted, faults, failed>>

\* An upload appends when it resumes, and truncates unless it writes in place.
OpenTo ==
    /\ x.pc = "open_to" /\ ~(job.kind = "upload" /\ job.resume /\ job.old >= job.size)
    /\ Call("to", [Msg("open", 0) EXCEPT !.trunc = job.kind = "crossload" \/ ~(job.resume \/ job.inplace),
                                        !.append = job.kind = "upload" /\ job.resume], "opening_to")
OpenFrom == x.pc = "open_from" /\ Call("from", Msg("open", 0), "opening_from")

\* An upload numbers its requests on its own, from conn->msg_id on.
StartUpload ==
    LET n == x.msg_id["to"]
        start == IF job.resume THEN job.old ELSE 0
    IN  [x EXCEPT !.pc = "up", !.id = n, !.startid = n + 1, !.ackid = n + 1,
                  !.offset = start, !.highwater = start]

OpenedTo == Answered("to", "opening_to",
    IF job.kind = "upload" THEN StartUpload ELSE [x EXCEPT !.pc = "loop", !.to_open = TRUE],
    IF job.kind = "upload" THEN Returns("failure") ELSE [x EXCEPT !.pc = "close_from", !.status = "failure"])

OpenedFrom == Answered("from", "opening_from",
    [x EXCEPT !.pc = IF job.kind = "crossload" THEN "open_to" ELSE "local"], Returns("failure"))

\* The local file is opened, and measured if the download resumes.
OpenLocal ==
    /\ x.pc = "local"
    /\ \/ /\ job.resume => job.old <= job.size
          /\ file' = IF job.resume \/ job.inplace THEN file ELSE <<>>
          /\ x' = LET start == IF job.resume THEN job.old ELSE 0
                  IN  [x EXCEPT !.pc = "loop", !.offset = start, !.highwater = start, !.maxack = start]
          /\ UNCHANGED faults
       \/ /\ \/ faults > 0 /\ faults' = faults - 1
             \/ job.resume /\ job.old > job.size /\ UNCHANGED faults
          /\ x' = [x EXCEPT !.pc = "close_from", !.status = "failure"]
          /\ UNCHANGED file
    /\ UNCHANGED <<job, srv, interrupted, failed>>

----------------------------------------------------------------------------
(* The loop that reads: sftp_download and sftp_crossload.                  *)

\* handle_dest_replies without waiting: whatever has arrived.
AteReplies(r) ==
    [r EXCEPT !.num_upload = @ - Len(srv["to"].out),
              !.write_error = @ \/ \E i \in DOMAIN srv["to"].out : srv["to"].out[i].type # "OK"]

LoopEnds == x.requests = <<>> /\ (x.max_req = 0 \/ interrupted)

SendRequests ==
    LET max == IF interrupted THEN 0 ELSE x.max_req
        n == IF max > Len(x.requests) THEN max - Len(x.requests) ELSE 0
        new == [i \in 1..n |-> [id |-> x.msg_id["from"] + i - 1, off |-> x.offset + (i-1) * x.buflen, len |-> x.buflen]]
        sent == [i \in 1..n |-> [Msg("read", new[i].id) EXCEPT !.off = new[i].off, !.len = new[i].len]]
    IN  /\ x.pc = "loop" /\ ~LoopEnds
        /\ srv' = [srv EXCEPT !["from"].in = @ \o sent, !["to"].out = <<>>]
        /\ x' = AteReplies([x EXCEPT !.pc = "wait", !.max_req = max, !.requests = @ \o new,
                                     !.offset = @ + n * x.buflen, !.msg_id["from"] = @ + n])
        /\ UNCHANGED <<job, file, interrupted, faults, failed>>

EndLoop ==
    /\ x.pc = "loop" /\ LoopEnds
    /\ x' = [x EXCEPT !.pc = IF job.kind = "crossload" THEN "drain" ELSE "settle"]
    /\ UNCHANGED <<job, srv, file, interrupted, faults, failed>>

\* Mutant: every offset acknowledged counts as contiguous.
AlwaysContiguous(r, off, n) ==
    LET maxack == IF r.maxack < off + n THEN off + n ELSE r.maxack
    IN  [r EXCEPT !.maxack = maxack, !.highwater = maxack]

\* The highest offset acknowledged, and the highest contiguous one.
Acknowledged(r, off, n) ==
    LET maxack == IF r.maxack < off + n THEN off + n ELSE r.maxack
    IN  [r EXCEPT !.maxack = maxack,
                  !.highwater = IF ~r.reordered /\ off <= r.highwater THEN maxack ELSE @,
                  !.reordered = @ \/ off > r.highwater]

\* One more request at a time, until the expected end of the file.
Widened(r) ==
    [r EXCEPT !.max_req = IF @ = 0 THEN 0
                          ELSE IF job.size > 0 /\ r.offset > job.size THEN 1
                          ELSE IF @ < NumRequests THEN @ + 1 ELSE @]

\* Mutant: a short block is taken for the whole of it.
DropsShort(r, i, n) == [r EXCEPT !.requests = RemoveAt(@, i)]

\* A request is complete, or is sent again for what is missing.
Remaining(r, i, n) ==
    LET q == r.requests[i]
        shrunk == IF n > MinRead THEN n ELSE MinRead
    IN  IF n = q.len THEN [r EXCEPT !.requests = RemoveAt(@, i)]
        ELSE [r EXCEPT !.requests[i] = [id |-> r.msg_id["from"], off |-> q.off + n, len |-> q.len - n],
                       !.msg_id["from"] = @ + 1,
                       !.buflen = IF n < @ THEN shrunk ELSE @]

\* A download writes what it got, perhaps not all of it.
WriteLocal(q, n, kept) ==
    /\ kept \in 0..n /\ kept < n => faults > 0
    /\ faults' = IF kept < n THEN faults - 1 ELSE faults
    /\ failed' = IF kept < n THEN failed + 1 ELSE failed
    /\ file' = Written(file, q.off, q.off, kept)

\* Reply m answers the k-th request with data that may be used.
Usable(m, k) == m.type = "DATA" /\ m.len <= x.requests[k].len /\ ~(m.len = 0 /\ x.seen_zerolen)

\* The server, once the reply at i is taken and the k-th request sent again.
AskedAgain(i, k, rest) ==
    LET q == rest.requests[k]
        again == IF Len(rest.requests) < Len(x.requests) THEN <<>>
                 ELSE <<[Msg("read", q.id) EXCEPT !.off = q.off, !.len = q.len]>>
    IN  [srv EXCEPT !["from"].out = RemoveAt(@, i), !["from"].in = @ \o again]

NextTurn(r, m) == [Widened(r) EXCEPT !.pc = "loop", !.seen_zerolen = @ \/ m.len = 0]

UnexpectedReply(i, m, at) ==
    /\ at = {} \/ (m.type = "DATA" /\ \A k \in at : ~Usable(m, k))
    /\ TakeReply("from", i)
    /\ x' = [x EXCEPT !.pc = IF at # {} /\ m.len = 0 THEN "zerolen" ELSE "fatal"]
    /\ UNCHANGED <<file, faults, failed>>

StatusReply(i, m, k) ==
    /\ m.type \in {"EOF", "FAILURE"}
    /\ TakeReply("from", i)
    /\ x' = [x EXCEPT !.pc = "loop", !.max_req = 0, !.requests = RemoveAt(@, k),
                      !.read_error = @ \/ m.type # "EOF"]
    /\ UNCHANGED <<file, faults, failed>>

\* A second local write that fails is taken for one that succeeded.
DownloadReply(i, m, k) ==
    LET q == x.requests[k]
        rest == Remaining(x, k, m.len)
    IN  /\ Usable(m, k) /\ job.kind = "download"
        /\ srv' = AskedAgain(i, k, rest)
        /\ \E kept \in 0..m.len :
              /\ WriteLocal(q, m.len, kept)
              /\ x' = NextTurn(IF kept < m.len /\ ~x.write_error
                               THEN [rest EXCEPT !.write_error = TRUE, !.max_req = 0]
                               ELSE Acknowledged(rest, q.off, m.len), m)

CrossloadReply(i, m, k) ==
    LET rest == Remaining(x, k, m.len)
        write == [Msg("write", x.msg_id["to"]) EXCEPT !.off = x.requests[k].off, !.len = m.len]
    IN  /\ Usable(m, k) /\ job.kind = "crossload"
        /\ srv' = [AskedAgain(i, k, rest) EXCEPT !["to"].in = Append(@, write)]
        /\ x' = NextTurn([rest EXCEPT !.num_upload = @ + 1, !.msg_id["to"] = @ + 1], m)
        /\ UNCHANGED <<file, faults, failed>>

ReadReply ==
    /\ x.pc = "wait"
    /\ \E i \in Replies("from") :
          LET m == srv["from"].out[i]
              at == request_find(m.id)
          IN  \/ UnexpectedReply(i, m, at)
              \/ \E k \in at : StatusReply(i, m, k) \/ DownloadReply(i, m, k) \/ CrossloadReply(i, m, k)
    /\ UNCHANGED <<job, interrupted>>

\* handle_dest_replies, waiting for all of them.
Drain ==
    /\ x.pc = "drain"
    /\ \/ /\ x.num_upload = 0
          /\ x' = [x EXCEPT !.pc = IF x.read_error \/ x.write_error \/ interrupted THEN "discard" ELSE "close_from",
                            !.status = IF x.read_error \/ x.write_error \/ interrupted THEN "failure" ELSE "ok"]
          /\ UNCHANGED srv
       \/ /\ x.num_upload > 0 /\ srv["to"].out # <<>>
          /\ x' = AteReplies(x) /\ srv' = [srv EXCEPT !["to"].out = <<>>]
    /\ UNCHANGED <<job, file, interrupted, faults, failed>>

\* The destination of a crossload that failed is closed and opened again to
\* be truncated.
Discard == x.pc = "discard" /\ Call("to", Msg("close", 0), "discarding")
Discarded == Answered("to", "discarding", [x EXCEPT !.pc = "reopen"], [x EXCEPT !.pc = "reopen"])
Reopen == x.pc = "reopen" /\ Call("to", [Msg("open", 0) EXCEPT !.trunc = TRUE], "reopening")
Reopened == LET next(ok) == [x EXCEPT !.pc = "close_from", !.to_open = ok]
            IN  Answered("to", "reopening", next(TRUE), next(FALSE))

\* A download that did not end well is cut where it stops to be contiguous,
\* and so is one in place.  That the ftruncate fails is only logged.
Settle ==
    LET bad == x.read_error \/ x.write_error \/ interrupted
        end == IF bad THEN x.highwater ELSE x.maxack
    IN  /\ x.pc = "settle"
        /\ \E uncut \in BOOLEAN :
              /\ uncut => (bad \/ job.inplace) /\ faults > 0
              /\ x' = [x EXCEPT !.pc = "close_from", !.status = IF bad THEN "failure" ELSE "ok",
                                !.uncut = uncut]
              /\ file' = IF (bad \/ job.inplace) /\ ~uncut THEN Truncated(file, end) ELSE file
              /\ faults' = IF uncut THEN faults - 1 ELSE faults
        /\ UNCHANGED <<job, srv, interrupted, failed>>

CloseFrom == x.pc = "close_from" /\ Call("from", Msg("close", 0), "closing_from")
ClosedFrom ==
    LET next(status) == IF x.to_open THEN [x EXCEPT !.pc = "close_to", !.status = status] ELSE Returns(status)
    IN  Answered("from", "closing_from",
                 next(IF x.status = "ok" /\ ~interrupted THEN "ok" ELSE "failure"), next("failure"))
CloseTo == x.pc = "close_to" /\ Call("to", Msg("close", 0), "closing_to")
ClosedTo == Answered("to", "closing_to", Returns(x.status), Returns(x.status))

----------------------------------------------------------------------------
(* The loop that writes: sftp_upload.                                      *)

BlockLen == IF interrupted \/ x.write_error THEN 0
            ELSE IF job.size - x.offset < BufLen THEN job.size - x.offset ELSE BufLen

\* One turn: a block is sent, unless there is none, and an acknowledgement
\* is waited for if too many are missing.
UploadTurn ==
    /\ x.pc = "up"
    /\ IF BlockLen > 0
       THEN LET id == x.id + 1
            IN  /\ Transmit("to", <<[Msg("write", id) EXCEPT !.off = x.offset, !.len = BlockLen]>>)
                /\ x' = [x EXCEPT !.id = id, !.requests = Append(@, [id |-> id, off |-> x.offset, len |-> BlockLen]),
                                  !.offset = @ + BlockLen,
                                  !.pc = IF id = x.startid \/ id - x.ackid >= NumRequests THEN "ack" ELSE "up"]
       ELSE /\ x' = [x EXCEPT !.pc = IF x.requests = <<>> THEN "uploaded" ELSE "ack"]
            /\ UNCHANGED srv
    /\ UNCHANGED <<job, file, interrupted, faults, failed>>

\* The acknowledgement of a write that failed moves highwater too.
UploadAck ==
    /\ x.pc = "ack"
    /\ \E i \in Replies("to") :
          LET m == srv["to"].out[i]
              at == request_find(m.id)
              k == CHOOSE j \in at : TRUE
              q == x.requests[k]
          IN  /\ TakeReply("to", i)
              /\ x' = IF at = {} THEN [x EXCEPT !.pc = "fatal"]
                      ELSE [Acknowledged(x, q.off, q.len) EXCEPT
                              !.pc = "up", !.requests = RemoveAt(@, k), !.ackid = @ + 1,
                              !.write_error = @ \/ m.type # "OK"]
    /\ UNCHANGED <<job, file, interrupted, faults, failed>>

Uploaded ==
    LET bad == x.write_error \/ interrupted
        end == IF bad THEN x.highwater ELSE x.maxack
        r == [x EXCEPT !.status = IF x.write_error THEN "failure" ELSE "ok"]
    IN  /\ x.pc = "uploaded"
        /\ IF job.inplace \/ (job.resume /\ bad)
           THEN /\ Transmit("to", <<[Msg("fsetstat", x.msg_id["to"]) EXCEPT !.len = end]>>)
                /\ x' = [r EXCEPT !.pc = "truncating", !.msg_id["to"] = @ + 1]
           ELSE x' = [r EXCEPT !.pc = "finish"] /\ UNCHANGED srv
        /\ UNCHANGED <<job, file, interrupted, faults, failed>>

\* The result of sftp_fsetstat is ignored.
UploadTruncated ==
    LET next(uncut) == [x EXCEPT !.pc = "finish", !.uncut = uncut]
    IN  Answered("to", "truncating", next(FALSE), next(TRUE))
Finish == x.pc = "finish" /\ Call("to", Msg("close", 0), "finishing")
Finished == Answered("to", "finishing", Returns(x.status), Returns("failure"))

----------------------------------------------------------------------------
Client ==
    \/ ResumeRefused \/ OpenTo \/ OpenFrom \/ OpenedTo \/ OpenedFrom \/ OpenLocal
    \/ SendRequests \/ EndLoop \/ ReadReply \/ Settle \/ CloseFrom \/ ClosedFrom
    \/ Drain \/ Discard \/ Discarded \/ Reopen \/ Reopened \/ CloseTo \/ ClosedTo
    \/ UploadTurn \/ UploadAck \/ Uploaded \/ UploadTruncated \/ Finish \/ Finished

Stopped == x.pc \in {"done", "fatal", "zerolen"} /\ UNCHANGED vars

Next == Client \/ Interrupt \/ (\E s \in Servers : ServerTurn(s)) \/ Stopped

\* The client runs, and so do the servers.
Spec == Init /\ [][Next]_vars /\ WF_vars(Client) /\ \A s \in Servers : WF_vars(ServerTurn(s))

----------------------------------------------------------------------------
(* Properties.                                                             *)

\* A transfer that reports success has made an exact copy, whatever order
\* the replies came in and however short the reads were (sftp_download,
\* sftp_crossload, sftp_upload).  Only a copy made in place whose truncation
\* failed may be followed by what the old file held behind it: that failure
\* is not reported.  Uploads report success when interrupted.
TransferFaithful ==
    x.pc = "done" /\ x.status = "ok" /\ (job.kind = "upload" => ~interrupted) =>
        \/ file = Source
        \/ x.uncut /\ job.inplace /\ IsPrefix(Source, file)

\* A transfer that fails leaves the destination as it was or the beginning
\* of the source, without holes ("Truncate at highest contiguous point to
\* avoid holes on interrupt"), whatever the reads did and even if one local
\* write failed, provided that this truncation succeeds.
NoHoles ==
    x.pc = "done" /\ ~x.uncut /\ failed <= (IF job.kind = "download" THEN 1 ELSE 0) =>
        file = Before(job) \/ IsPrefix(file, Source)

\* The same of every upload that is resumed or written in place: the size it
\* sets in the end, if it can be set, is "the highest *contiguous* offset
\* acknowledged".
ContiguousUpload ==
    x.pc = "done" /\ ~x.uncut /\ job.kind = "upload" /\ (job.resume \/ job.inplace) =>
        file = Before(job) \/ IsPrefix(file, Source)

\* Every transfer comes to an end, and in fatal() only when a server sends
\* empty data twice: no reply is missing and none comes that the client does
\* not expect, although both ends work on many requests at a time.
TransferEnds == <>(x.pc \in {"done", "zerolen"})
=============================================================================
