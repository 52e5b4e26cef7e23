# A TLA+ model of OpenSSH

This directory models the protocol core of Portable OpenSSH (the repository
this directory sits beside, sources under `src/`) in TLA+, checks it with TLC
on small instances and proves central safety properties of eight components with
TLAPS for all instances.

## 1. The system

OpenSSH is a set of single-threaded processes that talk over sockets. `ssh`
and the per-connection server process (`sshd-session`) share one encrypted
connection; on it run a key exchange, user authentication and then any number
of *channels*. Around the connection: the listening `sshd`, the privileged
monitor, the authentication agent, the SFTP client and server, and mux clients
that share somebody else's connection.

### Inventory

| Component | State it keeps | Operations | Talks to | What is hard | What makes it correct |
|---|---|---|---|---|---|
| Channels (`channels.c`, `nchan.c`) | per channel: type, input/output state, EOF/CLOSE flags, three buffers, local/remote window, consumed count, user callback | open, confirm, data, EOF, EOW, CLOSE, window adjust; pre/post handlers; garbage collection; inactivity timeout | peer (packets), applications (descriptors), session and mux (callbacks) | two ends closing two directions and a stderr stream in any order; window accounting split between ends; timeouts | no byte lost, no packet to a freed channel, nothing after CLOSE, windows agree, the channel goes away |
| Server sessions and loop (`session.c`, `serverloop.c`) | session: pid, channel, tty; loop: SIGCHLD flag, alive count | channel requests, exec, collect children, exit message, keepalive | channels, child processes | SIGCHLD against EOF and CLOSE; background processes on a pty | exit status before CLOSE; child always finds its channel |
| Client loop (`clientloop.c`, `ssh.c`) | session channel, exit status, control persist timer | confirm callbacks, request replies, rekey, keepalive | channels, mux | replies arriving late | exit status is known when the channel closes |
| Mux (`mux.c`) | control channels, session channels, pause flag | hello, new session, forward, close, proxy | client loop, local clients | client vanishing half-way | session ends cleanly, status delivered |
| Packets (`packet.c`) | sequence numbers, keys per direction, rekey limits, queue of packets held back by a rekey, after-auth compression state | send, receive, rekey decision, key switch | kex, everything above | rekey from both sides at once; packets queued during kex | no packet of the wrong class between KEXINIT and NEWKEYS; order kept; both ends switch keys at the same packet |
| Key exchange (`kex.c`, `kexgen.c`, `dispatch.c`) | KEX flags, proposals, strict mode | KEXINIT, method messages, NEWKEYS, EXT_INFO | packets | simultaneous start, wrong first guess, strict KEX | agreement, freshness, progress |
| Authentication (`auth2*.c`, `sshconnect2.c`) | attempt and failure counts, method lists, postponed flag | USERAUTH_REQUEST, method replies | monitor | multi-step methods interleaved; partial success | success only after every required method; attempts bounded |
| Monitor (`monitor.c`, `monitor_wrap.c`) | request permission table, authenticated user, key state | one handler per request | auth, sessions | requests out of order | no request beyond the permitted ones; the user cannot change |
| Listener (`sshd.c`, `srclimit.c`) | child slots, start-up counts, penalties | accept, child report, child exit, SIGHUP | children | slots leaked or freed twice; counters | counts equal live children; limits respected |
| Agent (`ssh-agent.c`) | keys with constraints and deaths, lock, sockets, bound sessions | add, remove, sign, lock, bind | clients, helpers | confirmation and forwarding | no signature outside a key's constraints |
| SFTP (`sftp-client.c`, `sftp-server.c`) | outstanding requests, handles | pipelined reads and writes | channel | replies out of order, short reads | file equals the source; handles not reused while open |
| Buffers (`sshbuf*.c`) | offset, size, allocation, parent/child references | reserve, consume, put, get | everyone | size arithmetic | behaves as a byte queue |
| Windows layer (`contrib/win32/win32compat`) | overlapped I/O state per descriptor, signal queues | read, write, select, APC callbacks | every loop | callbacks between any two alertable waits | no byte lost or repeated |

Keys and cryptography, configuration, host key files, the command-line tools,
token helpers, sandboxes and the portability library are sequential,
byte-level code and are not modelled; `PROJECT.json` lists each with the reason.

## 2. Modules, runs and proofs

| Module | Models | Checked by |
|---|---|---|
| `Channel.tla` | one channel at both ends, with its session and child | `MCChannel.tla`: runs `channel`, `chan_stuck` |
| `ChannelClose.tla` | abstract close handshake | refined by `Channel` |
| `ChannelProofs.tla` | theorems about `Channel`: closing, and the bytes of both directions | TLAPS |
| `SrcLimit.tla` | per-source limits and penalties, as operators | through the two below |
| `Penalties.tla` | the penalty tables over time | `MCListener.tla`: run `lst_start` |
| `PenaltiesProofs.tla` | theorems about `Penalties` | TLAPS |
| `Listener.tla` | the accept loop, its children, SIGHUP | `MCListener.tla`: runs `lst_start`, `lst_live` |
| `ListenerProofs.tla` | theorems about `Listener` | TLAPS |
| `Transport.tla` | packets, key exchange and rekeying at both ends | `MCTransport.tla`: run `transport` |
| `MessageLink.tla` | abstract pair of FIFOs | refined by `Transport` |
| `TransportProofs.tla` | theorems about `Transport` | TLAPS |
| `Auth.tla` | sshd-auth and the monitor during authentication | `MCAuth.tla`: run `auth` |
| `AuthProofs.tla` | theorems about `Auth` | TLAPS |
| `Agent.tla` | ssh-agent, its keys, constraints and connections | `MCAgent.tla`: run `agent` |
| `AgentProofs.tla` | theorems about `Agent` | TLAPS |
| `Sftp.tla` | SFTP transfers, client and server | `MCSftp.tla`: runs `sftp`, `sftp_holes` |
| `SftpProofs.tla` | theorems about `Sftp` | TLAPS |
| `W32Children.tla` | the table of children of the Windows build, as operators | through the one below |
| `W32Process.tla` | overlapped I/O, APCs, signals and children of a Windows process | `MCW32Process.tla`: runs `win32`, `win32_dup`, `win32_signal` |
| `W32Proofs.tla` | theorems about the children and the copy in `W32Process` | TLAPS |

How they fit together: `Transport` shows that what runs on a connection sees
one FIFO per direction whatever rekeying goes on below (`MessageLink`); this is
what `Channel` assumes of its two links and `Sftp` of its pipes. `Auth` starts
where `Transport` has finished the first key exchange and ends with the
hand-over that `Transport` models from the packet layer's side (`HandOver`).
`Listener` sees of `Auth` only the report of success and the exit status.
`W32Process` is the layer below the loops on Windows.

Names follow the source: a definition that models one C function has its name.
Every module takes its instance from CONSTANTs or from a set of setups
(configurations, jobs, options) one of which is chosen in `Init`, so that one
run covers a family of situations.

### `Channel.tla`: one channel, both ends

The two ends are single-threaded loops, so a packet handler or a pass of
`channel_handler` over the channel is one atomic step; the ends interleave
freely and are joined by two FIFO links (TCP with the encrypted transport on
top: reliable and ordered; what follows a broken connection is the end of both
processes). `ch[p]` is the `Channel` structure of end `p`:

| Model | Code |
|---|---|
| `type` | `c->type` (`none` and `freed`: not in the table) |
| `istate`, `ostate` | `CHAN_INPUT_*`, `CHAN_OUTPUT_*`; `WAIT_OCLOSE` and `WAIT_IEOF` are never entered by this code |
| `flags` | `CHAN_EOF_*`, `CHAN_CLOSE_*` |
| `input`, `output`, `extended` | lengths of the three buffers |
| `lwin`, `cons`, `rwin` | `local_window`, `local_consumed`, `remote_window` |
| `efd`, `extusage` | whether the stderr descriptor is open, and its direction |
| `detach` | `detach_user` and `detach_close` |
| `out` | packets this end has sent and the other has not taken |
| `child` | the session's child process; `exited` until `collect_children` runs |
| `moved` | history: bytes read from and written to the applications, bytes of the texts put on the client's stderr (`told`), whether the exit status was delivered, whether the client's side gave up |
| `fault` | a `ssh_packet_disconnect`, `fatal` or client exit |

Functions keep their C names: the `chan_*` functions of `nchan.c` and the
`channel_*` functions are functions from a record to a record, and an action
applies the handler's calls in the code's order. `HandleOpen` is a whole pass
(`channel_pre_open`, garbage collection, `poll`, `channel_post_open`, garbage
collection) because nothing else runs in between. `SessionInputChannelReq`
stands for every request that starts a program; which program, and why it may
be refused, is a free choice. `SessionX11Req` stands for the requests whose
refusal a mux session only reports: `client_status_confirm` then puts a text on
`c->extended`, `ErrorText` bytes that no window was charged for and that
`channel_handle_efd_write` credits to `local_consumed` like the rest. Replies
come in the order of the requests, so the packet type says which request was
refused (`REFUSED`, `FAILURE`). The client is `ssh`'s own session
(`DetachClose = FALSE`), a multiplexed session (`TRUE`), or either end of a
forwarded TCP connection (`Kind = "tcp"`).

Abstractions: data are byte counts; a read or write moves any number of bytes
the code allows; the inactivity timer may fire whenever a channel is open;
rekeying only delays `channel_output_poll`, which the interleaving already
covers; datagram and filtered channels differ only in framing, except that a
filtered (tty) read is not limited by the window, which is kept. Left out
because no modelled state reaches them: the zombie test of `channel_lookup`, the
running total `local_window_exceeded` (one excess is a fault already), the
`fatal` on an overflow of `remote_window` (`WindowAgreement` bounds what is
credited; the lengths of the texts are far below 2^32), and the case of
`mux_master_control_cleanup_cb` for a session channel that is still opening (the
control channel is not read until the open is answered, `c->mux_pause`). The
request for a pty is not modelled: its refusal also writes a text, and
for a mux client that asked for a tty calls `mux_tty_alloc_failed`
(`clientloop.c:869`), which ends the master with `fatal` ("missing mux") if the mux client left while the
reply was under way (`mux.c:1305`); that is an observation on the source, not
the result of a run.

`ChannelClose.tla` is the abstract close handshake: each end sends CLOSE at
most once, answers one it receives, and forgets the channel only after both.
`Channel` refines it (`Close == INSTANCE ChannelClose WITH ...`).

#### Runs

Both use `WindowMax = 2` and `MaxPacket = 1`: the window closes after two
packets, reopens (`lwin < WindowMax \div 2` after both) and packets have to be
split. The byte bounds (one to three per direction, one of stderr) let the
window fill, an adjustment travel while data are under way, and EOF overtake a
buffer that has not drained. The system stops when the channel is freed, hence
`CHECK_DEADLOCK FALSE`.

`channel` covers five scenarios, one per behaviour, each an instance of
`Channel` with constants of its own:

| Scenario | Situation |
|---|---|
| `session` | a command on pipes with stderr, server-side writes may fail |
| `mux` | a mux session whose client may vanish and whose requests may be refused, with one byte of text each, timeouts at both ends and failing writes to the client (safety only: nothing makes a mux client answer) |
| `read` | a command whose applications read to the end |
| `tty` | a command on a pty that a background process holds open for ever |
| `tcp` | a forwarded connection with timeouts, write errors and failed connects |

It checks, beside the type invariant: `NoFault` (no disconnect, `fatal` or
premature exit is ever reached), `QuietAfterClose` (nothing follows CLOSE),
`FreedAfterClose` (a channel number is reused only after both CLOSEs crossed),
`OutputComplete` (an orderly end delivers every byte), `ExitStatusBeforeClose`,
`WindowAgreement` (four counters and two links add up; what an end offers
exceeds `local_window_max` by at most the uncharged texts), `CloseHandshake` (the
refinement) and `FreedInTheEnd` (liveness in `read`, `tty`, `tcp`).

`chan_stuck` expects a **violation**: a session that never closes, see the
finding.

Fairness (`Fairness`): the loops keep running (weak fairness of dispatch,
output poll, handlers and child collection, each of which stays enabled until
it runs: both loops call them on every iteration), and the applications
eventually read what is pending, finish writing and exit. Nothing is assumed of
timers, failures or, on a pty, of the end of output.

#### Finding: a session that does not close

If a write to ssh's standard output fails while its standard input is at end
of file, `chan_shutdown_write` throws away the output buffer without counting
it as consumed, and `channel_pre_open` stops writing the buffered stderr since
both directions are closed. No window update is sent for either. A server whose
window ran out then no longer polls the command's stderr, so does not see its
end, and waits for it before it sends EOF and CLOSE. Incoming data after the
failure is credited on purpose ("Otherwise the connection might deadlock",
`channels.c:3516`), data buffered before it is not.

#### Proofs (`ChannelProofs.tla`)

For every `Kind`, window, packet size, byte bound and failure pattern allowed
by the assumptions in `Channel.tla`:

- `TypeCorrect`: `Spec => []TypeOK` (in particular windows and buffer lengths
  are never negative, where the C code would wrap);
- `FaultFree`: `Spec => []NoFault`;
- `Quiet`: `Spec => []QuietAfterClose`;
- `FreedClosed`: `Spec => []FreedAfterClose`;
- `ImplementsClose`: `Spec => CloseHandshake`, the refinement of `ChannelClose`;
- `StatusBeforeClose`: `Spec => []ExitStatusBeforeClose`;
- `WindowsAgree`: `Spec => []WindowAgreement`;
- `OutputIsComplete`: `Spec => []OutputComplete`.

The first four rest on one inductive invariant, `IInv`. `Sane` relates the fields of one
record (a freed channel has closed directions, CLOSE_SENT implies both closed,
EOF_SENT implies input not open ...). `LinkOK` says what may be in the link from
`p`, as a shape of the packet sequence tied to `p`'s flags and the receiver's
flags (CLOSE is last and present exactly while sent and not received; no data
after EOF; no EXT to a client that saw EOF). `Phase` ties the two ends'
types to the open handshake (who may exist while OPEN, CONFIRM or OPENFAIL is
under way), and `SessionOK` ties the session's callback to the child, which is
what keeps the channel alive until `session_exit_message`. None of them is inductive by itself: that a packet never meets a freed channel
depends on what is in the other link, which depends on the flags, which depend
on the states. `Advance` collects what every chain of `chan_*` calls does to a
record, and each action is then proved from it.

What every action is shown to do (`Kept`) has three more parts. `CloseStep`: it is
a step of `ChannelClose` under the refinement mapping, or none; the
mapping reads the two CLOSE flags and the types, so that the only hard cases are
the handlers that send or take a CLOSE, and the free that follows in the same
pass (`AdvanceMaps`, `SameHandshake`). `ExitStep`: an exit status in the link is
still there after the step or has been delivered. `Sworn`: a session keeps
its channel while the child has not been reaped. The last two make `ExitInv`
inductive: unless the client's side gave up, a child that runs or has exited
still has its channel, and the status of one that was reaped was delivered or is
on its way, in front of the CLOSE.

The last two, in the second half of the module, are about amounts. `Carried`, the bytes or
credit in a link, is a recursive function over the packet sequence; that
appending a packet adds its size and delivering the first one takes it away is
shown by induction over the positions, written with sets of numbers and the
well-foundedness of `<`, since an induction rule with an operator
parameter cannot be used. On top of `IInv`:

- `FlowInv`: for each end, what the other end may send, what it has in flight and
  the credit on its way to it are within this end's window (`Within`), what this
  end offers, buffers and has yet to credit is at most `WindowMax` and, at the
  client, the texts put on its stderr so far (`Budget`, `Limit`),
  and a channel not yet in use has nothing of either (`Blank`). Each `chan_*` and
  `channel_*` function is first shown to keep these amounts, or to move them by
  what it sends or takes (`Quiescent`, `Still`, `Flows`). A channel that is being
  closed drops data without credit, so `Within` is an inequality: the
  finding above is the case where it is strict for good.
- `OutInv`: what the server read is what the client wrote, plus what the client
  buffers, what is in the link and what the server buffers, for stdout and stderr
  apart, the texts counted as read (`Books`); the server's input is closed only with empty buffers and after
  EOF (`ServerGood`); the client's output leaves `open` only after EOF or CLOSE came
  and is closed only with empty buffers (`ClientGood`). `Books` needs
  `FlowInv`, since `channel_input_data` drops what exceeds the window, and the
  link shapes of `IInv`, since nothing may be left in the link behind the EOF.

Both invariants were checked with TLC on the instances of run `channel` before they were
proved. Only model-checked: liveness.


### `SrcLimit.tla`, `Penalties.tla`, `Listener.tla`: the listening process

`SrcLimit` holds the functions of `srclimit.c` under their own names, as
operators on the two tables they work on: `src`, the list of unauthenticated
connections, as pairs of an id (the number of the listener's end of the child's
socket pair) and an address block; and `tab`, the penalties of both families,
from block to time left (`expiry - now`, the only form in which the code uses
an expiry) and the active flag. `Penalties` is the penalty table by itself,
under any sequence of penalties, connection attempts and time. `Listener` is
`server_accept_loop` with all of it.

| Model | Code |
|---|---|
| `slot[i].pipe`, `early`, `pid`, `host` | `pipefd`, `early`, `pid`, `addr` of `struct early_child` |
| `slot[i].stage` | `config`: `config` buffer left to send; `keys`: `keys` buffer; `done`: neither |
| `active`, `listening` | `children_active`, `listening` |
| `flags` | `received_sigchld`, `received_sighup`, `lameduck` |
| `sock[fd]` | the pair: whether the child's end is open, how much state was sent, what the child said |
| `proc[pid]` | the processes; `ours` until the listener restarts, `authed` once the user is |
| `fault` | `fatal()` in `child_register` and `child_finish`, or a problem child |

The loop is single-threaded and handles one event after another, so each event
is an action: a connection dropped or accepted (`fork` may fail), configuration
and keys written, a pipe closed, a message read, all exited children reaped, a
SIGHUP taken up. Processes start, authenticate and exit, and signals arrive,
between any two of them, which includes every order in which one pass of the
loop serves what `poll` returned. What a process can do on its pipe is taken
from `sshd-session.c`: one 0 when it has its state, one 1 after authentication,
then close. The model is of the `fork` build with a per-source limit
configured. After a SIGHUP the new listener knows nothing of the old one's
children, so the limits are stated of its own (`ours`).

| Run | Shows |
|---|---|
| `lst_start` | No slot leaked, freed twice or overrun; MaxStartups and per-source limits hold of the real processes; nobody is left waiting for its state; per-source entries match open pipes. In the scenario `tables`: tables of six hosts in five blocks of two families stay within their size and a penalty ends only by running out or by eviction of its own family |
| `lst_live` | Slots come back, SIGHUP ends in a restart, nobody is refused for ever |

The scenario `tables` runs `Penalties` by itself, because tables that overflow
need more sources than the listener's state space allows: three IPv4 blocks in
a table of two (deny-all mode), two IPv6 blocks in a table of one (permissive
mode), penalties of zero to three units with a maximum of two.

Two things the model shows and the runs do not claim against:
`child_reap` may run before the child's last message is read (`sshd.c:987`), so
a client that authenticated and left at once may be penalised; and a first
penalty above `max` is entered unreduced (`srclimit.c:430`), after which
another offence shortens it, to `max`. `PenaltiesStand` therefore says that only
time shortens a penalty to less than `max`, and the run has one above it.

Bounds: two slots and three processes, of one known source or of none, are
the least with which both limits could be overrun, slots are reused while a
process lives on, two exits share one SIGCHLD, a pipe's number is reused and a
source reaches its limit while others connect. Process ids are only compared,
so the run uses their symmetry (it checks no liveness). `Begin = 1` of `MaxStartups = 2` exercises all three cases of
`should_drop_connection` (`r` in 0 and 99 stands for the random draw). The
liveness run has one slot, and two processes of two sources in deny-all mode.
Penalties of one unit and a maximum of one let them start, add up, be capped
and run out. `CHECK_DEADLOCK FALSE`: a listener with nothing to do waits.

Fairness: the loop serves every event (`ppoll` reports all of them on each
pass), a process reads its state, and authenticates or exits (LoginGraceTime
kills it otherwise, and a session is assumed to end), and time passes. Nothing
is assumed of connections and signals.

#### Proofs (`ListenerProofs.tla`)

For any `MaxStartups`, set of process ids, sources and limits: `TypeCorrect`,
`FaultFree`, `LimitsHold`, `NobodyStranded` and `SourcesStayTracked`, the five
invariants of `lst_start`. The assumptions are those of `SrcLimit.tla` and
`Listener.tla` (`Begin` at most `MaxStartups`, as `servconf.c` enforces).

The inductive invariant `IInv` is needed because none of the five is inductive:
that `listening = 0` implies that nobody is waiting follows only from
`listening` being the number of slots with `early` set and an open pipe
(`Counts`), from every open end belonging to exactly one slot and process
(`Apart`, `Procs`), and from what may be in a pipe at each stage (`Talk`: a
waiting process has said nothing and its slot is still `early`; a ready one has
said 0, read or not). `FaultFree` combines `Counts` with the arithmetic of
`should_drop_connection`; `LimitsHold` maps each unauthenticated process to its
slot, and to its per-source entry, one to one. `CloseStep` and `ProcessStep`
carry the actions that close a pipe and those of a process.

#### Proofs (`PenaltiesProofs.tla`)

For any hosts, blocks, families' table sizes, penalties and overflow modes:

- `TablesAreBounded`: `Spec => []TableBounded`;
- `PenaltiesHold`: `Spec => PenaltiesStand`, also for penalties above the
  configured maximum, which `servconf.c` allows.

Both rest on `Evicts`: in a family that is over its size by one entry,
`srclimit_early_expire_penalties` removes exactly the entry that all others
outlast, which exists because the expiry tree's order is total. That the family is
never over by more is the invariant (`TableInv`: finite tables that fit), and the
count also shows two things the code leaves implicit: an eviction never happens in
deny-all mode, and not for a block whose own overdue entry was dropped by the
same call. The theorems are of `Penalties`; `lst_start` checks the same two
properties on the instance it calls `tables`.

Only model-checked: the liveness properties.

### `Transport.tla`: packets and key exchange, both ends

`end[e]` is the `struct ssh` of one end: the two keys, two sequence numbers and
two block counters of `session_state`; the KEX flags, strict mode and the KEXINITs
exchanged; the set of packet types the dispatch table accepts; the queue of
packets held back by an exchange; and `wire`, what it has written and the peer
has not read. Handlers keep their names and are functions from record to
record. A key is named by the pair of KEXINITs its exchange hash covers, so two
ends have the same key exactly when they hashed the same exchange.

| Model | Code |
|---|---|
| `rekeying`, `queue` | `state->rekeying`, `state->outgoing` |
| `done`, `flags`, `my`, `peer` | `kex->done`, `kex->flags`, the cookies of `kex->my`, `kex->peer` |
| `newkeys[m]`, `key[m]` | `kex->newkeys[m]` (derived), `state->newkeys[m]` (in use) |
| `blocks[m]`, `seq[m]` | `p_send`/`p_read` `.blocks`, `.seqnr` |
| `comp[m]` | the delayed zlib context: off, new, used |
| `due` | the rekey interval has run out |
| `handover` | sshd-auth has sent USERAUTH_SUCCESS and exports its state |
| `vol` | history: packets sent under the current key |

`Receive` is one packet through `ssh_packet_read_poll2`, the check of
`ssh_packet_read_poll_seqnr` for types not allowed during an exchange, and the
handler. `SendData` is what `channel_output_poll` sends, which the loops call
only outside an exchange; `SendCtl` everything that is sent at any time.
`HandOver` is `ssh_packet_get_state` in one process and `ssh_packet_set_state`
in the next. A packet counts as one block, so the limit of 2^31 packets
(`packet.c:1092`) is one with `MaxBlocks`, and a test of either is a test of both.

Run `transport` (three connections: strict KEX with delayed compression; the
same with limits so small that every packet starts another exchange; group
exchange without strict KEX, with sequence numbers modulo 10):

- `NoFault`: no packet is met that cannot be decrypted, decompressed or
  dispatched, no exchange is asked for twice, no key installed before it is
  derived, although both ends may start exchanges at the same moment;
- `NonceFresh`: no sequence number comes round again under one key;
- `FifoLink`: `Transport` refines `MessageLink`;
- `ExchangesEnd`, `AllDelivered`: liveness.

Bounds: one or four data and one control message per end, one time-out or `~R`
per end, one failed login. Two rekeyings of each end may overlap in every way.
Fairness: an end that can read does so, and makes the rekey check, since both
loops do both on every pass; it is written out as `[]<>` formulas because the
enabling conditions are known.

Observation: `ssh_packet_send2` means to stop flushing its queue when a packet
needs another exchange (`packet.c:1464`), but `kex->done` is still 0 then, so
`ssh_packet_need_rekeying` never holds, the `kex_start_rekex` at `packet.c:1470` is
never reached (`Flush` leaves it out) and a long queue is sent under one key
whatever `RekeyLimit` says. The queue is bounded by what accumulated during one
exchange, and `NonceFresh` holds.

Left out: the arithmetic of ciphers and key exchange methods, the padding and
length checks, proposal negotiation beyond its result, a wrong first guess,
keepalive and ignored messages, and the banner exchange.

#### Proofs (`TransportProofs.tla`)

`NothingFails` (`Spec => []NoFault`) and `TypesHold` (`Spec => []TypeOK`), for any
set of options, any number of messages and any number of exchanges. `NoFault` is
far from inductive: whether the next packet can be decrypted depends on all that
was written before it and on what the peer did meanwhile. The argument:

- A *position* says where one direction is: between which packets, in which
  exchange, how many packets into the dialogue before authentication, and with
  which number, compression context and (`Key`) key the next packet goes. `May`
  and `After` say what an end may send there and where that leads. What is on
  the wire is a `Path` from the position its reader has reached to the one its
  writer has reached, so the head of the wire always fits the reader's state.
- `Local` ties the state of an end to its two positions, `x` (read) and `y`
  (written): how far one direction of an exchange may be ahead of the other
  (`Steps`), which derived keys still wait (`Derived`), which types the dispatch
  table has (`Accepts`), and that nothing is held back outside an exchange. This
  is where two simultaneous KEXINITs become one exchange.
- Before a user is accepted everything is counted: what an end has written is a
  function of what it has read (`Written`). This bounds sequence numbers and
  blocks there, which is why neither "wrapped during initial key exchange" nor
  "RekeyLimit exceeded before authentication completed" occurs.
- Two ends are `Joined` when each reads where the other's wire begins and both
  are before or both after acceptance; they are `Awaiting` from the server's
  USERAUTH_SUCCESS until the client reads it, when the server already reads
  with the new compression context and the client has written nothing.

`Both` (one of the last two) with the types is the inductive invariant. The
flush of the queue in `ssh_packet_send2` is a recursive function in the model so
that an induction over its length can be written out in the proof.

One assumption, `OptionAssumption`: the modulus of the sequence numbers is at
least 8 (it is 2^32) and the limit before authentication is at least the failed
attempts plus ten blocks. The first is what the initial exchange needs. The
second is where the model's unit, one block per packet, meets the code: the
limit of `ssh_set_newkeys` is 2^(2 * block size) cipher blocks or, for small
blocks, 1 GB of data, and `MaxAuthTries` ends the dialogue long before.

`FifoLink` and `NonceFresh` stay with TLC. The first would have to number what
is held back and filter the wire through an exchange; for the second the code
has no bound to prove from: it sends whatever was held back under one key (see
the observation above).

### `Auth.tla`: authentication in sshd-auth and the monitor

Two processes, each with its own `Authctxt`: `c` is sshd-auth, which reads the
client's packets, `m` the monitor, which it asks over a pipe and which alone
decides. A handler of sshd-auth is cut at each question to the monitor (`pc`
says where it waits, `Resume` how it goes on); a turn of
`monitor_child_preauth` (`MonitorRead`: permission check, handler, method
lists, root check, failure count) is one step. The client is arbitrary: any
request, any response, at any time, also during a PAM conversation.
Configuration and facts about the user (`cf`) are chosen in `Init`.

Run `auth`, over seventy combinations of required method lists, root with
each `PermitRootLogin`, forced commands that agree or conflict, PAM, empty
passwords, invalid users and other services, with `MaxAuthTries` 2 and at most
5 requests (1024 in the code; 5 let a list of two methods be completed after
every mixture of failures):

- `SessionJustified`: a session starts only after the monitor verified every
  method of one configured list in order, for a user who may log in;
- `KeysCountOnce`: no key counts twice;
- `GuessesBounded`: `MaxAuthTries` bounds the wrong passwords and signatures
  and the PAM conversations that fail on a wrong password, whatever the mixture
  (one more if the initial `none` tries the empty password). After a wrong
  answer `sshpam_query` need not fail: PAM may show a text or ask again, and the
  client may then leave the conversation, which `auth2_challenge_stop` ends
  without a failure in sshd-auth. The monitor counts it (`given_up`), but
  gives up only when its count exceeds `MaxAuthTries` (`monitor.c:357`), so
  together with such conversations there can be `MaxAuthTries` + 1; the run
  reaches that number. How often PAM asks again within one conversation is
  PAM's affair: sshd does not count it;
- `ContextsAgree`: for users without root, PAM, forced commands or empty
  passwords the two contexts never drift apart and no assertion is reached;
- `RequestsAnswered`: the processes never wait for each other for ever
  (fairness: both run; the client need not).

Where the two contexts do drift apart, as the code stands (all covered by the
run, and harmless for the properties above):

- sshd-auth refuses root before it updates its lists, the monitor after;
- the monitor ignores that `auth_activate_options` failed;
- PAM conversations the client abandons are counted by the monitor only;
- if `sshpam_init_ctx` fails the request fails, but the monitor's permission for
  another one is used up (`MON_ONCE`, given back by `PAM_FREE_CTX` only): the
  next `keyboard-interactive` request ends the connection;
- a request for another service makes the user invalid in sshd-auth only;
- an empty first password is called `none` by the monitor;
- a request to change the password is refused and counted by sshd-auth only.

#### Proofs (`AuthProofs.tla`)

For any configuration, any set of keys, any `AttemptLimit` and a client that
does what it likes:

- `TypeCorrect`: both contexts and the pipe keep their types (`TypeInv`, which the
  other three need);
- `SessionsAreJustified`: `Spec => []SessionJustified`;
- `KeysAreUsedOnce`: `Spec => []KeysCountOnce`;
- `GuessesAreBounded`: `Spec => []GuessesBounded`;
- `ContextsStayInStep`: `Spec => []ContextsAgree`.

The assumption is that every configuration is one (`AuthAssumption`: `Configs`
within `Config`). The invariant of the first four has three parts. `MonitorInv` speaks of the monitor alone,
as it should: what is left of each of its lists is the end of a configured one,
and the methods before it were verified in that order (`Rest`, with the order as an
increasing map into `proven`); once it has decided, one list is empty and root
was allowed; every key that was counted is in `prev_keys`, and the one it
is being asked about is not. `PipeInv` says that the two processes take turns: only the last
request awaits an answer, and it is the one `c.pc` waits for. `GuessInv` is what
`MaxAuthTries` rests on: the guesses the monitor was made to check are at most
sshd-auth's failures, plus one that it has not counted yet (`Late`), plus one
if empty passwords are permitted, since a first request for `none` is not
counted as a failure. It is proved of sshd-auth's count because the
monitor's own differs from it in the cases listed above; the conversations it
does not count are the reason for the second half, `CountInv`, which
is about the monitor alone: every guess and every conversation given up is one of
its failures. That needs `GrantInv` (PAM grants nothing before it was told
the right password), or a conversation could end with a wrong answer and
still succeed.

`ContextsStayInStep` adds `AgreeInv`, which sees the two processes together: for
each place sshd-auth can be at (`c.pc`), the request it sent is still in the
pipe, or the monitor has answered it and its own context has moved by exactly
what that answer means (`AtPassword`, `AtVerify` and so on). Between a "yes" and the moment
sshd-auth reads it the monitor is one step ahead (`Accepted`: its lists are what
sshd-auth's will be after the same removal), after a "no" it may have counted
one failure that sshd-auth has not (`Level(1)`), and at rest the two are equal
(`Level(0)`). The permitted requests are part of every place, which is how the
monitor is shown never to meet one it does not permit. That is why a fatal
error of the monitor is impossible for these users, whatever the client sends.

Only model-checked: the liveness of `RequestsAnswered`.

Left out: GSSAPI and BSD authentication, `PAM_MAXTRIES` (which turns password and
keyboard-interactive off in the monitor), delays, banners' text, host-based
details, and the contents of `authorized_keys` and certificates.

### `Agent.tla`: ssh-agent

`idtab` holds the identities with the time they have left (`death - now`), their
confirmation flag, destination constraints and provider; `sock[c]` a
connection's bindings (`session_ids`) and `session_bind_attempted`; `loop` the
main loop, which drops dead keys, computes the poll's timeout, polls and
handles events. Every request that changes state or signs is an action, with
the checks of its handler: `identity_permitted`, `permitted_by_dest_constraints`
and `match_key_hop` are translated one by one. A host can only sign its own
session ids (`Possible`); what the client says is otherwise free.

Run `agent` (one connection, three sessions of two hosts, one of which has a
certificate, and a fourth session id that is too long, up to two of three keys, nine kinds of constraints):

- `DestinationHonoured`: a constrained key signs nothing but a login to the
  host bound last, reached through hops the constraints allow; it is stated
  over a history of the bindings the agent accepted, not over the agent's
  own record. Left out of that history are session ids longer than
  `AGENT_MAX_SID_LEN` (see the observations);
- `HiddenIsUnusable`: a key not visible on a forwarded connection is not one a
  further binding makes usable (the two tests are separate code);
- `KeysDieOnTime`: the agent never sleeps past a key's death.

One connection is enough because connections share only the table of keys, and
what others do to it is among what this one may do; `AGENT_MAX_SESSION_IDS` is 2
so that the limit is met.

#### Proofs (`AgentProofs.tla`)

For any keys, hosts, sessions, connections, constraints and
`AGENT_MAX_SESSION_IDS`:

- `DestinationsAreHonoured`: `Spec => []DestinationHonoured`;
- `HiddenKeysAreUnusable`: `Spec => []HiddenIsUnusable`;
- `NoKeyOutlivesItsTime`: `Spec => []KeysDieOnTime`.

The assumptions are `AgentAssumption` (lifetimes are natural numbers, tokens and
hosts have the keys the constants give them) and `NamesAssumption` (no user has an empty
name, and no host has the key that stands for the origin or for any
host). The invariant is `BoundInv`: what a connection recorded is, entry by
entry, what it was told with a valid signature, so that a path the agent accepts
from its own records is a path of real bindings; and `SleepInv`: the
timeout of a poll is at most the time every key has left, which needs that the
reaper's minimum is one (`Deadline`) and that table and timeout age together.
`HiddenIsUnusable` needs the types only: it is a fact about the two tests.

Observations: a binding whose session id is too long leaves
`process_ext_session_bind` with `r` still 0 (`ssh-agent.c:1704`): it is answered
with success although its signature was not verified and nothing is recorded,
even on a connection bound for authentication, where `PROTOCOL.agent:31` says that
it is refused. No key exchange makes such an id. The model does what the code
does, and `DestinationHonoured` says that such a binding adds nothing to what the
connection may sign: a client that takes the answer at its word has only bound
less than it believes. An identity that is replaced keeps its provider; a binding that
fails sets `session_bind_attempted` and so hides constrained keys; a
confirmation or a wrong unlock password (which sleeps) may outlast a key's
lifetime within one round; `prepare_poll` keeps a stale array when more
descriptors are needed than allowed. `Signable` tests for a websafe request
together with the other conditions; in the code it comes after the user's
confirmation (`ssh-agent.c:924-935`), so a refusal may follow a question, but what
is signed is the same. Left out: the helper processes, the
reply queue, `fido` user interaction, and the client library.

### `Sftp.tla`: transfers

The loops of `sftp_download`, `sftp_upload` and `sftp_crossload`, statement by
statement where they touch requests, offsets, `highwater` and `maxack`, against
one or two servers that run `sftp_server_main`. A file is a sequence of blocks
with block i of the source holding i, so that a copy can be compared with its
source. Servers may read short, fail any request and stop a write short; a
server of another make (`order = "any"`) may also answer out of order and send
an empty block; local writes and the local `ftruncate` may fail; the user may
interrupt at any time. `x.uncut` is a history variable: the truncation a
transfer makes in the end (`ftruncate` in `Settle`, SSH2_FXP_FSETSTAT in
`UploadTruncated`) failed.

Run `sftp` (25 jobs: fresh, resumed and in-place transfers of 0 to 5 blocks in
pieces of 2, three requests at a time, two faults):

- `TransferFaithful`: a transfer that reports success is an exact copy; the one
  exception is a copy in place whose truncation failed, which begins with the
  whole source and may be followed by the rest of the old file;
- `NoHoles`: when the destination could be written (a download may fail to
  write once) and the truncation did not fail, a transfer that ends early leaves
  the destination as it was or a beginning of the source;
- `TransferEnds`: client and servers never wait for each other (fairness: each
  process runs).

Two faults let a failure meet a short read, or two failures meet each other;
five blocks in pieces of two give three requests, the last one short.

`sftp_holes` (the resumed uploads, one fault) expects a **violation** of
`ContiguousUpload`. The comment at `sftp-client.c:2193` says that `highwater` is
the highest *contiguous* offset acknowledged; `sftp_upload` also counts writes
that failed. In the trace an upload of 5 blocks resumes behind the first, its
next write fails, and the remote file is extended to 3 blocks, two of them a
hole. An upload in place is cut at the same wrong offset and keeps old content
where the failed write belongs.

Observations: `sftp_upload` ignores the answer to the SSH2_FXP_FSETSTAT
(`sftp-client.c:2232`; sftp-server answers FAILURE when it is not permitted or
`ftruncate` fails, `sftp-server.c:1057-1067` and `1907-1909`), and
`sftp_download` only logs that `ftruncate` failed (`sftp-client.c:1837-1839`).
So a shorter source copied in place over a longer file is reported as a success
with the old tail left, and a transfer that failed may keep the holes the
truncation was to remove: this is why both properties speak of `x.uncut`. In
`sftp_download` a second local write that fails is taken for
one that succeeded (`sftp-client.c:1751`; the transfer fails all the same); an
interrupted upload returns 0; sftp-server sends no reply to a message type it
does not know. Abstracted: the pipes are unbounded and a turn of the server
writes its whole output queue, so partial writes and the `sshbuf_check_reserve`
test before `process` (`sftp-server.c:2188-2212`) play no part; `ReplyRoom` is the
same test before the server reads more input. Left out: attributes but the size, `fsync`, failure of the local
`close`, directories, names, limits negotiation.

#### Proofs (`SftpProofs.tla`)

For any set of jobs, sizes, buffer length, number of requests, room for replies
and number of faults:

- `TransfersAreFaithful`: `Spec => []TransferFaithful`, with the exception above;
- `NoTransferLeavesHoles`: `Spec => []NoHoles`.

The assumptions are `SftpAssumption` (`MinRead` is between 1 and `BufLen`, and
there is room for a request and a reply) and `JobAssumption` (a job has one of
the three kinds, and its sizes are natural numbers).

Neither property is inductive: both speak of the end only. The invariant `IInv`
says of every block of the source where it is while the transfer runs.

- `MatchInv` (downloads and crossloads): a request the client waits for and a
  request or reply of the source's server with the same id speak of the same
  offset. Ids are used once, also when a short read is asked for again, so a
  reply is never stored at another's place, whatever the order.
- `DownLoop`, `CrossLoop`: a block below `offset` is in the file, in a request
  the client waits for or, in a crossload, in a write on its way to the
  destination, unless an error is on record or on its way to be recorded. Up to
  `highwater` the file is right even if one write failed. `EndInv`: a
  loop that stops asking has asked for everything or has recorded why.
- `UpLoop`: the writes at the server follow each other without a gap and end at
  `offset`, so an append and a write at an offset put a block at the same place;
  the file is right up to the first of them. `offset` itself is acknowledged, in
  `maxack`, or belongs to a request still waited for, so an in-place upload that
  succeeds is cut at its size and nowhere else.
- `Truncating`, `Closing` and the other phases: what the one call under way asks
  for, and what its answer, if there is one already, says of the file.
  `DownResult`, `UpResult`: the file is right, or it could not be cut and, if
  success is reported, begins with the source and was written in place.

TLC checked `IInv` on the instance of run `sftp` before it was proved. That server and
client never wait for each other (`TransferEnds`) is left to TLC.

### `W32Children.tla`, `W32Process.tla`: a process of the Windows build

On Windows the loops run on `contrib/win32/win32compat`, which gives them
`read`, `write`, `poll`, signals and `waitpid`. Reads and writes are overlapped
operations; their completion routines, and the routines that note a signal, are
APCs, and run only where the thread waits alertably: in `wait_for_any_event`,
under every blocking call, and in the `SleepEx(0, TRUE)` calls of the I/O
functions. The model keeps this exactly: an operation is `idle`, `issued` or
`done` (completed, its APC not yet run), and each place where APCs run says
which results its caller looks at.

| Model | Code |
|---|---|
| `rd` | `read_details` of the descriptor read from: `pending`, what is buffered, `error`; and the operation under way |
| `wr` | `write_details` of the pipe written to, likewise, with the bytes the operation will write |
| `sig` | `pending_signals`, queued APCs, the flag of the SIGCHLD handler, whether a `waitpid` loop is under way |
| `table` | `children`: entries, number of zombies; history of who was registered and reaped, and whose profile was loaded and unloaded |
| `app` | the program: where it is, its buffer, what poll reported |
| `source`, `sink`, `exited` | the other ends of the two descriptors, and the processes that have exited |

The program is the loop of `sshd-session` (poll, nonblocking reads and writes,
children collected after SIGCHLD) or a chain of blocking `atomicio` calls. Bytes
are numbered, so that the copy can be compared with the original. `W32Children`
has the functions of `signal_sigchld.c` on the table, whose entries move at
every insertion, removal and exit.

Run `win32` (nine setups: socket or pipe, SIGCHLD handled or ignored, the sink
lost, four children in a table of three, blocking copies with a signal that
does not interrupt, or with nothing to write; buffers of one and two bytes and a
pipe of one):

- `CopyFaithful`: nothing is lost, repeated or reordered, and the pipe is closed
  only behind all of it;
- `ChildrenTracked`: through all moves, the children registered are exactly those in
  the table and those reaped, never both; zombies have exited;
- `ProfilesFollow`: the profiles unloaded are exactly those of reaped children, and
  every other loaded profile is in the entry of its child;
- `CopyCompletes`: no wakeup of the copying is lost;
- `ChildrenReaped`: every exit is noticed and reaped.

Fairness: the program and the system take their steps, the source ends some
day and the sink reads; nothing makes a child exit or a signal arrive.

#### Proofs (`W32Proofs.tla`)

For any `MAX_CHILDREN`, any number of children and every behaviour of the
process: `ChildrenAreTracked` (`Spec => []ChildrenTracked`) and
`ProfilesStayWithChildren` (`Spec => []ProfilesFollow`). The invariant `TableInv`
is about the table and the set of exited children: ids are distinct and not
reaped, the zombies at the end have exited, every child registered, alive or not,
is in the table or reaped, an entry has the profile loaded for its child, and the
profiles unloaded are those of the children reaped. Every operation except the
registration moves entries; `Rearranged` shows once that reading the old table
through an injection that leaves out only exited entries keeps `TableInv`, and
`sw_remove_child_at_index`, `sw_child_to_zombie` and `waitpid` are instances.

`CopiesAreFaithful` states `CopyFaithful` for buffers and a pipe of any size, any
order of completions and any interruption of the other calls. Its hypothesis,
`Uninterrupted`, leaves out one case, in which the property is false (run
`win32_dup`): a blocking program with something to write, and a child or a signal
that makes its calls fail. All the setups of run `win32` meet it. The property says
where bytes end up; the invariant `CopyInv` says where each of them is: drained, in
the pipe, in the write the system has accepted and not completed (`Flight`), in the
rest of the program's buffer, in the read buffer (`Inbox`), or with the source. Each
of these is a run of consecutive numbers (`Run`), and each starts where the one
before it ends (`Down`, `Got`). What the buffer holds that the system has already
been given (`Taken`) is why an interrupted blocking write breaks it: `fileio_write`
forgets the chunk it waits for, and the run is written twice. Once nobody reads the
pipe nothing is promised but the order of what is in it. The second part of the
property needs `Ended` and `Shut`: an end is only believed when nothing is left to
read, and the handle is only closed when nothing is left to write. The lemmas go by
what a step changes (one operation, the place of the program, the chunk), so that
each handler is a few of them in a row.

Only model-checked: the liveness properties, as everywhere.

Two runs expect a **violation**:

- `win32_dup`: a blocking write interrupted while its operation is under way
  returns -1 with EINTR (`fileio.c:794-803`) although the bytes will be written;
  `atomicio` writes them again.
- `win32_signal`: a signal whose APC runs in `SleepEx` stays in
  `pending_signals`; `wait_for_any_event` looks there only after it was woken
  (`signal.c:307`), so the next wait sleeps with the signal pending, although its
  comment says that it wakes up on any signal.

Observations: an interrupted `fileio_close` returns without closing the handle
while `w32_close` forgets the descriptor (`fileio.c:1107`), so the reader never
sees the end (`CopyCompletes` asks for the bytes, not for the end); a blocking
`fileio_read` that finds a read pending fails with EAGAIN even when data have
come (`fileio.c:588-600`), which `atomicio` survives by polling.

Left out: completions of zero bytes, the threads of `termio.c` for consoles,
sockets as output, listening and connecting sockets, disk files, more than 64
wait objects (`signal_wait.c` spreads them over threads), and signals whose
default is to end the process.

## 3. What is proved, what is only checked

Proved with TLAPS for every value of the constants:

| Module | Invariants | Action properties, refinement |
|---|---|---|
| `Channel` | `TypeOK`, `NoFault`, `QuietAfterClose`, `FreedAfterClose`, `ExitStatusBeforeClose`, `WindowAgreement`, `OutputComplete` | `CloseHandshake` |
| `Listener` | `TypeOK`, `NoFault`, `StartupsLimited`, `NeverStranded`, `SourcesTracked` | |
| `Penalties` | `TableBounded` | `PenaltiesStand` |
| `Transport` | `TypeOK`, `NoFault` | |
| `Auth` | `SessionJustified`, `KeysCountOnce`, `GuessesBounded`, `ContextsAgree` | |
| `Agent` | `DestinationHonoured`, `HiddenIsUnusable`, `KeysDieOnTime` | |
| `Sftp` | `TransferFaithful`, `NoHoles` | |
| `W32Process` | `ChildrenTracked`, `ProfilesFollow`, `CopyFaithful` (where no blocking write is interrupted) | |

Four of these allow for what the code leaves open, and say so where they are
described above: `WindowAgreement` counts the texts `client_status_confirm` puts on
stderr, `PenaltiesStand` lets a penalty above the maximum be shortened to it,
`GuessesBounded` allows one more with the PAM conversations the client leaves, and `TransferFaithful` lets
the rest of an old file follow a copy in place that could not be cut.

Everything else is model-checked on the instances described above.

Left to TLC, and why:

- Liveness under fairness, in every module: out of the prover's reach.
- `NonceFresh` of `Transport`: it holds of the instances, but the code has no
  bound on what it sends under one key after an exchange, so there is nothing
  to prove it from for every queue.
- `FifoLink` of `Transport`: the mapping filters two sequences (`SelectSeq`), and
  the library states nothing about filters that the provers can use.
- `CopyFaithful` of `W32Process` where a blocking write is interrupted: it is
  false there (run `win32_dup`).

`MCListener` states `TableBounded` and `PenaltiesStand` of the listener composed
with the tables; what is proved is the statement about `Penalties` itself
(`TablesAreBounded`, `PenaltiesHold`).

Worth doing next: `FifoLink` from the paths of `TransportProofs`, with a count
of the application messages in each position; and the client's side of user
authentication as a component of its own.

## 4. Not modelled, and why

- Keys, certificates, signatures, ciphers, MACs and key exchange methods:
  arithmetic and byte formats without protocol state. The vendored
  cryptography alone is a seventh of the source.
- Configuration (`readconf.c`, `servconf.c`), host key files, `ssh-keygen` and
  the other tools, `scp`: sequential programs, mostly parsing and output.
- `sshbuf`: sequential, with unit tests and a fuzzer; every user of it here
  abstracts it to a byte count or a sequence.
- User authentication in the client (`sshconnect2.c`): `Auth` lets the client do
  anything, which includes what this code does.
- The mux control protocol: `Channel` has the session channel and the
  disappearance of its client. `mux_pause` keeps the control channel from
  being served until the session is confirmed, so that `chan_send_eow2`
  (`nchan.c:230`) is not reached without a remote id; this is argued, not checked.
- Keepalives (`serverloop.c:112`, `clientloop.c`): they count unanswered requests
  and end the connection; a request on a channel whose CLOSE was sent stays
  unanswered until the peer's CLOSE resets the count.
- The `posix_spawn` branch of the accept loop on Windows (`sshd.c:1210`), where
  `listening` is decremented and never incremented; SIGHUP, its only user, does
  nothing there.
- Helper processes for tokens, sandboxes, the Windows agent service, shell host
  and console, the portability library: wrappers of system interfaces.
