# Verification of the NCTU network programming projects

The repository holds four student projects: npshell, a shell with *numbered
pipes* (project 1); three servers that offer it to remote clients (project 2);
a web console that drives such shells (project 3); and a SOCKS 4 proxy
(project 4).  This directory holds TLA+ models of the parts whose behaviour
depends on concurrency and on long sequences of commands, TLC configurations
that check them, and proofs of the central results for all parameters.

`src/` is abbreviated below: `P1` = `project1/include/shell.cpp`, `SP` =
`project2/np_single_proc.cpp`, `SS` = `project2/include/single_shell.cpp`,
`MP` = `project2/np_multi_proc.cpp`, `MS` = `project2/include/multi_shell.cpp`,
`CO` = `project3/console.cpp`, `CG` = `project3/main.cpp`, `HT` =
`project3/http_server.cpp`, `SO` = `project4/socks_server.cpp`.

## 1. Inventory

| component | state | operations | interaction | what is hard | what makes it correct |
|---|---|---|---|---|---|
| npshell (`P1`; `project2/include/shell.cpp` is the same loop on a socket) | list of 1002 nodes, each `-1` or the two ends of a pipe; open descriptors; children | a line is parsed into commands; each aims its output `|N` nodes ahead, closes the write end of its input, is forked, possibly waited for; the list moves on | children inherit every pipe end open at the fork; SIGCHLD handler reaps concurrently with `waitpid` | who keeps a write end open, and so whether a reader ever meets end of file; lost descriptors; blocking on a full pipe | each command reads exactly what was aimed at it; no descriptor lost or closed early; no circular wait; the prompt returns |
| np_simple | as above | one session after another in one process | accept loop around the shell | what a session leaves behind | a new session starts with nothing scheduled |
| np_single_proc (`SP`, `SS`) | `client[30]`, the watched set, each client's list, `pipe_write_to`/`pipe_read_from` as descriptor numbers | accept, serve a line, depart; numbered pipes, user pipes, who/tell/yell/name | one process, one `select()` round, broadcast writes | numbers that are closed and reused; two tables that must agree; departures in the middle of a round | each entry names the open descriptor it is meant to; user pipes keep their promise |
| np_multi_proc (`MP`, `MS`) | `slave[30]` in shared memory: id, pid, name, message buffers, two rows of marks; FIFOs `user_pipe/ItoJ` | a child per connection claims a slot, serves, frees it; messages by buffer and signal; user pipes by marks and FIFO | unlocked shared memory, SIGUSR1/2, blocking `open()` | every check-then-act on the table; signals before handlers; an `open()` that never returns | a client keeps its slot; slots get free again; messages are shown; sender and receiver meet |
| console.cgi (`CO`) | the form's sessions; per remote shell a socket and a command file | two passes over the query string; resolve, connect, read, send the next line at a prompt | asynchronous callbacks of one `io_service` | empty fields; the prompt `"% "` split over two reads, twice in one, or part of output | the sessions the user filled in are started; every script is sent to its end |
| cgi server (`CG`) | one acceptor, one `_socket`, `_data`, `cgi_name`, `web_socket` | accept, read a request, panel or console, and the console's sessions | callbacks use what other callbacks have replaced | a second connection before the first one's request was handled; accepts that multiply | a page goes to the browser that asked; it never stops accepting |
| http_server (`HT`) | acceptor, socket, signal wait | a fork per connection, exec of the CGI | SIGCHLD as an asynchronous operation, inherited by the child | coalescing signals; a child whose `io_service` does not end; fork failing | every request is answered, no descriptor and no child is left over |
| socks_server (`SO`) | two sockets, two buffers; `socks.conf` | a child per client: request, name, firewall, CONNECT or BIND, data loop | two `select()`s per round; SIGCHLD | ends of stream, resets, slow peers, requests in pieces | served only by a rule; answers in order; bytes kept in order and delivered; children end |
| printenv.cgi, `project1/bin` commands, Makefiles, pages | none | filters and output | - | - | - |

The hazards, each at its line and with the properties that would catch it, are
in `PROJECT.json`.

## 2. Modules

| module | models | composed with |
|---|---|---|
| `PipeSchedule` | the abstract promise of numbered pipes: a pipe aimed `N` ahead counts down and is read by exactly one command | - |
| `NumberedPipe` | `shell()` with np_simple's accept loop around it, its children, the kernel's pipes | implements `PipeSchedule` |
| `UserPipes` | the abstract promise of user pipes: at most one per ordered pair of users, kept until read, gone when either leaves | - |
| `SingleProc` | np_single_proc | implements `UserPipes` |
| `MultiProc` | np_multi_proc | - |
| `QueryString` | the two passes over the query string | part of `ConsoleCgi` |
| `Console` | the ShellSessions and the shells at their other ends | part of `ConsoleCgi` |
| `ConsoleCgi` | main() of console.cgi: the string is read, then its sessions run | composes `QueryString` and `Console` |
| `CgiServer` | the cgi server's handlers and what they share | - |
| `HttpServer` | http_server and its children | - |
| `Relay` | redirectData(), two connections and their peers | part of `SocksTransfer` |
| `BindTransfer` | the loop of a BIND | part of `SocksTransfer` |
| `SocksTransfer` | the data phase of a socks_server child | composes `Relay` and `BindTransfer` |
| `SocksPromise` | what a SOCKS client is told, abstractly | - |
| `SocksServer` | main() of socks_server and its children | implements `SocksPromise` |
| `NumberedPipeProofs`, `SingleProcProofs`, `MultiProcProofs`, `ConsoleCgiProofs`, `CgiServerProofs`, `HttpServerProofs`, `RelayProofs`, `SocksServerProofs` | theorems and their proofs | extend the component (`RelayProofs`: `SocksTransfer`) |
| `MCNumberedPipe`, `MCSingleProc`, `MCMultiProc`, `MCSocksServer` | instances for TLC | extend the component |

### NumberedPipe

`ring[i]` is the pipe in the i-th node counted from `first`; `shellW`/`shellR`
are the pipes whose write/read end the shell has open; `proc[q]` is the q-th
forked command with the ends it inherited; `buf[p]` counts what a pipe holds.
One action per thing the shell does: `Builtin` (setenv, printenv), `Exec` (a
command: target pipe, close of the input's write end, fork, and either the wait
or the close of the read end and the move to the next node), `Resume` (the
return of `waitpid`), `NextSession` (exit or end of file, and np_simple's next
`shell()`), `Handler` (SIGCHLD).  The children `Write`, `Read` and `Exit`; none can
die of SIGPIPE, because a command inherits the read end of the very pipe it
writes and keeps it open (`P1:164-181`), so that a writer nobody reads blocks.
`|` and `!` differ only in where stderr goes and are one option.

Inputs are the legal ones: `|N` with 1 <= N <= 1000 (the list has 1002 nodes),
non-empty commands.  The end of a command is nondeterministic, so an unknown
command is one that writes and reads nothing.  A pipe is only named when one is
free: what happens when `pipe()` fails (project 1 goes on with uninitialised
numbers, project 2 retries for ever) is not explored.

### SingleProc

Descriptors are numbers handed out lowest first: `open[f]` says what number `f`
is, and a pipe end remembers the number of its other end.  `client`, `ring`,
`wr` (`pipe_write_to`), `rd` (`pipe_read_from`) are the code's tables of
numbers.  `readfd`, `ready` and `cur` are the `select()` loop: what is watched,
what the last call reported and the loop has not come to, and the slot whose
line is being executed.  A command, its `waitpid()` included, is one step,
since nothing else in the process runs meanwhile.  `Logout` is the whole of
case 1 in `SP:113-139` with the destructor (`SS:38-54`), including
`close(pipe_read_from[i] != -1)`, which closes descriptor 1 (`SP:134`).
`strays` counts departures that did so.  After the first, number 1 is free and
the next pipe or client gets it (the server's own `cout` then goes there, and
so does a child's `dup2`, neither of which is modelled); after the second, it
may be closed under its owner.  The model stops there: `Explored` is that bound,
and the properties about the tables say "up to the second stray close".
`AcceptTooMany` is the connection that finds no slot: `client.at(30)` throws and
the server ends.  `AcceptFails` is `accept()` returning -1 (`SP:73`), for want
of a descriptor or because the client has gone: the loop goes on, the slot is
taken by a client whose socket is -1, a `ghost` that can be told and piped to
but is never served and never leaves, and `FD_SET(-1)` sets a bit of the watched
set.  Which one is undefined; the Makefile builds without optimisation, where
the shift by -1 gives bit 63, the constant `OddBit`.  `select()` looks at it as
soon as `maxfd` has come so far, whatever has that number then: if a pipe of
somebody's list has it and can be read, the loop finds no client for it and
`client.at(30)` throws (`ServeNobody`).  Not modelled: environments, message
texts, names longer than the 20 characters their buffer holds, SIGPIPE from a
broadcast to a connection that is gone, and slot numbers out of range.

### MultiProc

The table is `taken` (`id # -1`), `pid`, `name`, and the marks `writeTo` and
`readFrom` as sets of pairs; `pc[p]` is where process `p` is.  Every access of
shared memory is a step, except four loops that are one step each: the scan for
a free slot (`MP:95`), the reset of the newcomer's own two rows (`MP:112`), the
search of the slots for a nickname (`MS:429-438`), and the clean-up of the
others' rows (`MS:346`).  The sender's FIFO is made in the step that finds its
receiver's row without a mark (`MS:512-515`).  A broadcast goes through the
slots one by one: `Post` tests the slot and fills its buffer, `Kill` reads the
pid and sends the signal, which ends a process that has not yet set its handlers
(`MS:274`).  A process whose client left returns to the accept loop it was
forked from (`MP:118-124`) and accepts: `Connect(a)` has any such process as
`a`, and its children start with the handlers set.

The segment is asked for as 30 slots of 3292 bytes and comes in whole pages
(`MP:29`), which leaves room for one slot more.  A newcomer that finds the table
full stops its search at 30 and works on that slot (`MP:94-107`): rows 0 to
`MaxSlot` are the table, `Past` is the slot after it, which no loop over the
table looks at.  Its pid and id are there like anybody's; but when its client
types exit, `pipe_write_to[30]` of row `j` is the pid of row `j + 1`, and
`pipe_read_from[30]` is the row's own first `pipe_write_to` (`multi_shell.h:32-41`),
so that `Clean` then resets pids and marks of others.  A signal to the pid -1
goes to every process (`Hit`), the server included (`up`).

SIGPIPE is never ignored.  A client may go at any time; `Vanish` is the death of
its process at a write to it: of a welcome, a prompt, an error message, or of
what a signal tells it, which may come between any two steps (`Writes`).  The
process is then `gone` with its slot, `mute` if it had filled a buffer and not
yet sent the signal, or `dead` before it had a slot.  End of file at the prompt
(`HangUp`) is the other way a client may leave.

A FIFO is its writers and readers.  `NameFifo` builds the receiver's name for
it from the sender's slot as it is by then (`MS:473`), which is the name of no
FIFO when that client has gone; then `open()` blocks until a writer is there,
whatever becomes of the sender's slot, and releases those that wait.  A sending
command opens when it gets to run, by the name its receiver's id gives at that
moment.  Commands end when they like.

History variables say what went wrong before: `clashed` (processes that scanned
the same slot at the same time, or a slot whose former process had not finished
with it; two clients of the slot after the table are among them), `raced` (nickname checks that overlapped), `torn` (pipes made to a
newcomer that had not reset its row yet), `crossed` (FIFOs whose `open()` was
answered by an end left over from an earlier pipe).  The code has no lock, so
the plain properties do not hold; those stated say exactly what has to happen
before they fail.

### QueryString, Console, ConsoleCgi

`filled` is which of the form's fields are not empty; the query string follows
from it.  `Scan` is one `=` of the first pass, which marks a session whenever it
has counted three values (`CO:136-147`); `Walk` is one round of the `strtok()`
loop, which never sees an empty value and so takes six tokens of a marked
session and three of another (`CO:150-173`).  A round that runs out of tokens
makes a string of a null pointer and ends the program.

A `ShellSession` is `pc[s]` and what of its script is `left`.  `wire[s]` is what
the shell has printed and the CGI has not read, as `%`, blank and anything
else: `Receive` takes any beginning of it and sends one line if `"% "` is in it
(`CO:74-95`).  `Run` is the remote shell: it executes a line, prints output,
which may hold `"% "`, and its prompt; a script ends with exit, or not.
np_single_proc reads every line through a new `FILE` (`SS:228-231`), so that
lines that arrived together with it are lost: `Takes` gives `Run` any number of
the lines typed, of which it executes the first (`k = 1` is what np_simple and
np_multi_proc do, which keep their `FILE`).  Lines are short, so that a `FILE`'s
buffer takes up all of them and cuts none.  `Gone` is a shell whose server ends;
a line written to it is answered with a reset, which may overtake its output,
and the next one ends the CGI (`Crash`).
`ConsoleCgi` runs the sessions the string gave; the parser's variables are set
back when it is done, as nothing reads them again.  A form of more sessions
than `Session` has is read and not run.

### CgiServer

Operations complete at any time and put their handler into `queue`, which is
served in order.  `cur` is `_socket` (`None` when moved from), `data` says whose
request `_data` holds, `name` is `cgi_name`, which only an accept clears, `web`
is `web_socket`.  `Accepted` (`CG:516-549`) closes the connection it replaces,
whose read is aborted unless it has completed already; `Requested` answers on
`cur`, whoever that is by now, moves it away, and accepts once more.  A write
to a browser that has left may throw, as does any write to a `_socket` that was
moved from; the exception leaves `run()` and the server ends (`GoesDown`).  So
does a string made of a null pointer when a half-filled form runs out of words
(`CG:437-460`); which forms do so is not followed, so that any console request
may end the server (`Throws`).
`crossed` is the history variable: a connection was taken while another one had
an unanswered request or could still send one.  A request comes in one read
(`HttpServer` has requests in parts).  A name is written over the one before it
and not ended, so that it may keep a tail (`Over`, `CG:82-84`): `panel.cgi` over
`console.cgi` names neither page, and any other name, which may have any length,
leaves a page's name or spoils it.  The panel's text is one write.
The console of this server is a copy of console.cgi's (`CG:405-485`,
`CG:86-161`): only its page, its sockets and its output are modelled here.

### HttpServer

`armed` and `accepting` are the parent's two operations; a child inherits the
first (`work[c]` is what is pending in its io_service), closes the acceptor and
cancels the wait, whose handler then does nothing because the acceptor is
closed (`HT:72`).  The read handler answers and becomes the CGI; a request read
in part makes `parser()` use null pointers, which ends the child.

### Relay, BindTransfer, SocksTransfer

A round of `redirectData()` is the sequence of places `pc` goes through.
`inbound[x]` and `outbound[x]` are what the kernel holds for peer `x`, `Cap`
bytes each way; `held[x]` and `full[x]` are the relay's buffer for what `x`
sent.  `write()` blocks and is one step per byte (`Push`), so that everything may
happen in the middle of one.  `timeout.tv_usec` is never set (`SO:98-99`):
`unset` says that it happens to be negative, in which case every select() fails
and leaves its sets full.  Linux counts the timeout down over all waits, so any
wait may use it up (`Timeout`).  A peer that breaks loses what was on the way.
`BindTransfer` has the same for a BIND, with `ftpfd` as the code computes it
(`SO:452`): 0, standard input, when `accept()` succeeded, and 1, standard output,
when it failed; both are the server's terminal, unless the latter cannot be read
(`write_only`).  A reset of the client's connection is reported once, by the
`read()` or `write()` that meets it first (`reset`): a `read()` that returns -1 is
not the 0 that makes the loop start over (`SO:485`), and a later write kills the
child.  Its writes are one step each.

### SocksServer

`ppc` is the parent: accept, fork, close.  `cpc[c]` is where the child of
connection `c` is: it reads what there is of a request (three pieces), resolves,
asks the rules, connects or binds, and passes data.  Addresses are sequences of
four segments; `Leading` counts the segments of a rule's pattern that agree, up
to the first that does not (`SO:317-324`).  `Confs` are contents of socks.conf,
among them the repository's and one of near misses; the file does not change
during a run.  Patterns longer than four segments make the code read past
`ip_seg` and are left out.

## 3. Runs

| run | instance | shows |
|---|---|---|
| `numbered_pipe` | 3 pipes of capacity 1, list of 3 nodes, `|1`/`|2`, 3 commands of up to 2 units, symmetric pipes | descriptors accounted for, who waits for whom, what a hang needs, no early read, and that `NumberedPipe` implements `PipeSchedule` |
| `numbered_pipe_live` | pipes that hold all that is written | the prompt returns, zombies are reaped |
| `single_proc` | 2 slots, 9 descriptors, bit 7 for 63, `|1`, one nickname | every table entry valid, every descriptor accounted for, the select loop looks at every client and, but for the bit of a failed `accept()`, never acts on a number that is no client's |
| `single_proc_user_pipes` | 2 slots, 10 descriptors, bit 7 for 63, no numbered pipes | the two tables of ends agree; user pipes as promised |
| `multi_proc_table` | 3 connections, 2 slots, so that one may find the table full; messages to slot 1 | slots kept, slots freed, last message shown |
| `multi_proc_shell` | 2 connections, one nickname, user pipes from slot 0 to slot 1 | nicknames are unique but for overlapping checks, the two marks of a pipe agree, a receiver's `open()` returns |
| `console_cgi` | the whole form of 5 sessions, up to 2 of them run, scripts of 4 lines, one look-alike prompt | the sessions meant are started; a session is stuck only after a prompt was missed; scripts are sent and end, unless the exit was lost |
| `cgi_server` | 3 browsers | one page per connection, and the right one unless connections cross; the server keeps answering |
| `http_server` | 2 browsers | requests are answered, descriptors closed, children end and are reaped |
| `socks_transfer` | 2 bytes per connection, 5 bytes up and 1 down; BIND with 2 pieces each | bytes kept in order, when the loop spins, delivery; a BIND passes on what it reads in order, once, and to its client all of it |
| `socks_server` | 2 clients, 3 firewall files | served by a rule only, answers in order (`SocksPromise`), ends seen, children end |
| `bind_ftp` | a BIND, one piece each | expected violation: the "FTP can read" half of the loop (`SO:494-502`) is about standard input |

Why the bounds are enough.  The list only ever needs a node that is read, one
that is aimed at and one beyond them, so three nodes show every relation between
nodes that a thousand do (and the theorems hold for all lengths); three commands
are two writers and a reader, or a chain; capacity 1 with two units makes pipes
both fill and drain.  Two slots are a sender and a receiver, and a third
connection reuses a slot.  Beyond the standard descriptors, the listener
and two clients, `single_proc` has three numbers left and
`single_proc_user_pipes` four: one or two pipes at a time, so that numbers are
soon exhausted and every number given up is handed out again at once; `OddBit`
is 7 there, a number that a pipe or, once `select()` looks so far, a client can
get.  In `MultiProc`, `Aim`, `Typed` and `Heard` bound which user pipes are
used, which other commands are typed and for which slots messages are followed:
the table is checked with messages to the second slot and no pipes, the pipes
without messages; nothing is piped to or from the slot after the table, and a
tell names a slot of the table.
In the form all five sessions are there, so that empty and half-filled ones
stand before, between and after others; two running sessions are one and
another, and four lines are the fewest with which a line can be lost and lines
be left when the session is stuck.  Three browsers
of the cgi server are one that is crossed, one that crosses it, and one that
comes to what is left.  In `socks_transfer` five bytes fill
the connection to a peer, block a write in the middle of a buffer, and leave
more waiting behind it; the other direction is the same code with the sides
exchanged.  Symmetry is used for pipes only, and only
where no liveness property is checked.  `CHECK_DEADLOCK FALSE` is set where a
behaviour may stop: the number of forks is bounded, the server may be down, a
shell may hang behind a full pipe or an `open()`.

Every property has a mutant in `PROJECT.json`: a plausible slip in one
definition with which TLC finds the property violated.

## 4. Fairness

`NumberedPipe!FairSpec`: a command that can run does (the scheduler), a pending
signal is delivered, `waitpid` returns when its child is dead.  Nothing makes
the user type.  `MultiProc!FairSpec`: a process in the middle of a command goes
on, signals are delivered, a forked sender gets to open its FIFO; commands need
not end and clients need not type.  The operating system gives all of these and
no more is used.

`ConsoleCgi!FairSpec`: the one thread comes to every completed operation, and the
remote shells run.  `CgiServer!FairSpec`: the system completes what it can, the
thread runs what is ready; browsers need not send.  `HttpServer!FairSpec`: the
parent's handlers and the children run; a CGI need not end.
`SocksTransfer!FairTransferSpec`: the process runs, and the peers read what they
are sent, an assumption about them that delivery cannot do without; nothing
makes them send.  `SocksServer!FairSpec`: processes run, `fork()`, which is tried
until it succeeds, does, and a resolver or `connect()` comes back; nothing makes
a data connection come or a relay end.

## 5. Proofs

Every invariant that a passing run checks is a theorem, and so are the three
refinements and the action property `NoEarlyRead`.
The liveness properties are not, but what they rest on is: theorems that say, of
every reachable state, that whoever still waits has an operation, a signal or a
process on its way that will take it up (the *state halves* below).  What is
left of those properties to TLC is that fair steps are taken. A theorem holds
for all values of the constants that satisfy the assumptions stated in the
component's module, which TLC evaluates for each instance: numbers are numbers
and bounds are not negative, the values that stand for "none" are not among the
others, output is aimed no further ahead than the list of nodes is long, a table
of descriptors has room for the three standard ones, an address has four
segments and a pattern of `socks.conf` no more, and the browsers of the cgi
server are finitely many.  Each proof goes from an inductive invariant; what
follows says which, and why the property alone would not do.

**`NumberedPipeProofs`**: `TypeCorrect`, `DescriptorsAccounted`,
`NoCircularWait`, `DataKept`, `HangNeedsUnreadPipe`, `ListKeepsSchedule`,
`LargePipesNeverStall`, `NoZombieForgotten`. `FdsAccounted` alone is not
inductive: it needs `OneNodePerPipe`, or closing one node's end would close
another's.  `WaitsOnlyForOlder` needs both: a new command inherits only what the
shell has open, the shell has no write end of its input any more, and no pipe
that is being read is in the list, so no later command can get its write end
either.  `HangNeedsUnreadPipe` takes the least number of a command that is
stuck: if it is not blocked writing, it waits for a writer, which is older, a
contradiction.  (That a set of numbers has a least one comes from the
well-foundedness of `<`, without an induction principle.) `ListKeepsSchedule` is
the refinement of `PipeSchedule`: the countdown of a pipe is the place of its
node in the list, counted from the first node, so that the end of a line counts
every pipe down at once; with `OneNodePerPipe` the countdown of one pipe is all
a command changes. `LargePipesNeverStall` is the state half of `PromptReturns`:
what is in a pipe was written by somebody (`Roomed` counts the writes that were
done), so that a pipe which holds all that can be written is never full.
`NoZombieForgotten` is that of `ZombiesReaped`.

**`SingleProcProofs`**: `TablesMirrored`, `SingleProcKeepsPromise`,
`SingleProcTypes`, `TablesNameTheirOwn`, `DescriptorsAccounted`,
`SelectWatchesClients`.  The first two are about the tables alone: the entries
of a pipe are set and reset together, so every action is a step of `UserPipes`
or a stutter.  The others rest on `DescriptorInv`: each open descriptor is in
one place of the lists, tables or clients, or was given up, and no two places
name the same one.  The places are treated as one set (`Held`), with lemmas for
filling a place, emptying it and moving the list on, so that numbered pipes and
user pipes share an argument.  A close of a number that no place holds may hit
anybody's descriptor; such *stray* closes are counted, and the invariant is
conditional on fewer than two, as the properties are.  `OddBit` is any number
above the listener's: `WatchInv` says what may be watched besides the clients,
and that no client's socket is above `maxfd`.

**`MultiProcProofs`**: `MultiProcTypes`, `SlotsAreFreed`, `PlacesKept`,
`LastMessageIsShown`, `NamesAreUnique`, `MarksOfAPipeAgree`,
`ReceiversHaveSenders`, `ServerStaysUp`.  `IInv` says what the program counters
mean: which processes have a slot, a handler, or a command with its partners,
and that a process not in `clashed` owns its slot, the slot's id and pid (the
pid, unless a client of the slot after the table has left, `Overrun`).
`ServerStaysUp` is that nothing else makes a signal go to pid -1: a slot that is
seen taken has had its pid before.
`LastMessageShown` and `UniqueNames` add what is under way: a text in a buffer
has a signal that is still to be sent or taken; of two processes with one name,
one had checked it when the other wrote it. `MarksAgree` needs the most: those
before their login have nothing (`Fresh`); clashed ones share a slot
(`Clashes`); an answer from a FIFO belongs to a command that still has use for
it (`Idle`); a mark, an end of a FIFO or a partner in a command names a slot
that somebody has had (`Traces`), so that a newcomer to a fresh slot finds
nothing; and for two clients that are the only ones of their slots, the stages
of a pipe exclude each other (`OnePipe`): marking, sending, a forked command
holding the FIFO, a receiver clearing its marks.  A step of a third process may
change that only through a wrong slot number, which `crossed` and `torn` record.
`ReceiversHaveSenders` is the state half of `ReceiveReturns`: a receiver that
waits in `open()` has its sender under way, even if the sender's client has left
by then, unless an end from an earlier pipe was taken for one of theirs, or the
sender was killed before it forked the command that writes.  It holds of torn
marks, too, and whoever had the sender's slot before: a mark has a sender behind
it or an end that answers (`Feeds`).

**`ConsoleCgiProofs`**: `ConsoleTypes`, `StuckNeedsMissedPrompt`, `FormIsRead`.
The account of a session: the prompts missed, those answered and those on the
way are one more than the lines the shell ran, with the lookalikes added
(`Accounted`); and as long as lines are left no more lines are lost than there
were lookalikes, since only those send a line ahead.  Hence a session that is
stuck has missed a prompt: lines that `single_shell()` loses shorten a script
and may cut off its exit, but do not stop it before.  A prompt is two bytes, and a read may cut it; with its first byte
read it counts as on the way by half.  The lemmas on `Coming` say how appending
to and reading from the wire change the number of prompts in it. `FormIsRead`
needs to know what the tokens of a form are: field `f` has its tokens behind
those of the fields before it (`FormTokens`), by a least counterexample rather
than an induction.  `FormInv` follows both passes: where the form is clean so
far, the count of values is that of the session's own fields, so that it reaches
three at the session's last one or not at all; the marks are right; and the walk
stands at the first token of the session it counts (`Rest`), which is six or
three tokens from that of the next (`RestFacts`).  (`Sessions` is at most five,
as `valid[5]` is: with more, the walk would read marks beyond the array.)

**`CgiServerProofs`**: `CgiTypes`, `OnePageEach`, `NoRequestIsLost`.  A
connection is in one stage of its life at a time, in the handlers' queue once at
most (`OnePlace`), and as long as connections have not crossed there is at most
one accept for what is still to come (`Counted`), and what is read and run is
about the connection taken last (`InTurn`).  `NoRequestIsLost` is the state half
of `AnsweredInTheEnd`: there is always an accept to come or one whose handler is
queued, and without a crossing every browser that waits is in the backlog, being
read, queued or answered.

**`HttpServerProofs`**: `HttpTypes`, `NothingIsForgotten`.  `TypeOK` also says
that the parent holds no connection and that a child that runs the CGI has given
up the listening socket; the latter needs that nothing else can complete in a
child before the handler it was forked in is through.  `NothingIsForgotten` is
the state half of `Answered` and `ChildrenEnd`: the parent keeps its accept and
its wait for signals, one is pending as long as there is a zombie, and a child
whose client is there has still to read the request or has answered it.

**`RelayProofs`**: `TypeCorrect`, `StreamsKept`, `TransferKeepsStreams`,
`RoundsMoveBytes`, `BindKeepsStreams`, `NeverSleepsOnBytes`.  `StreamKept` is not
inductive: a `read()` must find its buffer empty (`Drained`), and once a
connection is reset, how much of each stream is still whole depends on which one
it was (`Ordered`: the beginning a peer has read, what reaches it, the whole).
The lemmas `ReadStream`, `PushStream`, `ReceiveStream` and `SendStream` say what
one step does to one stream, apart from any state.  `SpinsOnlyIf` speaks of the
end of a round; `ProgressInv` says of each point in it that buffers are empty,
that something can be read, or that it was.  `BindKeepsStreams` follows the two
streams of a BIND: towards the client what was written and what is still to be
read make up what was sent (`ToClient`); towards the other side, where a write
may fail, all that was written is older than what is still to be read
(`FromClient`).
`NeverSleepsOnBytes` is the state half of `Delivered`: as long as no write was
put off, every half of a round leaves its buffer empty (`BuffersEmpty`), so that
the first `select()` sleeps only when all that was sent has been passed on.

**`SocksServerProofs`**: `SocksTypes`, `ServedOnlyByRule`, `SocksKeepsPromise`,
`EndsAreAnnounced`. The place of a child determines what it has answered, and
past the firewall a rule has permitted what it serves (`ChildInv`); every step
of a child is then a step of `SocksPromise` for its client, and parent, resolver
and network stutter.  `EndsAreAnnounced` is the state half of `EndSeen`: a child
that was not reaped has a signal pending, and the parent still holds a
connection only between accept and the close of its copy.

Model-checked only: all liveness properties (`PromptReturns`, `ZombiesReaped`,
`ReceiveReturns`, `ScriptsSent`, `AnsweredInTheEnd`, `Answered`, `ChildrenEnd`,
`Delivered`, `EndSeen`, `LeftClientsEnd`), since fairness and ENABLED are out of
this prover's reach; and the violation `FtpCanRead`.  `ScriptsSent` and
`LeftClientsEnd` have no state half of their own: that of the first is
`StuckOnlyIfMissed`, and the second waits for nothing but the system.

## 6. Findings

* `SO:452` lacks parentheses: `ftpfd = accept(...) == -1` stores 0, and the loop of
  a BIND passes data between the client and standard input (`bind_ftp`).

What the checked properties say around their exceptions is as much a result:
the relay spins from the first end of stream on and never passes it on
(`SpinsOnlyIf`; `SO:68` promises that two selects avoid an endless loop);
it may sleep on bytes that it could deliver after a write was put off
(`Delivered`); a request in pieces is served as one for the server's own host,
if the rules permit that (`ServedByRule`); the child of a BIND may wait for
ever (`LeftClientsEnd`); a console session is stuck after a prompt split over
two reads (`StuckOnlyIfMissed`), and one whose shell is np_single_proc does not
end when a look-alike has sent the exit ahead, to be lost with another line
(`ScriptsSent`); a half-filled session of the form spoils those
after it or ends the CGI (`ReadsForm`); the cgi server can answer one browser
with another's page, or end, once connections cross (`OnePage`).

## 7. Not modelled, and the plan

Not modelled: printenv.cgi, the filters of `project1/bin`, Makefiles and pages,
which keep no state; the text of pages and messages; a client of the shells that
sends part of a line (`SS:231` waits for the rest, and everybody with it);
`pipe()` failing; changes of
`socks.conf` while the server runs; the byte by which `SO:114` may overrun its
buffer; the page of a console cut at 1500 bytes (`CO:184`), and the bytes of
the frame that the cgi server sends beyond its end (`CG:472`).

Next: the parts named above that a model could hold, a line that arrives in
pieces (`SS:231`) first.
