# A model of the HTTP programs and the container library

The repository is a course project: an HTTP/1.0 client (`http_client.c`), a
sequential server (`http_server1.c`), a server around `select()`
(`http_server2.c`), an unfinished third one (`http_server3.c`), and two C
libraries it comes with, a chained hashtable (`pet_hashtable.c/.h`) and
intrusive lists (`pet_list.h`), each with a demonstration program.

This directory holds TLA+ modules for these programs, TLC configurations that
check them on small instances, and proofs, checked by TLAPS, of what holds for
every instance. `PROJECT.json` is the index: components, runs, faulty variants,
the source lines of every definition, findings, hazards and theorems.

    tlc -config Server2_safety.cfg MCHttpServer2.tla      # one run
    tlapm HttpServer2Proofs.tla                           # one proof module

## 1. The system

| Component | State | Operations | Module |
|---|---|---|---|
| `handle_connection` (both servers, word for word) | `buf`, `total_len`, the `FILE`, `sent` | recv loop, parse, fopen, two heads, fread/send loops, error paths | `HandleConnection` |
| `http_server2` main | `connections[]`, `all_fds`, `read_fds`, `max_fd` | select, accept, table, handle, close | `HttpServer2` |
| `http_server1` main | one connection | accept, handle, close | `HttpServer1` |
| kernel and peers (external) | descriptors, accept queue, socket queues, resets | connect, deliver, fin, rst | `Sockets` |
| `http_client` | `headers`, the loops' positions, exit code | connect, send loop, select, head loop, body loop, error loop | `HttpClient` |
| a server that is not ours (external) | the reply | answer, hang up | `AnyServer` |
| client and server together | both | all of the above, interruption of clients, death of the server | `HttpSystem` |
| `pet_hashtable` | chains, `entry_count`, `prime_index`, iterator | every function of the header | `PetHashtable`, abstractly `Multimap` |
| `pet_list`, rings | `next` and `prev` of every node, poison, a loop's cursor | add, del, move, splice, their variants, every loop macro | `PetList`, abstractly `Lists` |
| `pet_list`, hlist | `next` and `pprev`, a loop's cursor | add, del, every loop macro | `PetHlist`, abstractly `Lists` |
| `list_example` | the list of its arguments, the cursor of its search | build, search, unlink and free | `ListExample` |
| `http_server3` | a skeleton: its loop is empty and its handler is never called | none | not modelled |
| `hashtable_example` | a demonstration | a fixed order of calls to the hashtable | not modelled |

**How they interact.** Nothing is shared: each program is one thread. The
programs meet in TCP connections, where a step of one (close, reset, a partial
send) changes what the next system call of the other returns, and inside a
server in the process's descriptor table, where a connection, the listening
socket and an open file compete for the lowest free number. A caller meets the
hashtable in calls; entries are shared between table and iterator by pointer. A
list's nodes lie inside the caller's entries, and the caller's code runs inside
the library's loops.

**What is hard.** `read_fds` is computed before an accept and before other
connections are closed, and used afterwards. Descriptor numbers are reused at
once. recv() and send() are partial. A client may stop, close, abort or refuse
at any point, and SIGPIPE is not handled. Descriptors run out. Closing on
unread input turns into a reset. The client must tell the end of a reply from a
reset and find the end of a head that is split anywhere. In the hashtable, growth
relinks all entries in place, allocation can fail half-way through an insert,
an iterator removes the entry it stands on, and an insertion or removal by key
may leave it with a parent or an index that is no longer so. A list's function
may be called on any mixture of fresh, poisoned and reset nodes, also in the
body of a loop that is about to go on from one of them.

**What makes each component correct.**

* `handle_connection`: a reply is a prefix of the file, in order, after the
  right head, and is whole when the server closes on a client that did not
  abort; the file is closed on every path; `buf` is never overrun.
* `http_server2`: slots, fd_set and kernel agree; `max_fd` covers; the first
  recv() never blocks; every round serves all it marked; every connection is
  accepted and every readable one served.
* `http_server1`: never two connections, none leaked; every client is served, as long
  as each sends its request and takes its reply.
* `http_client`: `headers` is not overrun by a head that fits; exit code 0 exactly with the body on standard
  output, an error reply on standard error with -1; it exits.
* `pet_hashtable`: each entry linked once, where its hash leads; `entry_count`
  right; the iterator visits each entry once, also while it removes; each call
  frees what it should and no more.
* `pet_list`: neighbours point back at each other; nothing in a list points at what
  was deleted; each call does to the sequence of entries what its name says; a
  loop visits each entry once, in order, whatever its body may do.
* `list_example`: it frees the entry asked for, after unlinking it, or reports that there
  is none (which it does not).

## 2. The modules and the code

A step of a server or a client is one system call and the straight-line code up
to the next one, so everything another process can do falls between the steps. A call
of the library is one step: it runs in its caller's thread.

**Sockets** is what the code assumes of Linux, with the clients as peers that do
anything `Faults` allows. Descriptors are `0..NOFILE-1`, lowest free first. A
request is `[len, more, kind, data]`: the bytes up to its blank line, how many the
client may send behind it, what its first line asks for (a readable file, one
that does not exist, fewer than three tokens) and the size of the file. Bytes are their positions, so a lost,
repeated or swapped byte shows.

**HandleConnection**: `hpc` names the next statement. `Recv` is lines 64-84 (any
piece, never more than `BUFSIZE-1-total_len`, until the blank line is in `buf` or `buf` is
full: `ReadEnds`; bytes behind the blank line may come with it or stay unread), `RecvFails` 73-76, `ParseFails` 88-93,
`Fopen`/`FopenFails` 95-105, `SendNotFound`, `SendHeader`, `Fread`, `FreadEnds`,
`Send` (any part of the chunk), `SendFailed`, `SendKilled` (SIGPIPE) 105-148.

**HttpServer2**: `Select`, `NothingToAccept`, `AcceptFails` (with its `continue`),
`Accept` (`Admit` or `Reject`), `Handle`, `InHandler`, `Close`, `ScanEnds` follow the
loop of lines 213-296. **HttpServer1** is the loop of 203-224.

**HttpClient**: `cpc` names the loop a client is in. The head of a reply is the
positions `1-HeadLen .. 0`, 0 being the end of the blank line; byte `k > 0` is the
file's. The loop that collects the head has no bound: when `headers` has no room for what
`strcat` appends (`Overruns`), the client is `"undefined"` and takes no further step. `CString` models what `strcat` and `printf("%s")` do to a buffer that
holds a NUL byte. `Exit` closes the socket; on unread input this resets the
connection. **AnyServer** answers in pieces, keeps silent, aborts or cuts the
body short. **HttpSystem** replaces the peers of `Sockets` by `HttpClient`
processes: what reaches the server is now what `http_client.c` sends. It
adds the interrupting user and the kernel that cleans up after a killed server.

**Multimap** is an abstract specification: a collection of named pairs, with
calls that may pick any pair of a key, and an iterator that has a set of pairs
still to visit. **PetHashtable** has the real structure: `table` of chain heads,
`heap` of entries with `next` pointers, an iterator of `entry`, `parent`, `index`.
`Rehash` is the reversal of expansion, `Unlink` the two cases of removal,
`Next_entry` the advance function, used by `Advance` and inside `IterRemove` as in
the code. `GrowByRealloc` is Plan B; `memset` at line 274 is undefined behaviour
and ends the model (`state = "undefined"`). The refinement mapping takes the
entries reachable from the table for the pairs, and the rest of the iterator's
chain with all later chains for what it has still to visit.

An iterator may stand at an entry while the table is changed behind its back,
which the header neither forbids nor explains. `SpoiltByInsert` and
`SpoiltByRemoval` are the rule the code obeys: the iterator lapses when the table
grew, when a new entry became the head of the chain it stands at the head of, and
when its entry or its parent was removed. In every other case it goes on as if
nothing had happened. A lapsed iterator (`Lapsed`) is freed or searched again, and
nothing else is done with it. Each part of the rule is needed: without any one of
them the run finds a dangling parent, a wrong index or an entry lost.

**HttpService** is what both servers promise to all of their clients together:
requests are heard whole and answered one at a time, each answer begins after its
request, only grows, is whole at the end unless the client is lost, and an ended
connection stays as it was. `HandleConnection` instantiates it with the requests
whose head was taken and the clients that are gone.

**Lists** is an abstract specification: some sequences of entries, the calls on
them and one loop with what it has still to visit. **PetList** has the links: the
functions of the header are operators from links to links with the header's names
and the order of its assignments, and each call is an action. `ring` is what the
caller knows, namely which list a node is in; the code does not keep it. It stands for
the rules that the header takes for granted and that the actions' guards state:
nothing is put into two lists, only what is in one is removed, and the body of a
loop does not unlink or move the node the loop goes on from (`Foothold`: the cursor,
or the saved next node of a _safe loop). `Turn` is one round of a loop macro.
**PetHlist** is the same for `hlist_head` and `hlist_node`; a back pointer is the
node or head whose `next` it points at. **ListPoison** holds the pointers that lead
nowhere. **ListExample** builds on `PetList`: `AddArgument`, `StartSearch`, `Search` and
`Use`, which takes the cursor for an entry unless it is NULL, whatever the search found.

Definitions called `X_Something` are faulty variants of `X`, kept to show that each
property notices a plausible bug. They are used by no specification.

## 3. The runs

| Run | Instance | Shows |
|---|---|---|
| `server2_safety` | 3 clients, NOFILE 6, BUFSIZE 3, all faults, symmetric | `TypeOK`, `TablesAgree`, `MaxFdCovers`, `FirstRecvNeverBlocks`, `FileOpenWhileUsed`, `ReplyFaithful`, `CompleteWhenClosed`, `ClosedWithoutReset`, `RoundServesAllMarked`, `ImplementsService` |
| `server2_live` | 2 clients, NOFILE 7 | `EveryConnectionAccepted`, `ReadableConnectionServed`, `NotFoundOnlyWhenMissing` |
| `server1` | 2 clients, NOFILE 6, all kinds of request, all faults | `TypeOK`, `OneConnectionAtATime`, `FileOpenWhileUsed`, `ReplyFaithful`, `CompleteWhenClosed`, `NotFoundOnlyWhenMissing`, `EveryConnectionServed`, `ImplementsService` |
| `client` | 1 client, CBUFSIZE 3, heads of 13 and 14 bytes | `ClientTypeOK`, `HeadersFit`, `ExitZeroMeansBody`, `ErrorIsReported`, `ClientExits` |
| `system` | 2 clients, one of them interruptible, `http_server2` | `ExitCodeTellsFile`, `ExitZeroMeansFile`, `EveryClientExits` |
| `hashtable` | 4 entries, 2 keys, tables of 2, 3 and 5 chains, symmetric | `HtTypeOK`, `EveryEntryLinkedOnce`, `IteratorKnowsItsPlace`, `ImplementsMultimap` |
| `lists` | 2 heads, 3 entries, rings, hlists or the example, symmetric | `ListTypeOK`, `RingsClosed`, `LoopStaysInItsList`, `ChainsClosed`, `ExampleFreesWhatItFound`, `RingsImplementLists`, `ChainsImplementLists` |
| `server2_sigpipe`, `server2_starvation`, `client_nul`, `hashtable_planb`, `lists_absent` | small | the findings of section 6 |

**Why the bounds are enough.**

* NOFILE 6 leaves two descriptors beside 0-3: with three clients, accept() and
  fopen() both fail for want of one, and a descriptor freed in a round is reused
  by the next connection and by files. NOFILE 7 in `server2_live` leaves three,
  so that two connections and a file fit.
* BUFSIZE 3 gives a buffer of two bytes: a head that fills it exactly, one
  that is split over two recv() calls, one that does not fit, and one with a byte
  behind it, which comes with the head, later or not at all; a file of four
  bytes takes two fread() chunks, and every split of each send().
* FD_SETSIZE 6 or 7 is at least NOFILE, as `FdSetAssumption` says. That the
  table then never fills is a theorem, not a bound.
* A head of 13 = 4*CBUFSIZE+1 bytes is the longest whose last piece is certain to
  leave `headers` room. One of 14 (the error reply of the run) overruns it when its
  last byte arrives with another behind it and 13 were there before, and fits when it is
  cut elsewhere. A file of five bytes takes more than two recv() calls.
* In `hashtable`, the hashes 0 and 3 lie in different chains of 2, in one chain
  of 3 and in different chains of 5, so growth splits and merges chains;
  the limits 1, 2, 2 make the second and the third entry grow the table and let
  a full largest table refuse to. Duplicate keys give longer chains. Values are
  taken modulo 3, and inc() and dec() by 2 differ and wrap both ways. Cells
  bounds the entries, and an insert beyond it fails as it does out of memory.
  Four entries make a chain in which the iterator stands at the head, behind its
  parent or further on while others come before it or go. States that differ in
  `result` only are explored once (VIEW): it is compared on every step, read by none.
* In `lists`, three entries make every arrangement a function can tell apart: the
  nodes it touches are an entry, its two neighbours and the place it goes to, and
  each may coincide with another or be a head. Two heads are one to move from and
  one to move to; with a third, a splice would find nothing new. The two kinds of
  list share no state, so they are checked one beside the other and not in
  product. The label of the last call is left out of the VIEW in the same way.

Deadlock is not checked: clients may all be done, a server may wait for ever
for clients that never come, and the killed or undefined states are ends.

**Fairness.** `FairSpec` of `http_server2` assumes that the operating system runs
the server when it can run (`WF(Server)`) and that a request whose first byte has
arrived arrives in full, which README.md:255-256 lets the server assume, as 258 does that
writes never block. Clients may otherwise stay silent for ever, and do. `http_server1` has
no such licence: README.md:233-247 says that it blocks in reading a request and in writing
to the socket. Its fairness says what it then depends on. `Talks`: no client
stays silent for ever, but goes on sending until its request is complete, or closes or
aborts before. `Listens`: no client stops taking the file for ever while it keeps its
connection open. `Runs`: every other step needs only that the process is run. Either kind
of client, left out by the assumption, stops `http_server1` for all others, and one
that refuses its reply ends it with SIGPIPE: `EveryConnectionServed` has `hpc = "dead"`
for an exception, and the run has such clients. In `AnyServer` and
`HttpSystem` processes are weakly fair; no fault, interruption or refusal is
ever forced to happen, except that a killed server's kernel does end its connections.

## 4. What is proved

For all values of the constants, under the named assumptions of the modules
(`RequestsAssumption`, `NofileAssumption`, `BacklogAssumption`, `BufsizeAssumption`,
and for `http_server2` `FdSetAssumption`: NOFILE is at most FD_SETSIZE, true of the
default limit 1024):

* `HttpServer2Proofs`: `TypeCorrect`, `TablesCorrect`, `SelectSeesAll`, `FirstRecvFree`,
  `RoundsServeAllMarked`, `NeverTooManyConnections`, `NoFileLeaks`, `RepliesFaithful`,
  `RepliesComplete`, `NoSelfInflictedReset`, and `ExistingFilesFound` for more descriptors
  than the reserved ones and one for each client (`DescriptorForAll`).
* `HttpServer1Proofs`: `TypeCorrect`, `NoConnectionLeaks`, `NoFileLeaks`, `RepliesFaithful`,
  `RepliesComplete`, `ExistingFilesFound` (for NOFILE > 5).
* Both: `ServiceImplemented`, the refinement of `HttpService`. The lemmas that both
  servers share are in `HandleConnectionProofs`.
* `HttpClientProofs`, under `HeadAssumption` and against any server of `AnyServer`:
  `ClientTypeCorrect`, `HeadersNeverOverflow`, and for replies without NUL bytes (which
  `client_nul` shows to be needed) `ExitZeroIsBody` and `ErrorsReported`. Heads may have any
  length; `HeadersNeverOverflow` is about those of at most 4*CBUFSIZE+1 bytes (`HeadFits`).
* `HttpSystemProofs`, under the assumptions of client and server: `FilesArriveWhole`, for
  files without NUL bytes; `ExitCodesTell`, for `DescriptorForAll` (without which an existing
  file may be answered 404) and requests that fit in `buf`.
* `PetHashtableProofs`, on the lemmas of `PetHashtableLinks`: `HtInvariant`, `HtTypeCorrect`,
  `EntriesLinkedOnce`, `IteratorPlaceKnown` and `ImplementsCollection`, the refinement of
  `Multimap`. Under `KeysAssumption` (any hash), `ValuesAssumption` (any width),
  `CellsAssumption` (calloc() does not return NULL for an entry; there may be any number
  of cells) and `TablesAssumption` (`primes[]` grows, has as many elements as
  `load_factors[]`, and create() is asked for less than its last one).
* `PetListProofs`, for any number of heads and entries (`PoisonAssumption`,
  `NodesAssumption`, `HnodesAssumption`): `ListTypeCorrect`, `RingsStayClosed`,
  `LoopsStayInTheirLists`, `ChainsStayClosed`; under `ExampleAssumption` (`test_list` is a
  list head) `ExampleFreesRightly`, for any number of arguments: about the indices that
  one of them has.

**The servers.** None of the invariants is inductive alone. That `Recv` stays in
`buf` needs that `total_len` is what was taken from this client. That a reply is a
prefix of the file needs that `body` ends at `pos - bytes_read + sent`. That it is
complete needs that `done` is reached at the end of the file only. That the
handler's descriptor is one client's needs that open descriptors differ, which
needs that new ones are taken from the free ones, the file's included.
`HandleConnectionProofs` states these facts as `ConnInv`, the conjunction of
`HandlerInv`, `FdsInv`, `QueueInv`, `FileOpenWhileUsed`, `RepliesInv` and `AnswersInv`, and
proves that every step of the handler, of a client and every close() preserves
it. Both servers use these lemmas. `HttpServer2Proofs` adds what the main loop
keeps: `MainTypeOK`, `TablesAgree`, `MaxFdCovers`, `LoopInv` (where the loop stands
and what the handler was called with) and `MarkInv`: a descriptor that is marked,
not yet scanned and still open belongs to a connection that is readable. The last
makes `FirstRecvFree` and `RoundsServeAllMarked` follow. For
`NeverTooManyConnections`, a full table would hold FD_SETSIZE different
descriptors, none of them reserved, and there are only NOFILE - 4 of those.

For `ServiceImplemented`, the step of recv() that completes a head is `Hear`: that no
other request is being answered then follows from `AnswerInv`, for an open
connection that is not being served has had nothing taken from it. The two heads are
`Begin`, a send() of the file is `Continue`, because the chunk's first unsent byte is
the one behind `body`, and close() is `End`, because of what the handler's result says.
`NoSelfInflictedReset` says which clients a close() of the server resets: those that
sent something behind the blank line, which the server does not read when it comes late, and
those whose head does not fit in `buf`. Of any other that kept its end open, the whole head
was taken and there was nothing else, so nothing is unread. For `ExistingFilesFound`, the connections before have left nothing open, so one of the
descriptors 4 and 5 is free. In `http_server2` open connections have descriptors of their
own: were all those above 3 taken while no file is open, there would be fewer clients than
owners (`DescriptorLeft`).

**The client.** `ClientsInv` says of each client, by where it stands, that `headers`, `out`
and `err` hold an interval of the positions of the reply (`Holds`), and how long it is;
`Size` is the length of the reply so far. Its lemmas are about concatenation, subsequences and
C strings. That `headers` fits needs that before the blank line arrives nothing is lost
to a NUL byte, for heads have none, so `got < HeadLen(c)` until the last piece.
`HttpClientProofs` shows that every step of a client preserves it (`ClientMoves`), and so does
whatever else extends one reply or ends it (`ServerMovesOn`); its last part
adds the steps of a server of which nothing else is known.

**Client and server.** `FilesArriveWhole` joins the two: `SysInv` holds the invariant of the
clients, that of `http_server2` while it lives, `StillUp` (a client that has not exited keeps
its end open, so that for it a reply that ended in order is a whole one) and `ZeroInv`. A
client is one of the peers that the server's invariant allows for
(`ClientKeepsInv`, `ClientEffect`), and the server one of the servers that the client's does
(`ServerEffect`, `ServerKeepsClients`). When the server dies its own invariant no
longer holds. `CrashInv` is what remains: it dies only by a send() to a
client that has exited, and is serving no one else then, so a client that still waits has
either a whole reply or nothing of one. The orderly end that the kernel then
gives it is not taken for the end of a file.

For `ExitCodesTell` the other direction is needed: nothing but an absent file makes a client
exit with -1 while the server lives. `TellInv` says that a connection which has ended under
its client was closed in order and after the whole request was read (`EndedInOrder`); such a
reply is complete, so the client has its head and leaves its loops at the end of the file
(`NoErrorForFiles`). A client that is still sending has bytes left to send, hence is not
closed upon and never meets the reset that a late send() would cause.

**The hashtable.** What the runs check speaks of walks: the chain met from a head, all chains
one behind the other. The inductive invariant does not walk. `Linked` says of single
pointers that they have their types (`CellsTyped`), that a link leads to an entry of the same
chain (`InPlace`), that every entry has exactly one pointer leading to it (`PointedOnce`), and
that some rank falls along the links (`Acyclic`); `IterAt` says the same of the iterator's
three fields. Each way of changing the links has a lemma: a new head (`PushingKeepsLinks`),
an entry skipped (`SkippingKeepsLinks`), a value changed (`ValuesKeepLinks`), and growth
(`RelinkingKeepsLinks`), in which an entry's new successor is the one met last before it in
the same new chain, so that the order of meeting is the new rank. `HtInv` adds that
`entry_count` is the number of entries and that the table has the length of its prime.

What the walks compute then follows. `WalkExists` shows that the recursive definition of a
chain has a value at all and `WalkInduction` that what passes from the end of a chain to
the entry before it holds of all entries; both rest on the least element of a set of
numbers (`LeastNat`). `ChainLaws`, `FlattenLaws` and `OrderLaws` say that a chain holds exactly
the entries of its index, once each, and all chains together all entries, which gives
`EntriesLinkedOnce`; `Lookup` is what find_entry() returns.

For `ImplementsCollection` every call is matched with one of `Multimap` (the lemmas named
`...Maps`). What the iterator has still to visit is a union of walks. `ToCome` characterises
that set by its members' places, `ToComeUnique` shows that at most one set has the property
and `RemainingLaws` that the walks' union has it, so for each call it is enough to show that
the set which `Multimap` asks for has the property afterwards. The two calls that replace the
iterator's place (`AdvanceMaps`, `IterRemoveMaps`) rest on `NextToCome`, `HeadToCome` and
`LastToCome`: the next entry is in the set, and the rest of the set is what is to come behind
it. Of what follows Plan B's undefined behaviour nothing is claimed: every call asks for
`state = "open"`.

**The lists.** A ring is closed when `next` and `prev` of every node in a list are
inverse to each other and lead to nodes of the same list. This speaks of neighbours
only, so it is inductive without walking a ring, and each way of relinking has a lemma of
its own (`LinkClosed`, `UnlinkClosed`, `SpliceClosed` and so on), which the calls made of
several cite. Strengthening it for splices: a head is in its own
ring or in none (`HeadsOwnRings`). That a loop stays in its list then follows
from the same fact at the node it goes on from. For the example, `InOrder` says that the ring
of `test_list` leads through the arguments in their order; the search then stands at an
argument that is not behind the one asked for, or has come to the head because there is none.

**Only model-checked.** Everything with fairness (`EveryConnectionAccepted`,
`ReadableConnectionServed`, `EveryConnectionServed`, `ClientExits`,
`EveryClientExits`), which is out of this prover's reach. That rings and chains
implement sequences (`RingsImplementLists`, `ChainsImplementLists`): the theorems say that
rings stay closed, not yet that a ring is the sequence its calls made of it. The findings,
which are counterexamples.

## 5. What is not modelled

* Argument checks, socket(), bind(), listen(), gethostbyname(): failure there exits
  before any state exists. select() and accept() failing for reasons other than
  descriptors are retried and change nothing.
* Time. Nothing in the programs measures it; a blocked call waits for ever.
* Files that change or fail while being served, and sizes beyond an int.
* Requests whose tokens are longer than `method`, `path` and `version`.
* What `http_client` does after it wrote past the end of `headers`.
* The stock hash functions: `Hash` is any function from keys to numbers.
* What a lapsed iterator of a hashtable does when it is used all the same: it reads freed
  memory or walks a chain it does not belong to. More than one iterator at a time.
* A caller of `pet_list` that breaks the header's rules (see `Foothold` and the guards of
  `PetList`), nested loops, and prefetch(), which has no effect. What `list_example` does
  after it took the list head for an entry is undefined behaviour; `stage` ends there.
* A client's bytes are at the server as soon as send() took them; delay is the client being slow.
* `http_server3`: after listen() its main loop does nothing and no function of it is
  called, so there is no behaviour. `hashtable_example`: a fixed order of calls that
  `PetHashtable` makes in every order, with printing around it.

## 6. Findings

* `server2_sigpipe`: a client that closes and refuses the reply ends the server
  (http_server2.c:137). `system` shows what this means for the other clients: they
  exit with -1, never with a wrong success, and do not wait for ever.
* `server2_starvation`: out of descriptors, `continue` at http_server2.c:247 skips
  the connections whose end would free some; no one is served again.
* `client_nul`: a NUL byte in the body loses the rest of its chunk, and the exit
  code is 0 (http_client.c:244).
* `hashtable_planb`: the realloc() fallback writes through an uninitialised
  pointer (pet_hashtable.c:274).
* `lists_absent`: list_example.c:81 tests for a NULL cursor that its loop never produces.
  On an index that no argument has, the program does not print the message it has for this
  (81-84): it unlinks the list head and frees a pointer that calloc() never returned.

Met while modelling and not the subject of a run: hashtable_example.c:92-95 says that
removal frees the value, which pet_hashtable.c:473-483 leaves to the caller
(`ImplementsMultimap` has it so); the example in pet_hashtable.h takes a zero from
insert for a failure, where zero is success. Every failure of fopen() is answered 404
(http_server2.c:105), also that of a process with no descriptor left for a file that exists;
README.md:220-226 has 404 for files that do not exist. `NotFoundOnlyWhenMissing` is
therefore checked and proved for processes with descriptors enough, and `server2_safety`, in
which they run out, does not claim it. The head loop of `http_client` (http_client.c:171-206)
has no bound: the `client` run reaches, with a head one byte longer than is certain to
fit, a strcat() past the end of `headers`; `HeadersFit` and `ClientExits` say for which heads they
hold. A byte that a client sends behind its blank line, arriving after the head was read,
makes close() reset the connection (http_server2.c:81-83, 287): `ClosedWithoutReset`.

## 7. Plan

Done, in this order: `Sockets`, `HandleConnection`, `HttpServer2`, `HttpServer1`, their
proofs, `HttpClient`, `AnyServer`, `HttpSystem`, `Multimap`, `PetHashtable`; then `Lists`,
`PetList`, `PetHlist`, `ListExample` and their proofs, iterators of the hashtable beside
insertions and removals, the proofs of the client, `HttpService` with both refinements, the
proof of the composed system, and the proofs of the hashtable, of its collection, of the
example and of the exit codes. What is left:

1. The refinements of `Lists`: a predicate that a ring leads through a sequence, of which
   `InOrder` is the case of one list, preserved by the relinking lemmas; then the loops'
   `todo`. The chains in the same way.
2. Files that change while they are served, and what the announced length is then worth.
