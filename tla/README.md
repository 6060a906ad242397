# A TLA+ model of ReadMailReallyFast

ReadMailReallyFast is a mail program in C++17. What exists of it at this commit
is its foundation: an asynchronous network layer on libev (`src/src/net`), the
daemon `mumta` that runs the event loop (`src/src/mumta`, `src/src/app`), a
wrapper around ncurses (`src/src/lib/nccpp`), a small tree of views
(`src/src/ui`) and utilities (`src/src/utils`). This directory holds TLA+
modules for its parts, the TLC configurations that check them on small
instances, and proofs that TLAPS checks for instances of any size.

All paths below are relative to the repository, so `src/net/tcp_client.cpp` is
the file the other documents of the project call `src/src/net/tcp_client.cpp`.

## The system

The daemon has one thread. Concurrency comes from outside: libev calls back
when a descriptor is ready, the kernel and the peers act between any two system
calls, and application code runs inside the callbacks and calls back into the
objects that called it, or destroys them. Nothing between libev and `main`
catches an exception, so an exception that leaves a callback ends the process,
with every other connection. The Makefile compiles with AddressSanitizer, so an
access to a destroyed object ends it too. Only the display is made for several
threads: it has a lock, and its owners share it by `std::shared_ptr`.

| component | state | operations | hard behaviour | what makes it correct |
|---|---|---|---|---|
| output queue (`ioqueue`, `iorecord`) | a deque of records, each with an offset | push and pop at both ends, advance | unsigned arithmetic, empty records | it holds exactly the unsent bytes |
| connected client (`tcp_client`, `connection_client`) | queue, watcher and its events, callback, socket | `write_data`, `cb_ev`, destructor | partial writes, EAGAIN, resets, FINs, calls from inside the callback | a reliable byte stream; a pending write is always armed; progress both ways |
| outbound set-up (`tcp_client` constructor, `auto_fd`) | up to two descriptors, candidates, port | resolve, socket, connect, getsockname | any call may fail, exceptions unwind | no descriptor leaks; the client owns the connected socket; all candidates are tried |
| line buffer (`connection_line_buffer`) | the unfinished line, a share of the client | construct, `conn_data_in_cb`, destroy | lines cut anywhere by recv, long lines, the contract of the search, a callback bound to an object that may be gone | nothing lost; lines end where the text says; every line end is reported; the client lives as long as it has owners |
| socket addresses (`socketaddr`) | a tagged copy of a `sockaddr` | assign, convert | an uninitialized source | a structure is used as what its family says |
| server (`tcp_server_socket`, `async_server_socket`) | listening socket, shared by a callback and the server; a counter | accept, announce, count | aborted peers, listeners that destroy the server | counter = clients; descriptors and watchers have live owners; everyone is accepted |
| event loop (`evloop`) | the stdin watcher | `run`, `cb` | it ends only when nothing is watched | it ends when it should |
| mumta main, version checks, service manager | the place in `main`, what the service manager was told | check, notify, loop, return | what the last callbacks of the loop leave behind; versions compared in halves | READY and STOPPING are true when they are told; the daemon ends |
| address literals (`address.hpp`) | none | compile-time parsers | widths, bases, separators, the IPv6 shortener | they accept the documented syntax and read what it stands for, but for the deviations listed below |
| ncurses wrapper (`nccpp`) | a table of windows, subwindows, two handles per window, registered colours | create, copy, move, assign, destroy, leave and resume, colours | a table of addresses of objects that move; handles saved and restored by visits | every window has one live owner; colour numbers mean what they meant |
| display (`ui`) | a mutex, the terminal, its owners | construct, share, drop, `sync`, `clear` | threads, functions that throw, call back or drop the last owner under the lock | one drawer at a time; the terminal outlives whoever draws; calls end |
| views and events (`ui`) | parent, children; values | construct, destroy | `shared_from_this` in constructor and destructor | every view reachable once |
| hex dump (`utils`) | a line in two buffers | format | holes, partial lines at both ends, negative offsets, wide labels, a length computed beside the loop | every byte of the lines of the range shown once, in its column |

How they interact: libev calls `cb_ev` of a client or of an accepting socket; a
client calls the callback that the application, or a line buffer, registered, and
both the application and the buffer own a share of it;
the accepting socket calls the server, which calls the application's listener
with a new client; the client's destructor calls back into its server. `main`
enters the loop after its checks and leaves it when libev watches nothing. The
ncurses wrapper and the network layer share nothing, and the display uses ncurses
directly.

## Modules

| module | models | built on |
|---|---|---|
| `IoQueue` | `iorecord` and `ioqueue` as operators on sequences of records | |
| `ByteStream` | what `connection_client::write_data` promises: an abstract reliable byte stream that may fail for good | |
| `TcpClient` | one connected client: its object, `cb_ev` and `push_write_queue`, the socket, the peer, libev | `IoQueue`, refines `ByteStream` |
| `AutoFd` | `auto_fd` as operators on the set of open descriptors | |
| `SocketAddr` | `socketaddr`: which families its assignments and conversions let pass | |
| `TcpConnect` | the outbound constructor and the destructor of a client, for repeated attempts | `AutoFd`, `SocketAddr` |
| `EolSearch` | `default_eol_search`, and a search that returns the index past the line end | |
| `LineBuffer` | `conn_data_in_cb`, over any search | |
| `LineClient` | a line buffer on a client, their owners and the callback between them | `LineBuffer`, `TcpClient` |
| `TcpServer` | a server, its accepting socket, the clients it announces, and the event loop with its stdin watcher | `AutoFd` |
| `Mumta` | `main`: version checks, notifications, the loop | `TcpServer` |
| `NcWindows` | windows and subwindows of the ncurses wrapper, their parents, copies and moves, leaving and resuming ncurses mode | |
| `NcColors` | the table of colour pairs, and the windows that draw with them | `NcWindows` |
| `Display` | the display: its lock, its owners, its end, used by several threads | |
| `InetAddr` | the IPv4 parsers as operators on sequences of characters | |
| `Inet4Syntax` | the documented syntax of IPv4 literals, as the reference for `InetAddr`, and the two exceptions the code makes | `InetAddr` |
| `Inet6Parser` | the loop of `inet6_aton`, one component in each pass, and the documented syntax of IPv6 literals | `Inet4Syntax` |
| `Hexdump` | the two loops of `hexdump_to_stream`, one cell in each pass | |
| `MC*` | the small instances that TLC checks | |
| `*_proofs` | the theorems | TLAPS |

Operators whose comment says "faulty variant" are no part of a specification.
Each is a plausible mistake in the operation it precedes; with it in the place
of the operation TLC must find the property violated that PROJECT.json names,
which shows that the property depends on the code being as it is.

### TcpClient

A byte is identified by its position among all bytes the application handed to
`write_data`; the code never looks at the contents. A queue record is `[at, len,
offset]`: the bytes `at + 1 .. at + len`, `offset` of them consumed. `cb_ev` is
split at its system calls and around the application's callback, because this
is where something else can happen: the peer sends, closes or resets; the
callback calls `write_data` or destroys the client. `pc` is the place in `cb_ev`.
`interest` and `active` are the state of the libev watcher; setting the events
of a watcher keeps it active or inactive, as `ev::io::set` does. `accepted` and
`wire` are history: how many bytes were accepted, and the bytes the kernel took.

libev is external and modelled from how the code uses it: level-triggered, so
every ready event of an active watcher is reported; possibly spurious; and on an
unusable descriptor it stops the watcher and reports ERROR.

### TcpConnect

`pc` is the place of the constructor between two system calls, each of which may
fail. An exception unwinds the handles that are alive where it is thrown.
Everything the kernel has open is in `open`, so a leak is a descriptor without a
handle. `getaddrinfo` returns any list of addresses of the requested family. If
`getsockname` fails, the `sockaddr` it should have filled is assigned to itself
uninitialized: its family is any, and `SocketAddr` says what then happens, an
exception of the assignment, the exception of the `switch` over the families, or
any port.

### LineBuffer

Each pass of the loop in `conn_data_in_cb` is an action, because each one calls
the application. The search is a constant operator, assumed only to return an
index inside the chunk at or after the start, or npos. Characters decide where
lines end; what is delivered is identified by its position in the stream.

### LineClient

The passes of `LineBuffer` run while the client of `TcpClient` is in its callback;
the places of the two are `pc` and `cpc`. The application acts between two events
of the loop and inside `found_next_line_cb`, that is, after a pass that has called
it (`called`): it writes, makes the buffer, drops its pointer to the client or
destroys the buffer. The client has up to two owners, the application and the
buffer, and is destroyed with the last one, also from inside its own callback. The
callback that the client holds stays bound to the buffer when the buffer is
destroyed; data that arrives then, and the rest of `conn_data_in_cb` if it is
running, use a destroyed object (`RecvIntoDead`, `PassOnDead`).

### TcpServer and Mumta

The handler is split around `accept`, the listener and the destructor of the
announced client. The listener may write to the client and may destroy the
server. A `tcp_client` can be neither copied nor moved, so the listener cannot
keep the one it is given: it dies when the listener returns. `inHandler` is the
reference that `cb_ev` takes with `shared_from_this`. The application catches the
exceptions of the server's constructor, which it calls itself.

`Mumta` puts `main` around this: its three version checks, the notification
READY, the loop as a phase in which the steps of `TcpServer` are taken, STOPPING
and the return. A check that fails makes `main` return 1 before it tells anybody
anything. At this commit `main` binds no socket, so the program as it is has
`MaxServers = 0`; with a larger bound callbacks of the loop create servers, for
which the network layer is written. A run of the small instance covers both,
because creating a server is never forced.

### NcWindows

An object is named by the place in memory where it lives, because the table
`windows_` of the singleton holds addresses. `win` and `save` are the two handles
of an object, `subwindows` the vector of each holder. A vector that grows moves
its elements to other places, each move with its own registration and
unregistration, as `std::vector` does with the move constructor of `Subwindow`.
`parent` is the reference of each subwindow; `takenOver` remembers the objects that
have got the subwindows of another one, whose references point to where that one
was.
Leaving ncurses mode visits every registered object and, from each, its
subwindows; `VisitedTo` and `VisitedFrom` give what the sum of the visits does to
the two handles of an object, once for a window and twice for a subwindow.

### NcColors

`registered_colors_` numbers colours as they are first used; `pairs` is what
`init_pair` has told curses and `attr` the number in the attributes of a window of
curses, which has room for `AttrPairs` numbers only. `init_pair` may fail. The module
composes this with the steps of `NcWindows`: attributes belong to the handle, so
they go where a move, an assignment or the saving of handles takes it, a duplicate
has those of its original, and a window that is made starts without.

### Display

A thread is out of `sync`, waits for the mutex, is in the function it handed over,
or is about to destroy the `lock_guard`. `owners` are the threads with a pointer of
their own; while a function runs there is one more, made by `shared_from_this`,
which is destroyed before the lock guard because it is an argument and no local
variable. The functions may share pointers, drop the one of their own caller, call
`sync` again, return or throw. `clear` is a call of `sync`. A mutex locked twice by
one thread is undefined behaviour; that it blocks is modelled, that it is refused
is an exception inside the function. `gaveUp` is history.

### The literals

The IPv4 parsers are operators: a number, or `Rejected`. `Inet4Syntax` says what a
literal stands for by the comments of `address.hpp` (`Documented`), with components
and weights instead of positions: a component is octal behind any leading zero,
hexadecimal behind `0x`, or decimal, and the last of n components is all octets that
are left. The code departs from that in two places, and `ReadsIPv4` keeps them apart
from the documented syntax instead of building them into it: a last component above
`ReadBelow` is rejected (2^31 alone, more than an octet behind others), and one
behind two zeros is read as decimal. Outside these it demands what is documented, and
for these it says what becomes of them. `inet6_aton` is a state machine because its loop keeps an
index into the literal and another into the address, which is what goes wrong in
such code. A literal is given as tokens: the parser reads their characters, the
reference reads the tokens.

### Hexdump

Of a character only its column and the byte it belongs to matter, so a line is a
sequence of byte indices and blanks. What the two loops lay out (`hex`, `text`)
and the length computed beside them (`CutLength`) are apart in the code, and the
properties compare the two. A line also has its label, the offset as a `size_t`,
and the digits the label takes: `setw(8)` is a minimum, so a label from 2^32 on, and
that of a negative offset, is wider (`LabelWidth`). The range of a dump is rounded up
to whole lines, as the loop does.

## Runs

| run | checks | shows |
|---|---|---|
| `TcpClient_stream` | `QueueCoversUnsent`, `NoStall`, `ImplementsByteStream`, `EventuallySent`, `EventuallyRead`, `NoSpin` | no interleaving loses, repeats or reorders bytes or forgets to arm a write; the client refines `ByteStream`; both directions make progress and an idle client is quiet |
| `TcpClient_freed` | `NoUseAfterDelete`, violated | `cb_ev` uses its object after `delete this` |
| `LineClient_text` | `Conserved`, `ResidueBounded`, `CompleteAtLineEnds`, `OwnersKeepAlive`, `CalledDeadOnlyIfKept`, `EventuallyComplete` | on a client, and with a search that returns the index past a line end, the buffer is right for every cutting of the text and reports every line end while the client is served; whoever is destroyed first, the client lives as long as it is owned, and a destroyed buffer is called in two cases only |
| `LineBuffer_default` | `OneLinePerLineEnd`, violated | with `default_eol_search` one line end is reported for ever |
| `TcpConnect_attempts` | `OneOwner`, `ClientIsEstablished`, `AllTried`, `ConstructorEnds` | no failure leaks a descriptor or leaves a half-made client; the candidate loop ends |
| `TcpConnect_port` | `PortRecorded`, violated | the local port of a client is not recorded |
| `Mumta_daemon` | `CountIsLive`, `DescriptorsOwned`, `ReadyIsCompatible`, `StoppingIsQuiet`, `EventuallyAccepted`, `EventuallyStops` | counter, descriptors and watchers stay consistent while servers come and go; waiting peers are accepted; READY and STOPPING are true; the daemon ends |
| `Hexdump_layout` | `EveryByteShown`, `ColumnsAlign`, `CutAtLast` | each byte from `offset_start` to the end of the last line is shown once under its offset, and no other; columns align unless a label is too wide, which shifts its line by the digits it has more; the computed length is that of the cells |
| `NcColors_windows` | `RegisteredOnce`, `ManagedOnce`, `ParentIsHolder`, `PairsAgree`, `ShownAsChosen`, `PairsKept` | objects stay registered once, manage different, existing windows and know their holder, and every window keeps its colour while it is copied, moved, saved and restored and the pairs are used up |
| `NcWindows_lost` | `NoHandleLost`, violated | leaving ncurses mode loses the handle of every subwindow |
| `InetLiterals_regular` | `ParsesIPv4`, `ParsesCanonical`, `ParsesIPv6`, `StaysInside`, `OneFamily` | literals of both families are read as documented or rejected, but for two named exceptions of the IPv4 parsers |
| `Display_sync` | `OneDrawer`, `AliveInCall`, `DestroyedUnlocked`, `CallsComplete` | threads draw one at a time on a terminal that is there, calls end, and only a call whose own function drops its caller's pointer destroys a locked mutex |

Deadlock is checked in `Hexdump_layout` and `InetLiterals_regular`, where it would
be a loop that cannot go on; the functions that have returned stutter there. The
other instances may stop: the process ends, with `main` or with an exception, or
the bounded input is used up.

The type invariants are no part of a run: those of `TcpClient`, `TcpConnect`,
`TcpServer`, `LineBuffer`, `NcColors` and `Display` are proved. So is `WireInOrder`,
which `ImplementsByteStream` implies.

### Bounds

- `MaxBytes` 3 and `SndBuf` 2 give queues of up to three records, records that
  are sent in one, two and three parts, full buffers and EAGAIN. A fourth byte
  adds no new shape of the head or the tail of the queue, the only places the
  code touches; the proofs cover every length.
- `MaxIn` 2 with `RecvBuf` 1 makes two callbacks out of one arrival, so that data
  is still waiting when the callback returns. The code's buffer has 1024 bytes.
- A text of four characters over CR, LF and one other, cut into chunks of up to
  two, holds CR LF pairs within a chunk and across two, empty lines, lines of
  several chunks and, with `Max` 2, a line that is flushed before its end. One
  byte of output and room for one make the output compete with the input.
  `MaxLines` is above the number of characters, so it never restricts a run
  with a search that makes progress; with the default search, on chunks of up to
  three, it ends the loop that the program would not leave.
- Two descriptors suffice for an attempt to connect, three leave one for another
  user, so that `socket` may fail or succeed anywhere. Lists of up to three
  addresses make a reversal visible. Two attempts show what the first one leaves
  behind.
- A backlog of two with three peers fills up (the code passes 5 to `listen`),
  three descriptors run out, and the second of two servers (`MaxServers`) shows
  what the first leaves behind. `HalfWord` 16 stands for 2^16; the versions found
  differ from those compiled against in one library at a time, in each half, to
  either side.
- Two windows can be copied and moved to one another; three places for
  subwindows let a vector with one element grow into new memory; three handles
  run out. Places and handles are symmetric, and the runs with symmetry check no
  liveness. Two colours and three pairs (two of which have a number above 0) with
  `AttrPairs` 3 use all pairs up, and `init_pair` may fail before; what more colours
  and pairs do is proved.
- Three threads: one in `sync`, one waiting and one that drops or passes on its
  pointer meanwhile.
- An octet has 16 values and two digits, a hexlet 256 and two digits: the limits
  of an octet, of a hexlet and of an `int` (half of 16^4) are then literals of at
  most five characters. IPv6 addresses keep their eight components. The literals
  are every IPv4 literal of up to three components out of 17, and of up to five
  out of five, valid or not; every IPv6 literal of up to four tokens out of seven;
  and every literal of up to nine hexlets, or hexlets and an IPv4 address, with
  up to two shorteners at any places. `Regular` leaves out three shapes that the
  parser misreads; they are listed under "Known deviations".
- Dumps have up to four bytes in a line, groups of up to three, ranges from -1 or 0 to
  4, an empty one too, every set of missing bytes in the first line and every buffer
  of up to six bytes, of which the last line may show some behind the range: groups
  that divide a line and groups that do not, up to six lines, holes at every place.
  `Word` is 2^16, above every length that is computed, and a label has two digits at
  least and four at most: the labels of a dump cross from one digit to two, from two
  to three, and from -1, which is 65535, to 3.

### Fairness

The thread is never preempted by other code of the program, so: libev reports
what is ready (`PollReady`, `PollServer`, `PollStdin`), a callback that has been
entered goes on (`CbEv`, `Handler`, `Constructor`), which includes
that the application's callback returns and that blocking calls do, `main` goes
on between its calls, and `run` returns when it may. `TcpClient` also assumes that
a peer whose send buffer is not empty reads (`PeerDrains`), without which nobody
could promise that bytes leave. Peers need never send, connect or close, and no
application action is assumed. In `Display` each thread is scheduled and its
functions return (`Sync`); the mutex prefers nobody, so `CallsComplete` promises that
some waiting thread gets on, not that each one does. All fairness is weak.

## Proofs

TLAPS checks, for all values of the constants:

- `TcpClient_proofs`: `TypeCorrect`, `QueueIsUnsent`, `WireIsOrdered`,
  `ByteStreamRefined` and `NeverStalls`. `QueueCoversUnsent` is not inductive
  alone: it says nothing of a destroyed client, and a step of
  `push_write_queue` must not be possible there. `IInv` adds `WireInOrder` and
  that a destroyed client holds no bytes. The heart are two lemmas on `Covers`,
  which says that a queue is a gapless range of the stream: appending the next
  n bytes extends the range at its end, and writing n bytes of the first record
  and putting the rest back moves its start by n. `Step` then shows for each
  action that it preserves `IInv` and is a step of `ByteStream` or a stutter.
- `LineClient_proofs`: `NothingLost`, that `TypeOK`, `Conserved` and
  `ResidueBounded` are invariant of `LineBuffer` for any search that stays in its
  chunk, `default_eol_search` included. The strengthening says that an idle buffer
  has looked at its whole chunk (`IdleAtEnd`). `NothingLostOnClient` carries this
  to the composition: every step of `LineClient` is one of `LineBuffer` or a
  stutter (`BufferOrStutter`). `OwnershipHolds` and `CallbackOutlivesOnlyKept` rest
  on an invariant on who holds a client at which place (`OwnInv`).
  `LinesAtLineEnds` proves `CompleteAtLineEnds` under the hypothesis
  `SearchesPastEnd`: the search returns the index past the next line end of the
  chunk, or npos if there is none. `default_eol_search` does not (see
  `LineBuffer_default`); the search of `LineClient_text` does. The invariant
  `EndsInv` adds that what is left of the chunk is the end of what was received, and
  that of the places where a chunk ended only that end lies in it: so a line end of
  the chunk is one of the text, CR LF cut in two included.
  `StreamBelowBuffer` and `QueueBelowBuffer` carry the theorems of `TcpClient_proofs`
  to the client of the composition: each of its steps is one of `TcpClient`, a
  stutter, or the abort of an event that finds the buffer destroyed
  (`ClientOrAbort`), which is a failure of the stream. No run states these two.
- `TcpConnect_proofs`: `NoDescriptorLeaks` and `ClientIsReady`. The strengthening
  of the first says at which places a handle is empty, so that no descriptor is
  overwritten; that of the second (`Established`) follows the candidate through
  connect, the move into the member and the start of the watcher, and also gives
  `TypeOK`. `EveryAddressIsTried` needs that the addresses tried and those still in
  the queue are together the list, in its order (`NothingPassedOver`).
- `Mumta_proofs`: `CountIsExact` and `DescriptorsAreOwned` of `TcpServer`; their
  strengthening says at which places the client and the handler's reference exist.
  `StoppingIsTrue` and `DaemonOwnsDescriptors` carry the invariant
  of `TcpServer` through `main`, with two additions: `Placed`, what the places of
  the loop mean, and `Phases`, what each phase of `main` has to do with them.
  `ReadyMeansCompatible` rests on `HalvesCompare`, that comparing the upper halves
  for equality and the lower ones for order bounds the difference of the numbers,
  wherever they are split.
- `NcColors_proofs`: `TablesAgree`, `PairsAreKept` and `ColorIsShown`. `PairsAgree`
  needs to know that fewer colours are registered than there are pairs, and
  `ShownAsChosen` that the attribute holds the number of the pair of the chosen
  colour, reduced to its width (`ShownByPair`). A step of the windows leaves the
  table alone and gives each window of curses the attributes it had, those of
  another, or none (`WindowStep`), so the colours need nothing of `NcWindows` but
  the types of its handles. `ObjectsAreRegistered`, `WindowsAreManagedOnce` and
  `ParentsAreHolders` are about the windows themselves, and `WindowsAlone` says the
  same of `NcWindows` without colours. None of the three is inductive; `WindowInv`
  adds that the vectors are disjoint, repeat no element and hold living subwindows
  only (`Vectors`), that an object has its window in one of its two handles
  (`OneField`), and that an object without a window holds no subwindow that has one
  (`NoneWithin`), since an assignment keeps the subwindows of such an object.
- `Display_proofs`: `DrawsAlone`, `StaysAlive` and `DestructionIsOwn`, for any number
  of threads. The common invariant says that whoever is between the two ends of
  `sync` holds the mutex, that a thread which waits has a pointer of its own, and
  that a display with an owner or a running function is alive.
- `Inet6Parser_proofs`: `LoopStaysInside`, for any literal and any number of
  components; it needs the types of the literal and of the shortener's position.
  `FamiliesAreDisjoint` proves `OneFamily`: a literal that the loop accepts holds a
  colon (`ColonInv`: without one the first hexlet is all of it), and a literal with
  a colon has a component that no IPv4 parser reads (`ColonIsNoIPv4`). It needs more than
  two components, so that an embedded IPv4 address is not all of the address.
  `ReadsEveryIPv4` and `ReadsEveryCanonicalIPv4` prove `ParsesIPv4` and
  `ParsesCanonical` for every literal and every width of an octet. That the literal
  is a sequence of characters is all of the invariant; the work is in the lemmas,
  which follow the reference and the parser through the same characters. A fold is
  the choice of a function on sets of places: `FoldExists` shows that there is one,
  by induction on the number of places (`UpFromZero`, stated with a set in place of a
  predicate), so that a fold may be unrolled from one element to the next
  (`SpelledByDigit`, `Sums`, `ComponentsByChar`), and `NumeralByDigit` does the same
  for the recursive function of the parser. From there: what a component spells is
  what `parse_address_component` reads (`NumeralIsSpelled`, `ParsesDigits`), in the
  base that the prefix says (`ReadsComponent`; `LeadingZero` for the zero that the
  code skips and the reference does not) or in canonical form
  (`ReadsCanonicalComponent`; by `TooManyDigits` the limit of the digits refuses no
  octet); the weighed components add up to the address (`SumIsAddress`);
  `rfind_chr` finds the dots that the literal is split at (`DotsAreEnds`,
  `SplitsAtDots`, `FiveParts`). Where the cases of `inet_addr_impl` overlap, they agree
  (`ReadsDots`). What is read so is what is documented, outside the two exceptions, and
  nothing for a last component that is too wide (`DocumentedOfRead`, `AsDocumented`).
- `Hexdump_proofs`: `CutsAtLast`, `BytesAlign` and `BytesAreShown`, for dumps of any
  layout, range and data. The invariant `DumpInv` says where each cell of the line
  is and that all other places are blank (`LineInv`), that a line that is written keeps
  them all (`Written`), and that the lines follow each other without a gap, each
  labelled with its offset modulo `Word`, the last of them beginning in the range
  (`OutInv`). An offset of these lines is in exactly one (`LineOf`), and since offsets
  are less than a word apart a reader who adds up a label finds no other (`PlacesAre`).

The assumptions are those of the modules: sizes are natural numbers and the
buffers are not empty (`BoundsAssumption`, `ClientBoundsAssumption`), -1 is no descriptor
(`NullFdAssumption`), a search returns an index in its chunk
(`SearchAssumption`), there is a pair 0 (`PairsAssumption`), an address has
more than two components (`HexletsAssumption`), literals are sequences of characters
(`LiteralsAssumption`), a hexlet has the width of two octets (`WidthAssumption`),
all values of an octet can be written with the digits of a canonical component,
255 with three of them (`DigitsAssumption`),
versions are natural numbers (`VersionsAssumption`), a dump has bytes in its
lines and groups (`DumpsAssumption`), the length of a line is no more than a
`size_t` holds (`LengthAssumption`), labels have a number of digits
(`LabelAssumption`), the loop computes no offset that an `off_t` does not hold and
asks for none that `get_data` has no answer to (`OffsetsAssumption`), and places are
distinct
(`PlacesAssumption`). TLC evaluates them on every run.

Only model-checked: everything under fairness (`EventuallySent`, `EventuallyRead`,
`NoSpin`, `EventuallyComplete`, `ConstructorEnds`, `EventuallyAccepted`,
`EventuallyStops`, `CallsComplete`),
which is out of the prover's reach; and what the loop for IPv6 literals reads
(`ParsesIPv6`). Its reference is written over the tokens that a literal is put
together from, its loop reads characters and moves components at its end: a proof
would have to follow both through every place of a shortener, and the claim itself is
about literals whose tokens can be told apart in the characters, which those of
the run are by choice.

## Known deviations

Four runs show the program to differ from what its own comments, assertions or
build flags say; PROJECT.json quotes them. While modelling, the following were met
too. The models do what the code does in each case, or leave the input out
where said; no run is about them.

- `tcp_server_socket.cpp:98`: a client lives only while the listener runs, so what
  the listener writes to it is discarded; `connection_client.hpp:25` calls
  `write_data` a queueing of data to be sent. (`ListenerWrites`, `ClientGone`)
- `tcp_server_socket.cpp:108`: the destructor callback of the client uses the
  server that its listener has destroyed. (`DestructorCbDangling`)
- `tcp_client.cpp:173`: data that arrives before a callback is registered calls an
  empty `std::function`. (`RecvNoCallback`)
- `tcp_client.cpp:130`: the constructors that delegate pass `AF_UNSPEC`, which the
  constructor they delegate to refuses. (`Families`, `Construct`)
- `tcp_server_socket.cpp:83`: the address of a peer on an IPv6 socket is read into a
  `sockaddr_in`. (Peers have no address in `TcpServer`.)
- `connection_line_buffer.cpp:40`: a buffer that is destroyed before its client, or
  from its own callback, is used afterwards (`RecvIntoDead`, `PassOnDead`); a buffer
  can be copied, and the copy is never called. With the loopback test double,
  whose `write_data` calls the peer at once, an answer written from
  `found_next_line_cb` may re-enter `conn_data_in_cb` before `data` is emptied.
- `tcp_client.cpp:171`: the client deletes itself although a `std::shared_ptr` owns it,
  which deletes it again.
- `view.cpp:6`: a view with a parent cannot be constructed: `shared_from_this` throws,
  before any `shared_ptr` owns the object and because `enable_shared_from_this` is a
  private base (`view.hpp:17`); `view.hpp:58` says that the constructor `shall be
  capable of creating the view`.
- `display.hpp:36`: a function that calls `sync` or `clear` blocks its thread and with
  it every other one (`CallNested`); one that drops the last owner makes
  the lock guard unlock a destroyed mutex (`Unlock`). A second display's end would
  end curses mode under the first; `nc-test.cpp:27` reads keys outside of `sync`.
- `Window.cpp:96`: a window that moves leaves its subwindows with a reference to
  the place it has left. (`ParentIsHolder` excludes them.)
- `Window_output.cpp`, `Window_input.cpp`: `getnstr` and `innstr` leave their strings at
  the size of the buffer. (Not modelled.)
- `Ncurses.cpp:37`: a subwindow of the singleton that is left at process exit fails
  this assertion, because the table is destroyed first. (`ProcessExit`)
- `Ncurses.cpp:308`: `color_get` of a window without a colour reads index -1.
  (`ColorGetOutside`)
- `Ncurses.cpp:301`: `COLOR_PAIR` keeps the low eight bits of the number, so from
  256 colours on others are shown. (`ShownAsChosen` is about fewer.)
- `address.hpp:151`: a single-component IPv4 literal of 2^31 and more is rejected,
  because the component is returned as an `int`; line 246 documents the form `a`,
  and line 285 passes 0xFFFFFFFF as its limit. (`ReadsIPv4` names it: `tooWide`.)
- `address.hpp:265`: the last of two or three components is read as an octet; by the
  `standard rules` of line 260 (those of `inet_aton`) it is three octets or two.
  (`ReadsIPv4`: `tooWide`.)
- `address.hpp:182`: a component that starts with two zeros is read as decimal; line
  248 documents octal. (`ReadsIPv4`: `twoZeros`.)
- `address.hpp:229`: the last component of a canonical literal is not checked.
  (`ParsesCanonical` says nothing of it.)
- `address.hpp:352`: an IPv6 literal may end with a single colon; an IPv4 address
  before the end of one is misread. (Left out of `Regular`.)
- `address.hpp:376`: with a shortener that stands for the one component an embedded
  IPv4 address leaves, the address read is all zeros. (Left out of `Regular`.)
- `hexdump.cpp:41`: a dump shows the bytes behind `offset_end` that are in its last
  line, if they exist. (`EveryByteShown` counts them.)
- `hexdump.cpp:34`: a label that does not fit eight digits, that of a negative offset
  or one from 2^32 on, shifts its line. (`ColumnsAlign` says by how much.)
- `hexdump.cpp:86`: the line is not cut when it has no byte. 0 bytes in a line never
  end, 0 in a group divide by zero. (`DumpsAssumption` excludes the last two.)
- `openssl.cpp:22`: the message prints the run-time version twice. (No wording is
  modelled.)
- `evloop.hpp` declares `init_watchdog`, which no file defines.

## Not modelled, and the plan

Left out on purpose:

- the wording of messages, and what the terminal programs draw;
- the loopback test double, which no program uses;
- the output, input, option and attribute functions of the ncurses wrapper, and its
  constants: each asserts that there is a handle and passes its arguments on, so
  there is no state to model beside the handle;
- the views: with the constructor as it is no view has a parent, so there is no tree
  whose ownership could go wrong before that is changed. A view without a parent is
  two empty members. Events hold a sender and a
  flag that one function sets, which nothing calls;
- `ptr` and `size` of `socketaddr`, plain reads;
- subwindows of subwindows. `NcWindows` keeps one vector per holder; nesting would
  make a holder of every place and multiply the states.

Next, in this order:

1. Several clients in one loop with pending events, to show which failures of one
   connection reach the others.
2. Nested subwindows; the invariants `WindowInv` consists of should carry over to
   more holders.
3. A proof of `ParsesIPv6`, along an invariant that says which tokens the loop has
   read; `UpFromZero` and `FoldExists` are there for its folds.
