# C_Network_Tools in TLA+

The repository is a collection of small C programs about networks: a threaded
chat server with its client, port scanners, a traceroute, and tools that ask DNS
and Whois servers. This directory holds TLA+ modules of these programs, TLC
configurations that check them on small instances, and TLAPS proofs for every
value of the constants. Paths below are relative to `src/`; the
directory `Server-Client Relationship` is written `Chat` here.

## 1. Inventory

The programs share no code at run time; only the chat server and the chat client
talk to each other. The others talk to hosts that are not in the repository.

| Component | State it keeps | Operations | Status |
|---|---|---|---|
| Chat server, `Chat/SocketServer.c` | `clientSockets[]`, `clients[]`, one mutex, a thread per connection | accept loop of `main()`, `handleClient()`, `broadcastMessage()` | modelled |
| Chat client, `Chat/SocketClient.c` | one socket, terminal input, two threads | `main()`, `receiveMessages()` | modelled |
| Traceroute, `Network_Mapping/Traceroute` (and a copy in `Fingerprinting/Traceroute`) | TTL, raw socket, lines printed | `traceroute()`, `create_packet()`, `checksum()` | modelled |
| Connecting scanners and UDP scanner, `TCP_CONNECT_SCAN`, `SCTP_SCAN`, `UDP_SCAN` | port, one socket per probe | `scan_ports()`, the probe | modelled |
| Dnsenum, Nslookup, Dig, Host in `Fingerprinting` | one query buffer, a cursor into the answer | build the query, send, receive, parse | modelled |
| Zone transfer, `Fingerprinting/AXFR(DNS Zone Transfer)` | one buffer | send the query, receive until a short datagram | modelled |
| Whois, `Fingerprinting/Whois` | one buffer | connect, send, receive until the end | modelled |
| Raw TCP scanners, `TCP_SYN/FIN/NULL/ACK/XMAS_SCAN` | port, one raw socket per probe | `scan_ports()`, the probe | modelled, in the reading of section 2 |

What is hard in each of them, and what makes it correct:

* **Chat server.** Handlers and the main thread share two tables and a mutex;
  descriptor numbers are reused by the kernel while old ones stay in
  `clientSockets[]`; `send()` may block with the mutex held; clients leave at any
  moment; `recv()` cuts the stream where it likes. Correct means: a thread works
  on its own connection only, entries are exclusive, all clients see one order,
  nobody gets its own lines, no text is lost, and nobody waits for ever.
* **Chat client.** Two threads use one descriptor; two functions with different
  limits read one input; the server may leave at any time. Correct means: what
  the user typed is what is sent, the client keeps reading, and it ends with the
  server.
* **Traceroute.** Answers come late, out of order or never, and the raw socket
  delivers everybody's ICMP messages. Correct means: a line belongs to its hop,
  and the loop ends. The checksum has to verify at the receiver.
* **Scanners.** A thousand probes, each of which may be answered late, refused or
  lost, with a limited number of descriptors; five calls in a row, any of which may
  fail. Correct means: no port gets the verdict of another, sockets are given back,
  and the scan ends, or says where it did.
* **DNS tools.** Lengths and offsets are counted by hand, in uninitialised
  buffers. Correct means: the question can be read back, and the walk through the
  answer stays in step with its records.
* **Zone transfer and Whois.** The answer comes in pieces whose number and sizes
  nobody knows. Correct means: every piece is printed once, nothing else is, and the
  program knows the end.

The hazards, each with its line and its properties, are in `PROJECT.json`.

## 2. Modules

| Module | Models | Composes or uses |
|---|---|---|
| `ChatRoom` | abstract: what the server promises, a log of messages that are handed out in order | |
| `ChatPeer` | abstract: the contract between the two chat programs over one connection | |
| `ChatServer` | `SocketServer.c` with the kernel's descriptors, queue and connections | instantiates `ChatRoom`, and `ChatPeer` once per connection |
| `ChatText` | one entry of `clients[]` character by character: `strncpy()`, `"%s"` and `snprintf()` of the handlers that own it in turn | refines what `ChatServer` takes for one step |
| `ChatClient` | `SocketClient.c` with the server's end of its connection | instantiates `ChatPeer` |
| `Traceroute` | the probing loop, the raw socket and the network | |
| `Checksum` | `checksum()` word by word, with the width of its integers | |
| `PortScan` | the loop over the ports; the TCP connect, SCTP and UDP probes, the kernel's `connect()`, the host and the network | |
| `RawScan` | the five raw scanners | extends `PortScan`: its loop and variables; all eight scanners in one specification |
| `DnsName` | how Dnsenum, Nslookup, Dig and Host write the question | |
| `DnsAnswer` | sending, receiving and reading the answer | |
| `Transfer` | AXFR and Whois | extends `DnsAnswer`: its variables; all five tools in one specification |
| `MCChatServer`, `MCChatText`, `MCChatClient`, `MCDnsName`, `MCTransfer`, `MCPortScan` | values of constants and symmetries for TLC | `MCPortScan` extends `RawScan`, the others the module of the same name |
| `MCFingerprinting` | the tools of `Fingerprinting` from end to end: a query is written, sent and answered | extends `MCDnsName` and `MCTransfer` |
| `MCNetworkMapping` | the programs of `Network_Mapping`, of which one runs at a time | extends `MCPortScan`, `Traceroute` and `Checksum` |
| `ChatServerProofs`, `ChatTextProofs`, `ChatClientProofs`, `TracerouteProofs`, `ChecksumProofs`, `DnsNameProofs`, `TransferProofs`, `PortScanProofs` | theorems | extend the module of the same name, `PortScanProofs` extends `RawScan` |

A definition whose comment begins "Mutant of ..." is not part of a specification:
it is the named action as a plausible mistake would have it, and is there to show
that a property notices.

### Chat server

`pc[c]` is the program point of the handler thread of connection `c`, `mainpc`
that of `main()`; `hfd`, `clientIP`, `buffer`, `clientIndex`, `message` and `pos`
are the handler's local variables, `clientSockets`, `clients` and `mutex` the
globals. `desc` is the kernel's descriptor table: `Accept` takes the lowest free
number and `CloseDescriptor` frees it, which is what makes reuse happen. A
critical section that touches only memory takes two steps (take the mutex and
search, write and release): nothing else can touch its table in between, and the
mutants that drop the lock show that it matters. `broadcastMessage()` takes one
step per `send()`, because each may block. `Deliver` says what one `send()` does to
an open, closed, half-closed or reset connection. `log` is a history variable.

`ChatText` looks at the one thing that `ChatServer` takes for granted, the characters
of `clients[i].name`: the owner writes them with the mutex held, one `CopyByte` per
place in any order, and every handler that prints the name first searches the zero
(`Measure`) and then copies (`Fetch`), without the mutex. A character is known by the
handler that wrote it, so a label shows whose it is. A handler that finds the entry
taken leaves this module (`ClaimElsewhere`): it takes another entry, or none. What
`strlen(message)` and the address in the label contribute is a length.

Left out: failures of `socket()`, `bind()`, `listen()` before the loop, `malloc()`
returning NULL, and, outside of `ChatText`, the lengths of texts; a piece of text is the number of the
`send()` it came from, and `recv()` returns any number of whole pieces, so two pieces
can be merged into one line. A line that `recv()`
splits is covered by a client that sends it as two pieces.

### Chat client

`script` is what the user will type, a sequence of lines; a line is a sequence of
tokens and one token fills the nickname's array, so that "too long for `fgets()`" and
"a rest that reads exit" both exist. `mpc` and `rpc` are the program points of the
two threads. `Sent`, `NotSent` and `Killed` are the outcomes of `send()`. `exit()` in
either thread ends the process in one step.

### Traceroute and checksum

The network answers the probe with TTL `t` as node `t` of the path, or as the
destination, after any time or never, but not twice; other nodes send ICMP messages of
their own. Nobody looks at the result of either `setsockopt()`: that of the timeout may
fail in the model (`sockfd` stays `open` instead of `timed`), that of `IP_TTL` may not,
so a probe always has the TTL of its line.
`Checksum` uses bytes below `H` (256 in C) and keeps the sum modulo `B*B` with
`B = H*H`, the width of the unsigned int; `total` is the sum without a bound.

### Scanners

`PortScan` has three, since their loops are the same and their probes differ in
a few branches on `tool`. `wire` is what is under way for the newest socket: a new
socket gets nothing that was meant for an older one. `SO_RCVTIMEO` has no influence on
`connect()`, which gives up when the kernel has sent its last request: `TRIES`. `timed`
says whether `setsockopt()` gave the newest socket a timeout; UDP, SYN and ACK go on
when it did not.

`RawScan` describes each of the five raw scanners by a record: the order of its five
calls, the outcomes that end the process or the probe, what its socket hears, what
it prints, and whether it closes the socket. The actions follow the record. A line
`silent` or `unsent` stands for the messages of `tcp_null_scan.c` that say that there
was no answer, or that nothing could be sent.

None of the five is accepted by a compiler. What is modelled is the text with its
slips read as the surrounding code asks for:

* `tcp_syn_scan.c`: `sendto()` in line 30 has a comma in place of its last arguments and
  the address in place of the packet, and line 44 a brace without a partner;
* `tcp_fin_scan.c`: `timeof`, `EXITFAILURE`, `sizeof(ip_header)` and the cast of `from` in
  lines 142 to 158 are `timeout`, `EXIT_FAILURE`, `sizeof(struct ip_header)` and
  `(struct sockaddr *)&from`; line 160 compares the pointer `response_tcp` with 4, and is
  read as it stands;
* `tcp_null_scan.c`: the packet's structures and `checksum()` have no declaration, `from` and
  `fromlen` have two; there is no loop and no `main()`, and the caller is taken to be that of
  the others;
* `tcp_ack_scan.c`: the function of line 54 is `checksum()` and adds the byte in line 64, not
  its address; `RAW_SOCK`, `IPROTO_RAW`, `IPROTO_TCP`, `targer`, the `ip` of line 90 and
  `respones` are `SOCK_RAW`, `IPPROTO_RAW`, `IPPROTO_TCP`, `target`, the address and `response`;
  line 95 lacks its semicolon; `dest_port`, `checksum`, `ip_off`, `ip_prot`, `ip_dest` and
  `ip_checksum` are `dst_port`, `sum`, `off`, `ip_p`, `ip_dst` and `ip_sum`; the casts of
  `server` and `from` in lines 139 and 151 are of their addresses; and the `return` inside the
  `?:` of line 157 returns the value of the expression, in which a pointer is compared with
  4; `close()` is not declared, here and in the next;
* `tcp_xmas_scan.c`: lines 22, 98 and 158 lack their semicolons; the name of the structure in
  line 28 has a letter that is not ASCII; `tcphd` of line 53 is a variable where a type is
  meant; `dest_port`, `ip_dest`, `ip_checksum` and `destination_address` are `dst_port`,
  `ip_dst`, `ip_sum` and `dest_address`; `IPROTO_RAW`, `IPROTO_TCP`, `sock_addr`, `r_soket`,
  `SO_RCTIMEO`, `timeot` and `FAILURE` are `IPPROTO_RAW`, `IPPROTO_TCP`, `sockaddr`,
  `r_socket`, `SO_RCVTIMEO`, `timeout` and `EXIT_FAILURE`; the loop of line 61 lacks its
  closing brace, line 151 has one too many, and the string of line 149 lacks its end; `from`,
  `fromlen` and `response` are declared twice; the cast of `from` in line 175 is of its
  address; and line 186 compares the pointer with 4 and 20, as it stands.

These files have no `main()` that calls `scan_ports()`; one call is modelled.
The contents of the packets, whose fields are constants, are left out, except for the
checksum: `Checksum` is the algorithm of all copies of `checksum()`.

### DNS

`DnsName` has the buffer with C's indices; it may hold any junk, zero or not, before
the program writes to it. `DnsAnswer` has an answer byte by byte behind the header.
Nslookup and Dig have a fixed name in `main()`; their functions are modelled for
every name. `recvfrom()` has room for 512 bytes, and over UDP a server sends no more than
that to a query without EDNS, as all of these are: the answer is not cut, and repeats the
question. What Nslookup reads behind the end of a datagram is one state, `beyond`. Dig looks
for its record without asking how long the answer is: where the place lies behind it, the two
bytes of the type are any, and what it then prints is `Unreceived`. The query and the answer
may be lost; a second copy of an answer would find nobody at the only `recvfrom()`, so only the
datagrams of AXFR are duplicated. Host is Dig with a domain that the user enters.
The servers in `DnsAnswer` answer every query, although those of Nslookup and Dig are
seldom readable: parsing is judged on its own. The same holds for the server in `Transfer`, which may answer AXFR with datagrams of any size,
although its query asks for something else (run `AxfrQuestion`). `Transfer` knows a
byte by its place, so that one can see what was printed twice, late or not at all.

## 3. Runs

Runs that pass:

| Run | Properties | What it shows; bounds, and why they are enough |
|---|---|---|
| `ChatReuse` | `DescriptorOwned`, `SlotExclusive`, `NoEcho`, `LabelledBySender`, `ReachesEveryone`, `CopiesBounded`, `ImplementsRoom` | Three clients with a nickname and a line each, one of which may leave while the two others name themselves and chat. Its descriptor number goes to a newcomer and is then listed twice in `clientSockets[]`, its entry of `clients[]` is taken over, two broadcasts compete for the mutex, `send()` blocks with one message in flight, threads fail to start, and the one that leaves may do so before `getpeername()`. Two senders and one receiver besides them are the least that can see two broadcasts mixed. |
| `ChatLive` | `TypeOK`, `SecondTableHasRoom`, `MutexReleased`, `DepartureNoticed`, `EveryoneServed` | Three clients for two entries and a queue of one, so that clients wait for `accept()` and one is turned away; one may leave. Liveness under the fairness of section 4. |
| `ChatText` | `TypeOK`, `OwnName`, `LineLost`, `MixedWithLater` | Three handlers for one entry, so that the last line of one is printed while the second has released the entry and the third writes it. `name[]` has three places and nicknames up to three characters, one more than fit; a line may be as long as the buffer less the zero, so that some are cut and some are not. |
| `ChatClient` | `TypeOK`, `TextConserved`, `ImplementsPeer`, `KeepsReading`, `EndsWithServer` | All scripts of up to three lines of five kinds: empty, short, "exit", too long for the nickname, too long with a rest that reads "exit". The nickname takes one line, its rest the next, and a third shows that nothing is shifted further. |
| `NetworkMapping`, scanners | `OpenMeansAccepted`, `SocketsReturned`, `SocketsLeak`, `ScanEnds` | All eight scanners, four ports and two descriptors, so that the scanners that lose one for every port (UDP, SYN and ACK) are at the limit at the third, and NULL is when it could not send to two; every set of listening and silent ports, every call failing or not, segments from anywhere on the raw sockets. Two requests of `connect()` are enough for an answer to the first to come after the second. |
| `NetworkMapping`, traceroute | `NeverEarly`, `WrongAfterSilence`, `StopsAtDestination`, `Terminates` | The destination at three, four TTLs, two foreign messages: late answers can shift every line, and after the first one that is late or foreign they do. |
| `NetworkMapping`, checksum | `Verifies`, `ZeroOnlyOfZero` | Bytes of base 3, all buffers of up to eight bytes: the sum exceeds a word and both folds carry. |
| `Fingerprinting`, names | `DnsenumReadable`, `InnerLengths` | All names of up to five characters of two letters and the dot: three labels, labels longer than a length byte may say (`MAX_LABEL`, three in place of 63), and dots at the ends or next to each other. |
| `Fingerprinting`, answers | `NslookupWalks`, `RightUpToName` | Up to three records of two types, which differ in the length of their data, with names that are pointers or of three or ten bytes, and with times to live of 60 and 300 seconds: behind ten bytes the walk takes the type for the length of the data and reads on inside the answer, where letters may look like an address. The server has records for one of the names only, since the answer does not depend on it. |
| `Fingerprinting`, transfers | `AxfrDatagrams`, `WhoisText`, `EndsOrWaits` | Up to two datagrams of AXFR, each delivered up to twice, shorter than, as long as and longer than a buffer of three bytes: a full one can be printed twice, before or after the other, and the end can come before both copies of either. A text of up to five bytes, NULs anywhere, and a buffer that takes two of them at a time. `EndsOrWaits` is checked of all five tools. |

`NetworkMapping` and `Fingerprinting` are one run each, `MappingSpec` and
`FingerprintingSpec`: the programs of a directory do not run together, but a run covers
every one of them, each with its own initial states and fairness.

Deadlock is not checked: all programs end, and a server whose clients have said
everything has nothing to do.

Runs that show where a program does something else than its texts say. Each checks
one property; the quotation is in `PROJECT.json` under `findings`.

| Run | What it shows |
|---|---|
| `ChatServerFull` | entries of `clientSockets[]` are never given back; after `MAX_CLIENTS` admissions the server is "full" for ever |
| `ChatStalled` | one client that does not read keeps every other from being served, which the threads were introduced to prevent |
| `NslookupName` | the question of Nslookup cannot be read back as the name |
| `AxfrQuestion` | type and class of the AXFR query overwrite the beginning of the name (`axfr.c:46-48`): who reads it finds the root for a name, and neither type nor class as the comments have them |
| `AxfrStops` | the transfer is over with the first datagram shorter than the buffer, whatever is still under way (`axfr.c:80`); that it goes on waiting when the last one fills the buffer is allowed by `EndsOrWaits` |
| `UdpPorts` | the UDP scanner keeps the descriptor of every port and exits when none is left (`udp_scan.c:17`, `udp_scan.c:46`). The run has two descriptors and four ports; in a process with the usual limit of 1024, three of them in use, the last three of 1024 ports are never scanned |

The models also contain the following behaviour of the code, which no run asks for:

* the nickname may hold the first line as well, since one `recv()` is taken for it
  (`Chat/SocketServer.c:58`), and a nickname of more than 49 characters goes on in the
  chat (`Chat/SocketClient.c:64`);
* a broadcast to a connection that was reset raises SIGPIPE and ends the server
  (`SocketServer.c:20`, in the model `alive`);
* the last `printf()` of a handler reads an entry of `clients[]` that another handler may
  be writing (`SocketServer.c:104`, program point `print` of `ChatServer`, `goodbye` of
  `ChatText`); what it prints may be mixed, but only of names of later owners, and it
  never leaves the array (`MixedWithLater`, `TypeOK`);
* `message[]` has 50 characters more than `buffer[]`, and name and address may need 64
  and five more: the end of a long line is lost without a trace (`SocketServer.c:93`,
  `LineLost`);
* `getpeername()` fails on a connection that was reset, and the address is whatever
  was on the stack (`SocketServer.c:53`, `clientIP` is `None`);
* after one answer that came too late or belonged to somebody else, the lines may
  show nodes of other hops (`Traceroute.c:136`, `WrongAfterSilence`), while
  `Fingerprinting/Traceroute/README.txt:1` speaks of "analyzing the responses from each
  hop.";
* an ICMP message of the destination that has nothing to do with a probe ends the
  trace (`Traceroute.c:141`), and `StopsAtDestination` takes it for an answer;
* the UDP scanner calls every port it scans open, because `recvfrom()` is given a size
  for a pointer and fails in any case (`udp_scan.c:37`), although `udp_scan.c:53` has a text
  for a port that "is CLOSED";
* FIN, ACK and XMAS open their socket with `IPPROTO_RAW`, to which nothing is delivered,
  and compare a pointer with 4, so that what they say does not depend on the host: FIN and
  ACK have no way to the text for an open port (`tcp_ack_scan.c:168`, "Port %d OPEN"), XMAS
  none to a closed one, which it tells from an open one by the answer in its comments
  (`tcp_xmas_scan.c:187-190`); a timeout is the only outcome, at which FIN and XMAS exit;
* FIN and NULL take the result of `inet_pton()` the wrong way round (`tcp_null_scan.c:43`),
  so that NULL, which would decide from the answer (`tcp_null_scan.c:115-119`, "no RST
  received"), says nothing of an address;
* SYN and ACK never close their sockets, FIN and XMAS exit with theirs, and NULL keeps
  one for every port it could not send to (`SocketsLeak`); UDP and SYN do not look at
  `setsockopt()` and ACK does not end at its failure, and all three can then wait for good
  (`ScanEnds`), as `traceroute()` can (`Terminates`);
* the SCTP scanner calls a port closed when two packets are lost (`sctp_scan.c:36`);
* Dig writes the lengths of the labels and not the letters (`dig.c:48`), and looks for the
  type of the first record one byte too early (`dig.c:63`), so it prints nothing, except when
  the answer has no record: then it looks at bytes of its buffer that were not received, and prints
  some of these as an address if they happen to hold the type A (`RightUpToName`);
* the DNS tools ask once and have no timeout: when a datagram is lost, or Nslookup could not
  send its query, they wait for ever (`nslookup.c:87`, allowed by `EndsOrWaits`);
* a label of more than 63 characters gets its length in a byte that then means a pointer
  (`dnsenum.c:43`, `InnerLengths`);
* Nslookup skips two bytes for the name of a record also when it is no pointer
  (`nslookup.c:115`). Behind such a record it is out of step: it may leave the answer
  (`beyond`), or print bytes that are no address, as it does behind a name of ten bytes and a
  time to live of 300 seconds. `RightUpToName` says how far what it prints is right;
* a datagram of a transfer that the network delivers twice is printed twice
  (`AxfrDatagrams`);
* Whois prints each piece as a string, so that a NUL hides the rest of its piece
  (`whois.c:52`, `WhoisText`).

## 4. Fairness

* Server: weak fairness for the main thread and for each handler, which is what the
  scheduler gives to threads. A default pthread mutex is not a queue, so nothing
  stronger is assumed of a thread that waits for it; `EveryoneServed` and
  `DepartureNoticed` hold all the same on the instance of `ChatLive`, where clients
  run out of text. A client not in `Stalled` goes on reading, as
  `receiveMessages()` does. Nobody has to connect, send or leave.
* Client: weak fairness for both threads, except where `main()` waits for the user.
  The server owes nothing.
* Traceroute (`TraceFairSpec`): weak fairness of the program; `recvfrom()` comes back at the
  latest after its timeout. When `setsockopt()` failed it has none and owes nothing, and
  `Terminates` says so.
* Scanners (`ScanSpec`): weak fairness of the scanner; each call comes back, `connect()`
  after its last request and `recv()` after its timeout. When `setsockopt()` failed and
  nobody looked, `recv()` owes nothing, and `ScanEnds` says so. The connecting scanners have
  to come to their last port, whatever fails; of the others `exit()` is an end as well.
* `MappingSpec` has the fairness of both, one program at a time.
* The DNS tools, AXFR and Whois (`TransferSpec`, and `FingerprintingSpec` with the fairness
  of the loops that write the name): weak fairness of each program, which
  goes on when there is something to receive. None has a timeout, so `EndsOrWaits` is
  that it ends or waits in its only `recv()` for something that does not come.
* In all of these the network and the other host owe nothing.

## 5. Proofs

`TLAPS` checks these for every value of the constants that the `ASSUME`s allow.

* `ChatServerProofs`. Eight invariants, each inductive together with those before
  it that it needs. `TypeInv` adds to `TypeOK` that a broadcast has a message and a handler an
  entry. `Ownership` says who may use a descriptor number: numbers in use refer to
  different connections, each holder's number to its own, and a connection in
  the queue is not known to anyone. It gives `DescriptorOwned`; the property alone
  is not inductive, because `Accept` could hand out the connection of a handler.
  `Locking` says who holds the mutex at which program point, that the entry found
  under it stays free until it is written, and that the message being sent is the
  newest of the log. It gives `SlotExclusive`. `NoEcho` follows from
  `Ownership`: the number compared is the sender's own, so the number written to
  is not its connection. With `Locking`, every step is a step of `ChatRoom` or changes
  neither log nor inboxes (`ServerImplementsRoom`), and a step of `ChatPeer` or a
  stutter for every connection (`ServerKeepsContract`).
  The other five are about the messages and the tables. `Labelling` follows nickname, address and text
  from the client's queue through `buffer`, `clients[]` and `message` to the
  receivers; with `EntryHeld` the unlocked read of `clients[clientIndex]` is a read of
  the sender's entry (`LabelledBySender`). `TableRoom` counts: entries of
  `clientSockets[]` are given out before a handler starts and never taken back, so the
  handlers are at most `MAX_CLIENTS`, each used entry of `clients[]` is one handler's, and
  the one that searches has none (`SecondTableHasRoom`). `Reach` says that what the loop
  of a broadcast has passed has the message, except for a number `accept()` has just
  given out: the loop may have passed it for its old owner, but `main()` waits for the
  mutex before it starts a handler (`ReachesEveryone`). `Newness` says that the first
  piece of a message is older than all text not yet received, so no two messages are
  alike, and `Copying` that half-way through a broadcast a client has at most as many
  copies as the loop has passed entries with its number (`CopiesBounded`).
* `ChatTextProofs`. `IInv` says that only the handler whose program point is between
  claim and release owns the entry, that each place it has written holds its own
  character or the zero (`Copied`), that a search or a copy of a name agrees with that
  as far as it has come (`Reading`), that the last place is zero, and that whoever
  once owned the entry finds in it only characters of later owners (`Overwritten`).
  None of the four properties is inductive alone: a label is right because of what was
  copied before it. `TypeOK` (a search never leaves `name[]`), `OwnName`, `LineLost` and
  `MixedWithLater` follow for every number of handlers and every size of the arrays
  that leaves room in `message[]` for name and address, as 50, 15 and 1074 do.
* `ChatPeer` is the composition: `ServerKeepsContract` proves the server's half,
  `ClientKeepsContract` of `ChatClientProofs` the client's (`ImplementsPeer`), and each
  side models the other as freely as the contract allows. The client's invariant,
  `Connected`, is that its end is open as long as its descriptor is: neither thread uses
  the connection after the first `close()`, whichever thread makes it.
* `ChatClientProofs`, the text. `TypeOK` of the client is inductive (`ClientTypes`).
  `TextConserved` is not: `send()` fails once the descriptor is closed, so `TextInv` adds
  that a closed descriptor, or a `receiveMessages()` about to close it, means that the
  server or `main()` has left, and that `line[]` is empty when it is read into
  (`TextReachesServer`).
* `TracerouteProofs`. `Inv` says that the answer to a probe exists once, in the network,
  in the socket's buffer or in the report, and not before its probe was sent, and that `i`
  probes were sent when line `i` is printed. `NeverEarly` follows, however late, lost or
  foreign the answers are; `WrongAfterSilence` and `StopsAtDestination` are parts of `Inv`.
* `ChecksumProofs`. `SumInv` relates the sum to `total`: below `2 * B` bytes the
  unsigned int does not wrap, each fold keeps the sum modulo `B - 1`, and the second
  one leaves a word. `Verifies` and `ZeroOnlyOfZero` follow, for the C program's
  `H = 256` and any other.
* `DnsNameProofs`. `LoopInv` says of each loop what is written: all
  starts before the cursor hold the right length and, for Dnsenum, all letters before
  it are copied. `DnsenumReadable` and `InnerLengths` follow for
  every domain of up to 255 characters.
* `TransferProofs`. Each tool has an invariant. `WalkInv`: the records have places in the
  answer, one after the other (`FlattenPlaces`), and as long as the names are pointers the
  reader of Nslookup is at the place of record `k + 1` (`InStep`); then what it printed is
  the addresses of the first `k` records (`WalkInStep`). `Layout` and `AnyRecord` are
  about the bytes of a record: where Nslookup looks for the type of a record whose name is no pointer there is
  a byte of the name that is not zero, or the end of the name and a zero, so it does not
  print that record either. Behind it the invariant claims nothing of the
  reader, only that lines already printed stay (`RightSoFar`). Dig looks between the two
  bytes of a pointer, or inside the name, and finds no type A in an answer that has a record;
  of one that has none the theorem says only that what is printed was not received.
  No bound on the length of names, answers or records is needed. `AxfrInv` has the list of
  the copies received as a witness, none of which is under way any more, and in which no
  copy is twice (`WholeDatagrams`). `WhoisInv` says that each byte up to `reader` was printed unless a NUL in the `BUF - 2` bytes before it,
  which are those that can be in its piece, hides it (`TextOnce`).
* `PortScanProofs`. `Inv` adds to the properties that an acceptance under way stands
  for the current port once the socket is open, and that the lines printed are as
  many as the ports done. It gives `OpenMeansAccepted` and `SocketsReturned`.
  `RawInv` counts the descriptors of the raw scanners line by line, by program point and
  with the socket that the current probe holds, `UdpLeak` those of UDP; `ScanInv` joins the
  two families (`ConnectingScans`, `DescriptorsLost`).

Assumptions on constants are named in the module that declares them and evaluated
by TLC in each run. The types of `Checksum`, `DnsName`, `DnsAnswer`, `Transfer`, `PortScan`,
`RawScan` and `Traceroute` are proved as parts of their invariants and not checked by a
run of their own.

`FlattenSeq` of the community modules, which joins lines, records and datagrams, is defined by
recursion over a function. The induction theorems of the library take an operator as a
parameter, which the provers cannot instantiate, so the lemmas about it go by the least
counterexample instead (`NoLeast`, from `NatLessThanWellFounded` and `WFMin`): the set of
places where an equation fails has no least element. `ChatClientProofs` and
`TransferProofs` have these lemmas each, as a state machine comes with either.

Every safety property of a passing run is a theorem. Model-checked only: the liveness
properties, `MutexReleased`, `DepartureNoticed`, `EveryoneServed`, `KeepsReading`,
`EndsWithServer`, `Terminates`, `ScanEnds` and `EndsOrWaits`, because they rest on fairness
and so on `ENABLED`, which is beyond the prover.

## 6. Plan

Done first, because it is where threads, tables and the kernel meet: the chat
server, its abstract specifications and their proofs, then the client, then the
programs that talk to the network, then the characters of the server's table. All
components of the inventory have a module now, and all safety properties that the runs check
are theorems. Left are the safety parts of the liveness properties: that a thread that waits
for the mutex finds its holder at a step that does not wait for it, and that a scanner or
a tool that is not at its end is at a call that comes back or at its `recv()`.

## 7. Not modelled

* Failures of calls before the loops of the chat server and of `socket()` in the DNS
  tools: the program prints a message and ends.
* The constant fields of the protocol headers, which nothing computes, and the text of
  the Whois query.
* What a program reads behind the end of an answer: one state, `beyond`, for Nslookup, and any
  type and four bytes, `Unreceived`, for Dig.
* Datagrams that the network delivers twice to a traceroute, a connecting scanner or a DNS
  tool with one `recvfrom()`, and a `setsockopt()` of `IP_TTL` that fails.
* A short write: `send()` on an open connection takes all of a line or blocks.
* `Fingerprinting/Traceroute` is a second copy of the traceroute; the Linux and Windows
  directories hold no code of their own.
