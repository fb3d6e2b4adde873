# A verification of PrivaGram in TLA+

PrivaGram retrieves an image from servers that must not learn which one: the
client shares a selection bit per image among the servers, encrypts every share
with BFV, and each server multiplies the share of image *i* by its copy of image
*i* and returns the sum. The modules here model the program under
`src/PIR/` (about 1000 lines of C++; SEAL and Keccak are vendored), check it on
small instances with TLC and prove properties of it for every value of the
constants with TLAPS.

`PROJECT.json` lists the components, the runs, the source lines of every
definition, the hazards and the findings.

## The system

| component | state | operations | hard behaviour |
|---|---|---|---|
| client process (`client_runner`, `PIRClient`) | loop variables of `fetch_image`, one adapter per server, `decryptedTexts` | connect to the servers one by one, send `num_images` x `num_server` requests, receive one response per server, reconstruct, write the file | blocks in connect, write and read; sends everything before it reads anything; checks for missing responses that cannot fail |
| server process (`server_runner`, `PIRServer`) | the database, `response` | accept one client, load the database, read one request per row, answer once, exit | requests carry no name, only their position; accepts before it loads; aborts on any exception |
| `NetworkAdapter` | a socket and one `buffer_` for both directions | save and write, read and load | ignores every error; after a failed read it loads what the buffer held before |
| additive and Shamir sharing (`AddShare`, `ShamirShare`, `Share`) | modulus, degree, sponge | `share`, `reconstruct`, field operations | widths, signs, wrapped degree, powers in `double` |
| image codec (`utils`) | the words of a row | `read_image`, `write_image` | off-by-one word, trailing zeros |
| homomorphic layer (`SealClient`, `SealServer`, SEAL's `Evaluator`) | keys, contexts, the ciphertext object of a call | encode, encrypt, multiply, add, decrypt, and the operations of the evaluator | refusal of long or zero rows, destinations that are operands, calls that throw half-way |
| SEAL's serialization | header, compressed members | `save`, `load` at the front of a buffer | the size of the buffer, stale bytes behind the end |
| runners' options | list of server strings | options and config file to sockets | duplicate servers, ports of 16 bits |
| `pir_test.py` | its process list, one output file | servers and client of a round, wait, compare | does not wait for what it terminates, leaves late clients running, reuses file and ports |

The client calls the sharing classes, the homomorphic layer, the adapters and
the codec; a server calls the codec, the homomorphic layer and its adapter.
Processes interact only through one TCP connection per server.

What makes each part correct:

- session: requests meet the rows of their images; no process waits for ever;
  a written file is the image asked for unless a server was lost; a failure is
  reported;
- sharing: shares add up (or interpolate) to the bit, every sufficient set of
  responses yields the word, too few are refused, arithmetic stays in the field
  and in its machine types;
- codec: the output file is the image, and an image that does not fit is
  refused, never cut;
- adapter: every ciphertext fits the buffer, and stale bytes are never data;
- several users: one server process answers one connection;
- test script: what it prints is true, and what it starts ends;
- evaluator: every result is what the operation promises, valid and not readable
  without the key; a call that throws leaves nothing that looks like a result.

## The modules

| module | models | abstracts |
|---|---|---|
| `Retrieval` | what a retrieval promises: commit or refuse, then the image unless a server was lost | everything else |
| `PirSession` | one client and `NumServers` servers, their connections, buffers and deaths | ciphertexts are symbols: a query is the image it asks about, a sum the list of its terms |
| `MCPirSession` | instances of it | |
| `PirSession_proofs` | theorems about it | |
| `AddRetrieval`, `AddRetrieval_proofs` | one slot of a retrieval with additive sharing, in numbers | the network (requests arrive in order, which `PirSession` shows) |
| `ShamirRetrieval`, `MCShamirRetrieval`, `ShamirRetrieval_proofs` | one slot with Shamir sharing, any set of responses | the network |
| `RunnerConfig` | the server list of `client_runner`: duplicates, host names, ports | the other options |
| `Rendezvous` | any number of clients and servers on shared ports: bind, backlog, accept, reset, connect | what a session says (`PirSession`) |
| `TestScript`, `MCTestScript`, `TestScript_proofs` | `pir_test.py` round by round over `Rendezvous`, with guests | images are the number of their round |
| `CiphertextWire`, `MCCiphertextWire`, `CiphertextWire_proofs` | `save`, `send_ciphertext`, `receive_ciphertext`, `load` by byte ranges of `buffer_` | the bytes: a buffer is its layers |
| `Adapter` | what `PirSession` takes for granted of a connection | everything but messages |
| `Evaluator`, `MCEvaluator`, `Evaluator_proofs` | SEAL's BFV operations on one ciphertext object | polynomials are residues modulo `P`, no noise |
| `ModInverse`, `MCModInverse`, `ModInverse_proofs` | `Share::mod_inverse`, one step per iteration | |
| `ImageCodec`, `MCImageCodec`, `ImageCodec_proofs` | `read_image`, the encoder's refusals, `write_image`, one step per iteration | the values of non-zero bytes |

`PirSession` says *which* requests are multiplied by which rows (a response is
`Paired(n)`), the retrieval modules say what such a response comes to, and
`ImageCodec` what becomes of the words. `PirSession` relies on the second when
`Reconstructs` treats complete and paired responses as the image, and on
`Adapter` for its buffers, which `CiphertextWire` implements. `Rendezvous` takes
the outcome of a session from `PirSession`: without crashes the image, with a
lost server a wrong file or an exception.

### PirSession and the code

Every process is single-threaded, so its state is a place (`cpc`, `spc[s]`) and
its loop variables; one action is the code between two blocking calls. The
client's places are those of its constructor (`connect`) and of `fetch_image`
(`fetch`, `send`, `recv`, `rebuild`); a server's are `boot`, `listening`,
`loading` (accepted, in `read_database`), `receive` and `reply` in `respond`.
`failed` is an uncaught exception, `crashed` a killed process.

- `buffer_` is `cbuf[s]` on the client and `sbuf[s]` on the server. `Received`
  is `receive_ciphertext` with its ignored `error_code`: the next message if one
  comes, else what the buffer held. A client's buffer then holds its last
  query, a server's its last request.
- `toServer[s]` and `toClient[s]` are the messages in flight;
  `Torn` is a message whose writer died in the middle. `ReqCap` and `ReplyFits`
  say how much the kernel holds for a process that is not reading, so that
  blocking writes are modelled; with `ReqCap = 0` a write waits for its reader.
- A process that stops with unread data, or a write to a stopped one, resets the
  connection: `AfterReset` lets the reply survive, vanish or be cut.
- `load` (`LoadThrows`, `LoadReturns`) rejects a buffer never written and a
  response to which nothing was added, accepts a query, and may do either with
  torn data.
- `WriteImage` ends in `Wrong` whenever the responses are not the complete sums
  of the same rows; all-zero output runs into `bytes.back()` of an empty vector,
  hence the disjunct that ends in `failed`.

### Rendezvous, RunnerConfig and TestScript

A server process is `booting` until its acceptor is bound, `listening` until
`accept` returns, then `serving`; a second acceptor on a port somebody still
listens on throws, `SO_REUSEADDR` notwithstanding. The kernel completes a
connection as soon as it is in the backlog, so `Connect` succeeds with servers
that never accept; with the acceptor the rest of the backlog is reset
(`Accept`). `Respond` needs the requests of every row, and `fetch_image` writes
to all servers in turn, hence it waits while one of them has not accepted.
`RunnerConfig` turns the server strings into ports modulo `PortSpace`: only
lines of the config file are compared with what came before, so the command
line may name one server twice, and two numbers may be one port.

`TestScript` is `test_pir`: `PopenServer`, `PopenClient`, `communicate` with its
two ends (`ClientReturns`, `TimeoutExpired`), `Compare`, and the handler of a
failed `Popen` (`PopenRaises`), which stops in the middle when fewer processes
were started than it terminates. `doomed` are the servers sent SIGTERM; they die
some time later (`Kill`). Guests are other users' clients with any server list.
The one output file is written by every client of the script when it ends, the
late ones too.

### CiphertextWire and Adapter

A buffer is a list of layers `[msg, end]`: the bytes of `msg` up to `end` that no
earlier layer covers. `Save` and a read put the first `n` bytes of what is new
(`Front`) over what was there (`Overwrite`), of which only what reaches further
stays visible. `load` reads the header of the first layer's message and gives that
message when the layer holds as many bytes as the header announces (`Intact`).

A message whose sender dies may be cut (`Cut`). What came of it usually leaves a
mixture, which `load` refuses or takes for damaged data; but `Reads` has two more
outcomes. The first eight bytes of a `SEALHeader` (magic number, its own size,
version, compression, reserved) are the same in every message, and two messages
of the same size share the whole header: if no more than that has come, the buffer
is what it was, and `load` gives the older message once more, as it does when
nothing has come at all. And the few bytes that are missing, or that came behind the
header, may by chance agree with what was there (`Chance`). `Adapter` says so
much of a message of which only some has come (`part = "some"`): it may be
whole, torn, or leave the message before it. For `PirSession` a torn message is
`Torn`, and one that leaves the buffer as it was is one that did not arrive,
which every death and reset in that module allows too.

`SaveSize` adds up what `save_members` writes and bounds it as
zstd does; `BufferSize` is the table of `get_ciphertext_size`, which turns out to
be exactly that bound for 4096, 8192 and 16384, and generous for 2048. (For a
degree of 32768 the table's default would be too small; `params.h` fixes 16384.)

### Evaluator

The state is the object a program passes (`ct`), how the last call ended and the
value it promised. The operations are functions of their operands and the
destination that return the object as they leave it, also when they throw; the
actions are the calls, with the object as first operand, second operand or both.
`SubFrom` is `sub` with the second operand as destination. The loops are functions
on the numbers of their rounds: `Sums` of `add_many`, `Products` of
`multiply_many` (the pairs, then the products of neighbours that the loop appends
to its vector), `Switchings` of `relinearize`, the images of `Rotate`. Key switching keeps
keys per power of the secret; `ApplyGalois` is modelled for constants, on which
an automorphism is the identity. A transparent result throws after the object has
been written, as it does in the code (`Done`).

### The hazards left aside

Processes that hang without dying, the noise budget and unwritable output files
are listed in `PROJECT.json` with the reason no property covers them.

## Runs

| run | instance | properties |
|---|---|---|
| `session_crashes` | 2 servers, 3 images, every process may be killed; one request fits in the kernel | `TypeOK`, `SessionInv`, `RowsMatchRequests`, `AnswerSound`, `NoWaitCycle`, `ImplementsRetrieval`, `ClientEnds`, `ServersEnd` |
| `session_mismatch` | 4 servers: the first has one image more than the client's `-n`, the second one less, the others as many; the fourth cannot use its last row; no kernel buffering; servers may be killed | `RowsMatchRequests`, `NoWaitCycle` |
| `session_silent_wrong` | servers may be killed; violated | `NoSilentWrong` |
| `add_retrieval` | 3 servers, 2 images, 5 field elements, everything exhaustive | `RetrievalInv`, `SharesAddUp`, `Retrieved` |
| `shamir_retrieval` | 3 servers, 2 images, 5 field elements, `-t` 0 to 3, every subset of responses | `ResponsesOnPolynomial`, `Retrieved`, `DegreeHides` |
| `shamir_precision` | 5 servers and a mantissa of 5 bits; violated | `SharesOnPolynomial` |
| `shamir_threshold` | 3 servers, `-t` 0 to 3; violated | `ThresholdHides` |
| `mod_inverse` | moduli 2 to 24, arguments 0 to 48, `MaxInt` = 8 x 24 | `Bezout`, `Balance`, `NoOverflow`, `Inverse`, `ThrowsRightly`, `Ends` |
| `image_codec` | files of 0 to 7 bytes over {0, 1, 255}, 3 slots of 2 bytes | `TypeOK`, `ReadInv`, `Capacity`, `RoundTrip`, `NeverEmptied`, `Ends` |
| `test_script` | 2 rounds of 1 server, a guest, 4 ports, file and command-line lists with two strings for one port | `MeetInv`, `AnswersDistinct`, `PassedMeansRetrieved`, `FailedMeansRefused`, `NothingLeftRunning` |
| `ciphertext_wire` | all four parameter sets, 2 ciphertexts each way, compression that saves nothing or 9000 bytes, messages cut after 8, 9, 20 or 2105448 bytes, up to 8 bytes alike by chance | `Fits`, `StaleBytesUnread`, `ImplementsAdapter` |
| `seal_evaluator` | residues modulo 5, 4 polynomials at most, 2 levels to switch down, exponents to 5, 7 operands, 12 lists | `ValidResults`, `Homomorphic`, `NoSilentDamage` |

Why the bounds are enough: three images give a first, a middle and a last
request per connection and room for a queue behind the one the server works on;
two servers are the least with an order among connections, three add a server
that is neither first nor last. A file of seven bytes is longer than the six
that fill three slots, six is the boundary, and every pattern of trailing zeros
over odd and even lengths occurs. The field of five elements has more elements
than servers, as the real one, and is small enough for every polynomial.
Two rounds are the least in which a late client, an old file or a stale server
meets another round, and the guest can take either round's server or both
strings of its own. Two ciphertexts each way overwrite a buffer with a shorter
and with a longer one. Eight bytes are all that every header shares, the ninth is the
first of the size, 20 is behind the header, and 2105448 is one byte short of the
longest message, so that with `Chance` every outcome of `Reads` occurs. The evaluator's operands are one of each kind the checks tell apart (fresh,
lower level, NTT form, three polynomials, transparent, of the key level), its
lists are of length 1 to 7, even and odd, with the misfit in every position;
`SizeMax` is 4 instead of 16, which moves the boundary and not the rule.
`session_mismatch` does not check deadlock: with other counts the processes
really can wait for each other, and `NoWaitCycle` says which. Both cycles are
reached: the first server waits to read a request the client, waiting to read
its answer, will not send; the second waits to write its answer to the client,
which waits to write its next request. The third server has as many images as the
client and must be in neither, and the fourth stops at its last row.

`NoWaitCycle` and `RowsMatchRequests` hold for any counts and any
crash; `AnswerSound`, `ClientEnds`, `ServersEnd` and `ImplementsRetrieval` are
conditional on, or instantiated with, equal counts (`EqualCounts`), which the README's `-n` of
client and servers is supposed to ensure.

### Fairness

`FairSpec` has weak fairness for each process separately: every process is one
thread of an operating system that keeps scheduling it, and a step that waits
for the network is enabled continuously once its data, its room or the end of
the connection is there, since only the process itself takes them away. Crashes
are never fair. In `TestScript` the fairness is the same, one condition for the
script, each server and each client; a signal sent to a server is a step of that
server, which an operating system delivers. Guests are not obliged to come. The
machines of `ModInverse` and `ImageCodec` are single loops
with weak fairness of their steps.

## Findings

1. `session_silent_wrong`: `receive_ciphertext` (`NetworkAdapter.cpp:38`) ignores
   the error of its read, so the reply of a dead server is replaced by the
   client's own last query; the checks at `PIR_Client.cpp:82-90` (82-85 for Shamir
   sharing, which the run uses) count entries that are always there. The same
   happens to a reply of which only the first bytes of the header have come. The client writes a wrong image and exits with 0.
   `AnswerSound` states what does hold: with no server lost the file is right.
2. `shamir_precision`: `evaluate_polynomial` (`ShamirShare.cpp:17`) takes powers
   from `std::pow`. They are exact only up to 53 bits (except for powers of two
   and the like); from 15 servers with `-t 0` on, 15^14 is not, the shares leave
   the polynomial and reconstruction returns another word. The run shows the
   same with 5 bits and 5 servers. (`ShamirShare.h:28-29` also calls the index of a
   share a random value; `share` uses 1 to `num_servers`, which are distinct and
   not 0, as the model has it.)
3. `shamir_threshold`: the degree is `num_server - t - 1`, while the README and
   the option's help give `-t` as the number of colluding servers protected
   against. `DegreeHides` says what the sharing does hide: as many servers as the
   degree.

## Proofs

All theorems are proved for every value of the constants that satisfies the
named assumptions of the modules (positive numbers of servers, natural numbers
of images, moduli of at most 60 bits, and so on).
`RetrievalSafety` has equal counts as its hypothesis.

**Session** (`PirSession_proofs`). `SessionInvariant` shows that
`TypeOK /\ SessionInv` is inductive. None of the properties is inductive alone:
that a server pairs its next request rightly needs that what it has read
(`acc`) and what is in flight (`toServer`) make up exactly what the client has
sent, in order (`StreamInv`); that a file is right needs that the reply of a
finished server is under way complete or has been read complete (`ReplyInv`),
which in turn needs that such a server has consumed all requests, so that no
reset can hit its reply. `ClientInv` and `ServerInv` tie places to loop
variables. There is one lemma per action; `RowsMatch`, `NoCycle`,
`AnswerIsSound` and `TypeCorrect` follow. `RetrievalSafety` shows that, with
equal counts, initial states map to initial states of `Retrieval` and steps to
its steps or to stuttering.

**Additive retrieval** (`AddRetrieval_proofs`). Two history variables keep the
unreduced prefix sums of the shares of the current image (`psum`) and of what
the servers hold (`asum`); `RetrievalInv` says that the shares drawn and the
rest add up to the bit modulo `Mod`, that each response is the difference of two
prefix sums, and that the last prefix sum is the wanted word once its image has
been dealt with. With lemmas on congruences this is inductive and gives
`Retrieved` for every database, index, number of servers and random choice. The
lemmas `FieldAddSum` and `FieldSubDifference` show that the `uint64_t`
arithmetic never wraps.

**Modular inverse** (`ModInverse_proofs`). `Bezout` and `Balance` are the
invariant: the second, which weighs the cofactors by the remainders, is what
bounds them by the modulus and gives `NoOverflow` for all 60-bit moduli.
`ThrowsRightly` needs the converse of `Bezout`: that the argument is a
combination of the two remainders (`Spanned`), so that a last remainder above 1
divides both it and the modulus and leaves no inverse.

**Image codec** (`ImageCodec_proofs`). `CodecInv` describes the words read as
the file padded with zeros (`FileByte`), the vector of `write_image` as a prefix
of them, and what `Strip` has taken off as zeros. It gives `ReadInv`, `Capacity`,
`RoundTrip` and `NeverEmptied` for every file, word of up to eight bytes and number of slots.

**Test script** (`TestScript_proofs`). `MeetInv`, for any number of servers,
clients, rounds and guests: who is accepted, or waits, has reached that server,
a server accepts once, and only accepted connections are answered;
`DistinctAnswers` follows. `PassedRetrieved` strengthens it with what a file that
holds an image says of its client (`FileInv`), `FailedRefused` further with who
can still write it (`BlameInv`): a running client is the one the script waits for
or one it said `Timeout` of.

**Shamir sharing** (`ShamirRetrieval_proofs`). `ResponsesFit`, `RetrievesWanted` and
`HidesBit` have the hypothesis `Exact`: every power `evaluate_polynomial` takes
of a server's number fits the mantissa, as with 53 bits it does for up to 14
servers; finding 2 is what may happen beyond (a longer power that happens to be
exact, as of 16, does no harm; `Exact` is sufficient, not necessary). The
invariant `ShamirInv` joins to the types how far the loops are (`Progress`), that
the shares just drawn lie on a polynomial through the current bit
(`FreshShares`), and that the responses of all servers lie on one
polynomial, the sum of the polynomials drawn so far weighed by the words of
the database (`ResponsesOnPolynomial`): `Retrieved` speaks of the end only and says
nothing of any polynomial. That `Degree + 1` values determine a
polynomial's value at 0 is proved from the laws of residues up: an inverse
exists because the smallest residue among the multiples of an element other than
0 divides the prime (`Inverses`); a polynomial is its constant plus `x` times one
of a lower degree (`Horner`); what `reconstruct` computes is linear in the
responses, gives 1 for responses that are all 1 (`CombinationOne`), and loses a
server when the responses vanish there (`CombinationLess`); `Interpolation` follows
by induction on the degree. `HidesBit` adds a multiple of a polynomial that is 1 at
0 and 0 at `Degree` servers (`Vanishing`) to one choice of coefficients to get
another that those servers cannot tell apart.

**Connection** (`CiphertextWire_proofs`). `AlwaysFits` holds the table of
`get_ciphertext_size` against the sum of what is written. `StaleNeverRead` and
`WireImplements` rest on one invariant, `WireInv`: the ends number their
ciphertexts in the order they save them; whatever heads a buffer is zeroes or a
ciphertext that was saved; and a message on its way begins with the whole of a
ciphertext of the other end, and is as long as the buffer unless that end is dead
(`WellFormed`). A message that is not cut thus always covers, up to the size in its
header, what the reader's buffer held before; of one that is cut `ReadsFacts` says
that it leaves the buffer alone or its own message, whole or not, at the front. With it
every step of `save`, `send`, `receive` and `load` is a step of `Adapter` or
changes nothing of it; since `Adapter` has no fairness this is all of
`ImplementsAdapter`.

**Evaluator** (`Evaluator_proofs`). `ResultsAreValid` and `ThrowsHideNothing`
hold for every modulus, secret, key, operand, list and number of terms;
`CallsAreHomomorphic` has the hypothesis `RelinCount <= 1`, which
`create_relin_keys` (`keygenerator.h:99,117`) ensures. The invariant is
`ValidResults`: `Homomorphic` speaks of the last call only, so what a step needs
of the past is that the object is a ciphertext. One lemma per operation says that
its result is sound, harmless when it throws, and decrypts to the operation
on the operands' values (`Outcome`); a lemma per loop carries that through its
rounds, for `multiply_many` with the product of the part of the vector that the
loop has not yet consumed as what stays the same. Beneath are sums and products of
numbers modulo `P`: that convolution multiplies what polynomials decrypt to
(`PhaseOfProduct`), that combining adds it, that a switched polynomial takes its
part along.

Both algebraic modules need induction, which the library offers only for operators
as parameters. They take it instead from the library's well-founded ordering
of finite sets: a set of numbers that is not empty has a smallest member
(`SmallestNumber`), so a property of all numbers has no first exception
(`NumberInduction`), and a recursive function exists because no interval is the
first on which it does not (`Recursion`).

With these, every safety invariant and action property that a passing run checks
is a theorem. Only model-checked is liveness (`ClientEnds`, `ServersEnd`, `Ends`,
`NothingLeftRunning`, the `<>Settled` of `ImplementsRetrieval`), which is out of
TLAPS's reach.

## Not modelled

- Keccak and the seeding of the sponge behind `get_random_field_element`: a pure
  function of a seed; the model draws any field element.
- Noise: slots are exact, so the depth a parameter set allows is not examined.
- Most of SEAL, which makes up nearly all lines of the repository: number
  theoretic and residue arithmetic, encryption parameters, memory pools,
  random generators, the CKKS scheme, transforms and levels of plaintexts, the C
  interface, examples and tests. PrivaGram calls a thin layer of it, which
  `Evaluator`, `CiphertextWire` and `ImageCodec` cover. Of that layer, empty
  ciphertexts are left out, and `SealServer::rotate`, which no code calls and
  which would use Galois keys of the server's own secret.
- More than one relinearization key: the iterator of `relinearize_internal` over
  the polynomials (`evaluator.cpp:877`) never moves, so that a second round would
  switch the same polynomial again. `Switchings` keeps that, but no caller can
  tell, because the public `create_relin_keys` makes one key.
- Options other than the servers: their errors are exceptions of the parsing
  library or of `std::stoi` before any state exists.
- `SealClient::create_params` picks constants; unit tests are straight-line code.

## What is left

1. `ShareRng`: seeding, rejection sampling and the position in the stream; that
   the shares of different images come from disjoint parts of it.
2. A composition of `PirSession` with the slots' values, so that `AnswerSound`
   speaks of words rather than of symbols.
3. Proofs: that such a composition implements `Retrieval`, from the theorems of
   its parts.
