---------------------------- MODULE RunnerConfig ----------------------------
(***************************************************************************)
(* How client_runner turns its --servers options and the lines of its      *)
(* config file into the sockets PIRClient connects to.  A server string is *)
(* a host and the number std::stoi finds after the colon; it stands for a  *)
(* port of uint16_t.                                                       *)
(***************************************************************************)
EXTENDS Naturals, Sequences, SequencesExt

CONSTANT PortSpace   \* 2^16: ports are uint16_t

ASSUME PortAssumption == PortSpace \in Nat \ {0}

\* What from_string makes of a host: an address, or an exception for a name.
Hosts == {"address", "name"}
ServerStrings == [host : Hosts, number : Nat]

\* A line of the config file is refused when the command line or an earlier
\* line has it already; the command line is not compared with itself.
Repeated(cli, lines) ==
    \E j \in 1..Len(lines) : lines[j] \in ToSet(cli \o SubSeq(lines, 1, j - 1))

\* main throws before it has a client.
Refused(cli, lines) ==
    \/ Repeated(cli, lines)
    \/ cli \o lines = <<>>
    \/ \E s \in ToSet(cli \o lines) : s.host = "name"

\* The number of a server string, assigned to a uint16_t.
PortOf(s) == s.number % PortSpace

\* The ports PIRClient connects to, in order.
Sockets(cli, lines) == [k \in 1..Len(cli \o lines) |-> PortOf((cli \o lines)[k])]
=============================================================================
