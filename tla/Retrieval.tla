----------------------------- MODULE Retrieval ------------------------------
(***************************************************************************)
(* What a retrieval promises to the user of client_runner, without         *)
(* connections, buffers or requests: the client commits to a retrieval or  *)
(* refuses it, and a committed retrieval ends with the image asked for     *)
(* unless a server was lost on the way.                                    *)
(***************************************************************************)
EXTENDS Integers

CONSTANTS Images, Wrong, Unset

VARIABLES want,    \* the index given to the client
          status,  \* how far the retrieval is
          got,     \* what was written to the output file
          lost     \* some server failed

absVars == <<want, status, got, lost>>

AbsInit ==
    /\ want \in 0..Images
    /\ status = "pending"
    /\ got = Unset
    /\ lost = FALSE

\* A server fails; nothing else changes.
Lose ==
    /\ lost' = TRUE
    /\ UNCHANGED <<want, status, got>>

Commit ==
    /\ status = "pending" /\ want < Images
    /\ status' = "committed"
    /\ UNCHANGED <<want, got, lost>>

Refuse ==
    /\ status = "pending" \/ (status = "committed" /\ lost)
    /\ status' = "refused"
    /\ UNCHANGED <<want, got, lost>>

Answer ==
    /\ status = "committed"
    /\ status' = "answered"
    /\ got' = want \/ (lost /\ got' = Wrong)
    /\ UNCHANGED <<want, lost>>

\* The user interrupts the client.
Abandon ==
    /\ status \in {"pending", "committed"}
    /\ status' = "abandoned"
    /\ UNCHANGED <<want, got, lost>>

AbsNext == Lose \/ Commit \/ Refuse \/ Answer \/ Abandon

Settled == status \in {"refused", "answered", "abandoned"}

AbsSpec == AbsInit /\ [][AbsNext]_absVars /\ <>Settled
AbsSafety == AbsInit /\ [][AbsNext]_absVars
=============================================================================
