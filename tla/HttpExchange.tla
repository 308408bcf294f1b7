----------------------------- MODULE HttpExchange -----------------------------
(***************************************************************************)
(* What the client of a connection may rely on, without the server's       *)
(* buffers and states.  Each answer promises a number of bytes and says    *)
(* whether the connection is kept.  Bytes arrive, never more than          *)
(* promised.  The server goes on to the next answer only on a connection   *)
(* it said is kept, and only when all the promised bytes have been sent.   *)
(* It may hang up at any time.                                             *)
(***************************************************************************)
EXTENDS Naturals

VARIABLES phase,     \* "closed", "idle" between answers, or "answering"
          promise,   \* bytes of the current answer
          kept,      \* the answer says the connection is kept
          sent       \* bytes of the answer sent

vars == <<phase, promise, kept, sent>>

Quiet == promise = 0 /\ kept = FALSE /\ sent = 0

Init == phase = "closed" /\ Quiet

Connect ==
  /\ phase = "closed"
  /\ phase' = "idle"
  /\ UNCHANGED <<promise, kept, sent>>

\* The promise of the moment: a server that changes its mind before the first
\* byte leaves makes a new one.
Promise ==
  /\ phase \in {"idle", "answering"}
  /\ sent = 0
  /\ phase' = "answering"
  /\ promise' \in Nat
  /\ kept' \in BOOLEAN
  /\ UNCHANGED sent

Send ==
  /\ phase = "answering"
  /\ sent' > sent
  /\ sent' <= promise
  /\ UNCHANGED <<phase, promise, kept>>

NextAnswer ==
  /\ phase = "answering"
  /\ kept
  /\ sent = promise
  /\ phase' = "idle"
  /\ Quiet'

Hangup ==
  /\ phase # "closed"
  /\ phase' = "closed"
  /\ Quiet'

Next == Connect \/ Promise \/ Send \/ NextAnswer \/ Hangup

Spec == Init /\ [][Next]_vars
=============================================================================
