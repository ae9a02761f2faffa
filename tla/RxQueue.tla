------------------------------- MODULE RxQueue -------------------------------
(***************************************************************************)
(* What the mini-UART receive buffer promises its reader (mini-uart.c).    *)
(* It is a bounded queue that drops its oldest character when a new one    *)
(* arrives and no slot is left.  A get is not atomic: it begins, and later *)
(* it ends.  A get that no drop overlaps is exact: it returns the oldest   *)
(* character and removes just that one.  A get that a drop overlaps is     *)
(* torn: it may return another character and may lose older characters,    *)
(* but it never reorders or invents what stays in the queue.               *)
(***************************************************************************)
EXTENDS Naturals, Sequences

CONSTANTS
  Char,      \* the characters the queue may hold
  Capacity   \* how many it holds at most

VARIABLES
  q,         \* the characters waiting, oldest first
  getting,   \* a get has begun and has not ended
  torn,      \* a drop happened since the get began
  out        \* the character the last get returned, if any

qvars == <<q, getting, torn, out>>

Init ==
  /\ q = << >>
  /\ getting = FALSE
  /\ torn = FALSE
  /\ out \notin Char

\* A character arrives.  With a slot left it is queued behind the others.
PutRoom(c) ==
  /\ Len(q) < Capacity
  /\ q' = Append(q, c)
  /\ UNCHANGED <<getting, torn, out>>

\* A character arrives and there is no slot left: the oldest one makes room.
PutDrop(c) ==
  /\ Len(q) = Capacity
  /\ q' = Append(Tail(q), c)
  /\ torn' = getting
  /\ UNCHANGED <<getting, out>>

\* A get begins only when there is something to get.
GetBegin ==
  /\ ~getting
  /\ q # << >>
  /\ getting' = TRUE
  /\ torn' = FALSE
  /\ UNCHANGED <<q, out>>

\* A get nothing overlapped: the oldest character, and only that one.
GetExact ==
  /\ getting
  /\ ~torn
  /\ q # << >>
  /\ out' = Head(q)
  /\ q' = Tail(q)
  /\ getting' = FALSE
  /\ UNCHANGED torn

\* A get a drop overlapped: some character, and the n newest ones remain.
GetTorn ==
  /\ getting
  /\ torn
  /\ out' \in Char
  /\ \E n \in 0 .. Len(q) : q' = SubSeq(q, Len(q) - n + 1, Len(q))
  /\ getting' = FALSE
  /\ torn' = FALSE

Next ==
  \/ \E c \in Char : PutRoom(c) \/ PutDrop(c)
  \/ GetBegin
  \/ GetExact
  \/ GetTorn

Spec == Init /\ [][Next]_qvars
=============================================================================
