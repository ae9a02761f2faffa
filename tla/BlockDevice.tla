------------------------------ MODULE BlockDevice ------------------------------
(***************************************************************************)
(* What the SD card driver promises its callers (FatFs, a script): a store *)
(* of numbered blocks.  A read that succeeds delivers the blocks asked     *)
(* for, in order, as they are stored; a write that succeeds has stored all *)
(* of its blocks; a write that fails may have stored some of them, and     *)
(* nothing else in the store ever changes.                                 *)
(***************************************************************************)
EXTENDS Integers, Sequences

CONSTANTS
  Blocks,    \* the blocks' numbers
  Contents,  \* what a block may hold
  Calls,     \* requests: [kind, lba, num, data]
  NoCall

VARIABLES
  store,    \* what each block holds
  call,     \* the call being served, or NoCall
  moved,    \* blocks of the call that have been stored
  buf,      \* contents that have been read
  ok        \* whether the last call succeeded

vars == <<store, call, moved, buf, ok>>

Span(k) == k.lba .. k.lba + k.num - 1

Init ==
  /\ store \in [Blocks -> Contents]
  /\ call = NoCall /\ moved = {} /\ buf = << >> /\ ok = FALSE

Start ==
  /\ call = NoCall
  /\ call' \in Calls /\ moved' = {} /\ buf' = << >>
  /\ UNCHANGED <<store, ok>>

Get ==
  /\ call # NoCall /\ call.kind = "read"
  /\ Len(buf) < call.num
  /\ buf' = Append(buf, store[call.lba + Len(buf)])
  /\ UNCHANGED <<store, call, moved, ok>>

Put ==
  /\ call # NoCall /\ call.kind = "write"
  /\ \E b \in Span(call) :
       /\ store' = [store EXCEPT ![b] = call.data]
       /\ moved' = moved \cup {b}
  /\ UNCHANGED <<call, buf, ok>>

Succeed ==
  /\ call # NoCall
  /\ IF call.kind = "read" THEN Len(buf) = call.num ELSE moved = Span(call)
  /\ call' = NoCall /\ ok' = TRUE
  /\ UNCHANGED <<store, moved, buf>>

Fail ==
  /\ call # NoCall
  /\ call' = NoCall /\ ok' = FALSE
  /\ UNCHANGED <<store, moved, buf>>

Next == Start \/ Get \/ Put \/ Succeed \/ Fail

Spec == Init /\ [][Next]_vars
=============================================================================
