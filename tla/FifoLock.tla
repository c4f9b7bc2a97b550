------------------------------ MODULE FifoLock ------------------------------
(***************************************************************************)
(* What the per-engine write lock promises its callers: one owner at a     *)
(* time, and ownership handed over in the order in which it was asked for. *)
(* How the promise is kept (promises, grant closures, microtasks) is the   *)
(* business of WriteMutex, which implements this specification.            *)
(***************************************************************************)
EXTENDS Sequences

CONSTANTS Callers,   \* the async contexts that ask for the lock
          NoCaller   \* stands for "nobody"

VARIABLES owner,     \* who holds the lock
          line       \* who waits for it, first come first

vars == <<owner, line>>

InLine(c) == \E i \in DOMAIN line : line[i] = c

Init ==
  /\ owner = NoCaller
  /\ line = <<>>

\* A free lock is taken on the spot.
Take(c) ==
  /\ owner = NoCaller
  /\ line = <<>>
  /\ owner' = c
  /\ UNCHANGED line

\* A held lock is queued for. A caller asks once at a time.
Queue(c) ==
  /\ owner \notin {NoCaller, c}
  /\ ~InLine(c)
  /\ line' = Append(line, c)
  /\ UNCHANGED owner

\* The owner lets go: the head of the line, if any, owns the lock at once.
HandOver ==
  /\ owner # NoCaller
  /\ \/ /\ line = <<>>
        /\ owner' = NoCaller
        /\ UNCHANGED line
     \/ /\ line # <<>>
        /\ owner' = Head(line)
        /\ line' = Tail(line)

Next ==
  \/ \E c \in Callers : Take(c) \/ Queue(c)
  \/ HandOver

Spec == Init /\ [][Next]_vars
=============================================================================
