------------------------------ MODULE Handoff -------------------------------
(***************************************************************************)
(* What a queue or a semaphore promises, with nothing of how it keeps its  *)
(* waiters: a buffer that hands out what was put into it in order, tasks   *)
(* that want something from it, and tasks that offer something to it.      *)
(*                                                                         *)
(* A waiting task takes or places as soon as the buffer allows it: that is *)
(* the fairness below, and no mechanism of wake-ups may lose it.  Which of *)
(* the waiting tasks comes next is left open, and so is barging: a task    *)
(* that arrives may be served before one that waits.                       *)
(***************************************************************************)
EXTENDS Integers, Sequences

CONSTANTS
  Tasks,      \* those who use the buffer
  Values,     \* what can be in it
  Nothing     \* no value

VARIABLES
  cap,        \* the greatest length of buf; 0 if there is none
  buf,        \* what has been put and not been taken, oldest first
  wanting,    \* the tasks that wait to take
  offering,   \* the tasks that wait to place, each with its value
  got         \* what each task has taken

vars == <<cap, buf, wanting, offering, got>>

Room(n) == cap = 0 \/ Len(buf) + n <= cap

Init ==
  /\ cap \in Nat
  /\ buf \in Seq(Values)
  /\ wanting = {} /\ offering = {}
  /\ got = [t \in Tasks |-> Nothing]

\* t has to wait.
Want(t) ==
  /\ buf = <<>> /\ t \notin wanting
  /\ wanting' = wanting \cup {t}
  /\ UNCHANGED <<cap, buf, offering, got>>

Offer(t, v) ==
  /\ ~Room(1) /\ <<t, v>> \notin offering
  /\ offering' = offering \cup {<<t, v>>}
  /\ UNCHANGED <<cap, buf, wanting, got>>

\* t takes the oldest value, whether it waited or has just arrived.
Take(t) ==
  /\ buf # <<>> /\ got[t] = Nothing
  /\ buf' = Tail(buf)
  /\ got' = [got EXCEPT ![t] = Head(buf)]
  /\ wanting' = wanting \ {t}
  /\ UNCHANGED <<cap, offering>>

\* t places the value it has been offering.
Place(t, v) ==
  /\ Room(1) /\ <<t, v>> \in offering
  /\ buf' = Append(buf, v)
  /\ offering' = offering \ {<<t, v>>}
  /\ UNCHANGED <<cap, wanting, got>>

\* Someone who did not wait places one value, or several at once.
Supply(s) ==
  /\ Room(Len(s))
  /\ buf' = buf \o s
  /\ UNCHANGED <<cap, wanting, offering, got>>

\* t gives up waiting.
Withdraw(t) ==
  /\ \/ t \in wanting
     \/ \E v \in Values : <<t, v>> \in offering
  /\ wanting' = wanting \ {t}
  /\ offering' = {o \in offering : o[1] # t}
  /\ UNCHANGED <<cap, buf, got>>

ServeWanting == \E t \in wanting : Take(t)
ServeOffering == \E o \in offering : Place(o[1], o[2])

Next ==
  \/ \E t \in Tasks : Want(t) \/ Take(t) \/ Withdraw(t)
  \/ \E t \in Tasks, v \in Values : Offer(t, v) \/ Place(t, v)
  \/ \E v \in Values : Supply(<<v>>) \/ Supply(<<v, v>>)

Spec ==
  /\ Init /\ [][Next]_vars
  /\ WF_vars(ServeWanting) /\ WF_vars(ServeOffering)
=============================================================================
