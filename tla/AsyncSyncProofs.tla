--------------------------- MODULE AsyncSyncProofs ---------------------------
(***************************************************************************)
(* Proofs about AsyncSync, for any finite set of tasks, any limit of a     *)
(* queue and any number of permits.                                        *)
(*                                                                         *)
(* That no wake-up is lost is not inductive as AsyncSync states it: a task *)
(* that was cancelled is awake with its entry still in the list, where it  *)
(* can use up the next wake-up.  The stronger statement (Enough) counts    *)
(* only the tasks that are awake and out of the list, and wants one of     *)
(* them for every item or permit as soon as anybody sleeps.  It rests on   *)
(* what the lists are (Good): whoever sleeps is in one, and a timer that   *)
(* exists is there at most once.                                           *)
(***************************************************************************)
EXTENDS AsyncSync, FiniteSetTheorems, WellFoundedInduction, TLAPS

Places == {"idle", "asleep", "woken", "holding", "done", "thrown"}

TaskRecord == [call : {"none", "take", "give"}, at : Places, cancelled : BOOLEAN]

TaskTypes == task \in [Tasks -> TaskRecord]

\* Which primitive uses which part of the state.
StateTypes ==
  /\ kind \in Kinds /\ maxSize \in Nat /\ permits \in Nat
  /\ items \in Seq(Tasks)
  /\ kind # "queue" => items = <<>> /\ maxSize = 0
  /\ kind \notin {"semaphore", "lock"} => permits = 0
  /\ maxSize # 0 => Len(items) <= maxSize

\* The timer of x exists, when f says where the tasks are.
Live(f, x) == f[x].at \in {"asleep", "woken"}

\* What holds of the list q of those who wait in a call c.
Good(f, q, c) ==
  /\ q \in Seq(Tasks)
  /\ \A x \in Tasks : f[x].call = c /\ f[x].at = "asleep" => \E i \in DOMAIN q : q[i] = x
  /\ \A i \in DOMAIN q : Live(f, q[i]) => f[q[i]].call = c
  /\ \A i, j \in DOMAIN q : q[i] = q[j] /\ Live(f, q[i]) => i = j
  /\ \A i \in DOMAIN q : f[q[i]].at = "woken" => f[q[i]].cancelled
  /\ \A i \in DOMAIN q : f[q[i]].at # "idle"

Sleepers(f, c) == {x \in Tasks : f[x].call = c /\ f[x].at = "asleep"}

\* Those awake whose wake-up is used up: no entry of theirs is left.
Ahead(f, q, c) ==
  {x \in Tasks : f[x].call = c /\ f[x].at = "woken" /\ \A i \in DOMAIN q : q[i] # x}

\* If anybody sleeps, n tasks are on their way to what there is.
Enough(n, f, q, c) == Sleepers(f, c) # {} => n <= Cardinality(Ahead(f, q, c))

TakersServed == Enough(Supply, task, takers, "take")

GiversServed == maxSize # 0 => Enough(maxSize - Len(items), task, givers, "give")

Lists == Good(task, takers, "take") /\ Good(task, givers, "give")

Holders == {t \in Tasks : task[t].at = "holding"}

Inv == TaskTypes /\ StateTypes /\ Lists /\ TakersServed /\ GiversServed /\ LockIsExclusive

------------------------------------------------------------------------------
(* cancel_one_waiter.                                                      *)

\* A set of numbers that is not empty has a least one.
LEMMA LeastNumber ==
  ASSUME NEW S, S \subseteq Nat, S # {}
  PROVE  \E n \in S : \A m \in S : n <= m
<1>1. IsWellFoundedOn(OpToRel(<, Nat), Nat) BY NatLessThanWellFounded
<1>2. \E n \in S : \A m \in S : ~(<<m, n>> \in OpToRel(<, Nat)) BY <1>1, WFMin
<1>3. OpToRel(<, Nat) = {p \in Nat \X Nat : p[1] < p[2]} BY Zenon DEF OpToRel
<1>4. PICK n \in S : \A m \in S : ~(<<m, n>> \in {p \in Nat \X Nat : p[1] < p[2]})
  BY <1>2, <1>3
<1>5. ASSUME NEW m \in S PROVE n <= m
  <2>1. m \in Nat /\ n \in Nat OBVIOUS
  <2>2. ~(m < n) BY <1>4, <1>5, <2>1
  <2>. QED BY <2>1, <2>2
<1>. QED BY <1>5

\* FirstAlive finds an entry whose timer exists, with none before it, if there
\* is one at all.
LEMMA FirstAliveIsFirst ==
  ASSUME NEW q \in Seq(Tasks)
  PROVE  \/ FirstAlive(q) = 0 /\ \A i \in DOMAIN q : ~Alive(q[i])
         \/ /\ FirstAlive(q) \in 1..Len(q)
            /\ Alive(q[FirstAlive(q)])
            /\ \A j \in 1..(FirstAlive(q) - 1) : ~Alive(q[j])
<1>0. DOMAIN q = 1..Len(q) /\ Len(q) \in Nat OBVIOUS
<1>1. CASE ~\E i \in DOMAIN q : Alive(q[i]) BY <1>1 DEF FirstAlive
<1>2. CASE \E i \in DOMAIN q : Alive(q[i])
  <2>. DEFINE S == {i \in DOMAIN q : Alive(q[i])}
  <2>1. S \subseteq Nat /\ S # {} BY <1>0, <1>2
  <2>2. PICK n \in S : \A m \in S : n <= m BY <2>1, LeastNumber
  <2>3. n \in DOMAIN q /\ Alive(q[n]) /\ \A j \in 1..(n - 1) : ~Alive(q[j])
    <3>1. ASSUME NEW j \in 1..(n - 1), Alive(q[j]) PROVE FALSE
      <4>1. j \in S BY <1>0, <2>2, <3>1
      <4>. QED BY <1>0, <2>2, <4>1
    <3>. QED BY <2>2, <3>1
  <2>4. FirstAlive(q) = CHOOSE i \in DOMAIN q : Alive(q[i]) /\ \A j \in 1..(i - 1) : ~Alive(q[j])
    BY <1>2 DEF FirstAlive
  <2>5. /\ FirstAlive(q) \in DOMAIN q
        /\ Alive(q[FirstAlive(q)]) /\ \A j \in 1..(FirstAlive(q) - 1) : ~Alive(q[j])
    BY <2>3, <2>4, Zenon
  <2>. QED BY <1>0, <2>5
<1>. QED BY <1>1, <1>2

\* The same timers exist under f as now.
Agrees(f) == \A x \in Tasks : Live(f, x) <=> Alive(x)

LEMMA NowAgrees == Agrees(task)
BY DEF Agrees, Live, Alive

\* cancel_one_waiter with nobody there: nobody in the list can be asleep, and
\* the list is empty afterwards.
LEMMA NobodyToWake ==
  ASSUME NEW f, Agrees(f), NEW q, NEW c, Good(f, q, c), One(q) = {}
  PROVE  AfterOne(q) = <<>> /\ \A i \in DOMAIN q : ~Live(f, q[i])
<1>1. q \in Seq(Tasks) BY DEF Good
<1>2. FirstAlive(q) = 0 BY DEF One
<1>3. \A i \in DOMAIN q : q[i] \in Tasks /\ ~Alive(q[i]) BY <1>1, <1>2, FirstAliveIsFirst
<1>. QED BY <1>2, <1>3 DEF AfterOne, Agrees

\* cancel_one_waiter with somebody there: the entry of the woken task goes, and
\* of the other tasks whose timer exists none does.
LEMMA SomebodyToWake ==
  ASSUME NEW f, Agrees(f), NEW q, NEW c, Good(f, q, c), One(q) # {}
  PROVE  \E u \in Tasks :
           /\ One(q) = {u} /\ Live(f, u) /\ f[u].call = c
           /\ \E i \in DOMAIN q : q[i] = u
           /\ AfterOne(q) \in Seq(Tasks)
           /\ \A i \in DOMAIN AfterOne(q) : \E j \in DOMAIN q : AfterOne(q)[i] = q[j]
           /\ \A i \in DOMAIN AfterOne(q) : AfterOne(q)[i] # u
           /\ \A i \in DOMAIN q : Live(f, q[i]) /\ q[i] # u
                 => \E j \in DOMAIN AfterOne(q) : AfterOne(q)[j] = q[i]
           /\ \A i, j \in DOMAIN AfterOne(q) :
                 AfterOne(q)[i] = AfterOne(q)[j] /\ Live(f, AfterOne(q)[i]) => i = j
<1>. DEFINE k == FirstAlive(q)
            r == AfterOne(q)
<1>1. q \in Seq(Tasks) /\ DOMAIN q = 1..Len(q) /\ Len(q) \in Nat BY DEF Good
<1>2. k # 0 BY DEF One
<1>3. k \in 1..Len(q) /\ Alive(q[k]) /\ \A j \in 1..(k - 1) : ~Alive(q[j])
  BY <1>1, <1>2, FirstAliveIsFirst
<1>4. r = SubSeq(q, k + 1, Len(q)) /\ One(q) = {q[k]} BY <1>2 DEF AfterOne, One
<1>. HIDE DEF k
<1>5. /\ r \in Seq(Tasks) /\ DOMAIN r = 1..(Len(q) - k)
      /\ \A i \in 1..(Len(q) - k) : r[i] = q[i + k]
  BY <1>1, <1>3, <1>4
<1>. HIDE DEF r
<1>6. q[k] \in Tasks BY <1>1, <1>3
<1>7. Live(f, q[k]) /\ f[q[k]].call = c
  BY <1>1, <1>3, <1>6 DEF Agrees, Good
<1>8. \A i \in DOMAIN r : \E j \in DOMAIN q : r[i] = q[j]
  <2>. SUFFICES ASSUME NEW i \in DOMAIN r PROVE \E j \in DOMAIN q : r[i] = q[j] OBVIOUS
  <2>1. i + k \in DOMAIN q BY <1>1, <1>3, <1>5
  <2>. QED BY <1>5, <2>1
<1>9. \A i \in DOMAIN r : r[i] # q[k]
  <2>. SUFFICES ASSUME NEW i \in DOMAIN r, r[i] = q[k] PROVE FALSE OBVIOUS
  <2>1. i + k \in DOMAIN q /\ i + k # k /\ q[i + k] = q[k] BY <1>1, <1>3, <1>5
  <2>. QED BY <1>1, <1>3, <1>7, <2>1 DEF Good
<1>10. \A i \in DOMAIN q : Live(f, q[i]) /\ q[i] # q[k] => \E j \in DOMAIN r : r[j] = q[i]
  <2>. SUFFICES ASSUME NEW i \in DOMAIN q, Live(f, q[i]), q[i] # q[k]
                PROVE  \E j \in DOMAIN r : r[j] = q[i]
    OBVIOUS
  <2>1. Alive(q[i]) BY <1>1 DEF Agrees
  <2>2. i > k BY <1>1, <1>3, <2>1
  <2>3. i - k \in DOMAIN r /\ r[i - k] = q[i] BY <1>1, <1>3, <1>5, <2>2
  <2>. QED BY <2>3
<1>11. \A i, j \in DOMAIN r : r[i] = r[j] /\ Live(f, r[i]) => i = j
  <2>. SUFFICES ASSUME NEW i \in DOMAIN r, NEW j \in DOMAIN r, r[i] = r[j], Live(f, r[i])
                PROVE  i = j
    OBVIOUS
  <2>1. i + k \in DOMAIN q /\ j + k \in DOMAIN q /\ r[i] = q[i + k] /\ r[j] = q[j + k]
    BY <1>1, <1>3, <1>5
  <2>2. i + k = j + k BY <2>1 DEF Good
  <2>. QED BY <1>1, <1>3, <1>5, <2>2
<1>. QED BY <1>1, <1>3, <1>4, <1>5, <1>6, <1>7, <1>8, <1>9, <1>10, <1>11 DEF r

------------------------------------------------------------------------------
(* What a step does to a list, and to those on their way.                  *)

\* A list that is left alone stays good, if no task of its call falls asleep.
LEMMA ListKept ==
  ASSUME NEW f, NEW g, NEW q, NEW c, Good(f, q, c),
         \A x \in Tasks : Live(g, x) =>
            \/ /\ Live(f, x) /\ g[x].call = f[x].call
               /\ g[x].at = "asleep" => f[x].at = "asleep"
               /\ g[x].at = "woken" /\ (\E i \in DOMAIN q : q[i] = x) => g[x].cancelled
            \/ g[x].call # c /\ \A i \in DOMAIN q : q[i] # x,
         \A x \in Tasks : g[x].at = "idle" => f[x].at = "idle"
  PROVE  Good(g, q, c) /\ Sleepers(g, c) \subseteq Sleepers(f, c)
<1>1. q \in Seq(Tasks) /\ \A i \in DOMAIN q : q[i] \in Tasks BY DEF Good
<1>2. \A x \in Tasks : g[x].call = c /\ g[x].at = "asleep" => f[x].call = c /\ f[x].at = "asleep"
  BY DEF Live
<1>3. \A x \in Tasks : g[x].call = c /\ g[x].at = "asleep" => \E i \in DOMAIN q : q[i] = x
  BY <1>2 DEF Good
<1>4. \A i \in DOMAIN q : Live(g, q[i]) => Live(f, q[i]) /\ g[q[i]].call = f[q[i]].call
  BY <1>1
<1>5. \A i \in DOMAIN q : g[q[i]].at = "woken" => g[q[i]].cancelled
  BY <1>1 DEF Live
<1>6. \A i \in DOMAIN q : g[q[i]].at # "idle" BY <1>1 DEF Good
<1>7. \A i \in DOMAIN q : Live(g, q[i]) => g[q[i]].call = c BY <1>4 DEF Good
<1>8. \A i, j \in DOMAIN q : q[i] = q[j] /\ Live(g, q[i]) => i = j BY <1>4 DEF Good
<1>9. Good(g, q, c) BY <1>1, <1>3, <1>5, <1>6, <1>7, <1>8 DEF Good
<1>. QED BY <1>2, <1>9 DEF Sleepers

\* t joins the list and falls asleep, or throws.
LEMMA ListPushed ==
  ASSUME NEW f, NEW g, NEW q, NEW c, Good(f, q, c), NEW t \in Tasks,
         \A x \in Tasks \ {t} : g[x] = f[x],
         \/ g[t].at = "thrown"
         \/ g[t].at = "asleep" /\ g[t].call = c /\ \A i \in DOMAIN q : q[i] # t
  PROVE  Good(g, Append(q, t), c)
<1>. DEFINE r == Append(q, t)
<1>1. q \in Seq(Tasks) /\ DOMAIN q = 1..Len(q) /\ Len(q) \in Nat BY DEF Good
<1>2. r \in Seq(Tasks) /\ DOMAIN r = 1..(Len(q) + 1) /\ r[Len(q) + 1] = t
      /\ \A i \in DOMAIN q : r[i] = q[i] /\ q[i] \in Tasks
  BY <1>1
<1>3. \A i \in DOMAIN r : i = Len(q) + 1 \/ i \in DOMAIN q BY <1>1, <1>2
<1>4. DOMAIN q \subseteq DOMAIN r /\ Len(q) + 1 \in DOMAIN r BY <1>1, <1>2
<1>. HIDE DEF r
<1>5. \A x \in Tasks : g[x].call = c /\ g[x].at = "asleep" => \E i \in DOMAIN r : r[i] = x
  <2>. SUFFICES ASSUME NEW x \in Tasks, g[x].call = c, g[x].at = "asleep"
                PROVE  \E i \in DOMAIN r : r[i] = x
    OBVIOUS
  <2>1. CASE x = t BY <1>2, <1>4, <2>1
  <2>2. CASE x # t
    <3>1. \E i \in DOMAIN q : q[i] = x BY <2>2 DEF Good
    <3>. QED BY <1>2, <1>4, <3>1
  <2>. QED BY <2>1, <2>2
<1>6. \A i \in DOMAIN r : Live(g, r[i]) => g[r[i]].call = c
  BY <1>2, <1>3 DEF Good, Live
<1>7. \A i, j \in DOMAIN r : r[i] = r[j] /\ Live(g, r[i]) => i = j
  BY <1>2, <1>3 DEF Good, Live
<1>8. \A i \in DOMAIN r : g[r[i]].at = "woken" => g[r[i]].cancelled
  BY <1>2, <1>3 DEF Good
<1>9. \A i \in DOMAIN r : g[r[i]].at # "idle" BY <1>2, <1>3 DEF Good
<1>. QED BY <1>2, <1>5, <1>6, <1>7, <1>8, <1>9 DEF Good, r

\* cancel_one_waiter, while nobody of this call leaves: the list stays good,
\* and if anybody sleeps on, one more task is on its way.
LEMMA ListPopped ==
  ASSUME NEW f, NEW g, Agrees(f), NEW q, NEW c, Good(f, q, c),
         \A u \in One(q) : g[u].at = "woken" /\ g[u].call = f[u].call,
         \A x \in Tasks \ One(q) : Live(g, x) => g[x] = f[x],
         \A x \in Tasks : f[x].call = c /\ f[x].at = "woken" => g[x].call = c /\ g[x].at = "woken",
         \A x \in Tasks : g[x].at = "idle" => f[x].at = "idle"
  PROVE  /\ Good(g, AfterOne(q), c)
         /\ Sleepers(g, c) \subseteq Sleepers(f, c)
         /\ \/ Sleepers(g, c) = {}
            \/ \E u \in Tasks : /\ u \notin Ahead(f, q, c)
                                /\ Ahead(f, q, c) \cup {u} \subseteq Ahead(g, AfterOne(q), c)
<1>0. q \in Seq(Tasks) /\ \A i \in DOMAIN q : q[i] \in Tasks BY DEF Good
<1>1. CASE One(q) = {}
  <2>1. AfterOne(q) = <<>> /\ \A i \in DOMAIN q : ~Live(f, q[i]) BY <1>1, NobodyToWake
  <2>2. \A x \in Tasks : ~(f[x].call = c /\ f[x].at = "asleep") BY <2>1 DEF Good, Live
  <2>3. \A x \in Tasks : ~(g[x].call = c /\ g[x].at = "asleep")
    <3>. SUFFICES ASSUME NEW x \in Tasks, g[x].call = c, g[x].at = "asleep" PROVE FALSE OBVIOUS
    <3>1. g[x] = f[x] BY <1>1 DEF Live
    <3>. QED BY <2>2, <3>1
  <2>4. <<>> \in Seq(Tasks) /\ DOMAIN <<>> = {} OBVIOUS
  <2>. QED BY <2>1, <2>3, <2>4 DEF Good, Sleepers
<1>2. CASE One(q) # {}
  <2>. DEFINE r == AfterOne(q)
  <2>1. PICK u \in Tasks :
           /\ One(q) = {u} /\ Live(f, u) /\ f[u].call = c
           /\ \E i \in DOMAIN q : q[i] = u
           /\ r \in Seq(Tasks)
           /\ \A i \in DOMAIN r : \E j \in DOMAIN q : r[i] = q[j]
           /\ \A i \in DOMAIN r : r[i] # u
           /\ \A i \in DOMAIN q : Live(f, q[i]) /\ q[i] # u => \E j \in DOMAIN r : r[j] = q[i]
           /\ \A i, j \in DOMAIN r : r[i] = r[j] /\ Live(f, r[i]) => i = j
    BY <1>2, SomebodyToWake
  <2>. HIDE DEF r
  <2>2. g[u].at = "woken" /\ g[u].call = c BY <2>1
  <2>3. \A x \in Tasks : x # u /\ Live(g, x) => g[x] = f[x] BY <2>1
  <2>4. \A i \in DOMAIN r : r[i] \in Tasks /\ r[i] # u BY <2>1
  <2>5. \A x \in Tasks : g[x].call = c /\ g[x].at = "asleep" => \E i \in DOMAIN r : r[i] = x
    <3>. SUFFICES ASSUME NEW x \in Tasks, g[x].call = c, g[x].at = "asleep"
                  PROVE  \E i \in DOMAIN r : r[i] = x
      OBVIOUS
    <3>1. x # u /\ f[x].call = c /\ f[x].at = "asleep" BY <2>2, <2>3 DEF Live
    <3>2. PICK i \in DOMAIN q : q[i] = x BY <3>1 DEF Good
    <3>. QED BY <2>1, <3>1, <3>2 DEF Live
  <2>6. \A i \in DOMAIN r : Live(g, r[i]) => Live(f, r[i]) /\ g[r[i]] = f[r[i]]
    <3>. SUFFICES ASSUME NEW i \in DOMAIN r, Live(g, r[i]) PROVE Live(f, r[i]) /\ g[r[i]] = f[r[i]]
      OBVIOUS
    <3>1. g[r[i]] = f[r[i]] BY <2>3, <2>4
    <3>. QED BY <3>1 DEF Live
  <2>7. \A i \in DOMAIN r : Live(g, r[i]) => g[r[i]].call = c
    <3>. SUFFICES ASSUME NEW i \in DOMAIN r, Live(g, r[i]) PROVE g[r[i]].call = c OBVIOUS
    <3>1. Live(f, r[i]) /\ g[r[i]] = f[r[i]] BY <2>6
    <3>2. PICK j \in DOMAIN q : r[i] = q[j] BY <2>1
    <3>. QED BY <3>1, <3>2 DEF Good
  <2>8. \A i, j \in DOMAIN r : r[i] = r[j] /\ Live(g, r[i]) => i = j BY <2>1, <2>6
  <2>9. \A i \in DOMAIN r : g[r[i]].at = "woken" => g[r[i]].cancelled
    <3>. SUFFICES ASSUME NEW i \in DOMAIN r, g[r[i]].at = "woken" PROVE g[r[i]].cancelled OBVIOUS
    <3>1. g[r[i]] = f[r[i]] BY <2>6 DEF Live
    <3>2. PICK j \in DOMAIN q : r[i] = q[j] BY <2>1
    <3>. QED BY <3>1, <3>2 DEF Good
  <2>10. \A i \in DOMAIN r : g[r[i]].at # "idle"
    <3>. SUFFICES ASSUME NEW i \in DOMAIN r PROVE g[r[i]].at # "idle" OBVIOUS
    <3>1. PICK j \in DOMAIN q : r[i] = q[j] BY <2>1
    <3>. QED BY <2>4, <3>1 DEF Good
  <2>11. Good(g, r, c) BY <2>1, <2>5, <2>7, <2>8, <2>9, <2>10 DEF Good
  <2>12. Sleepers(g, c) \subseteq Sleepers(f, c)
    <3>. SUFFICES ASSUME NEW x \in Tasks, g[x].call = c, g[x].at = "asleep"
                  PROVE  f[x].call = c /\ f[x].at = "asleep"
      BY DEF Sleepers
    <3>. QED BY <2>2, <2>3 DEF Live
  <2>13. u \notin Ahead(f, q, c) BY <2>1 DEF Ahead
  <2>14. Ahead(f, q, c) \cup {u} \subseteq Ahead(g, r, c)
    <3>1. ASSUME NEW x \in Ahead(f, q, c) PROVE x \in Ahead(g, r, c)
      <4>1. x \in Tasks /\ g[x].call = c /\ g[x].at = "woken" BY <3>1 DEF Ahead
      <4>2. \A i \in DOMAIN r : r[i] # x BY <2>1, <3>1 DEF Ahead
      <4>. QED BY <4>1, <4>2 DEF Ahead
    <3>2. u \in Ahead(g, r, c) BY <2>2, <2>4 DEF Ahead
    <3>. QED BY <3>1, <3>2
  <2>. QED BY <2>11, <2>12, <2>13, <2>14 DEF r
<1>. QED BY <1>1, <1>2

\* Those on their way are a finite set, so that they can be counted.
LEMMA AheadFinite ==
  ASSUME NEW f, NEW q, NEW c
  PROVE  IsFiniteSet(Ahead(f, q, c)) /\ Cardinality(Ahead(f, q, c)) \in Nat
<1>1. Ahead(f, q, c) \subseteq Tasks BY DEF Ahead
<1>. QED BY <1>1, SyncAssumption, FS_Subset, FS_CardinalityType

LEMMA EnoughSame ==
  ASSUME NEW n \in Int, NEW f, NEW g, NEW q, NEW r, NEW c, Enough(n, f, q, c),
         Sleepers(g, c) \subseteq Sleepers(f, c), Ahead(f, q, c) \subseteq Ahead(g, r, c)
  PROVE  Enough(n, g, r, c)
<1>1. Cardinality(Ahead(f, q, c)) <= Cardinality(Ahead(g, r, c))
  BY AheadFinite, FS_Subset
<1>. QED BY <1>1, AheadFinite DEF Enough

\* t has taken its share.
LEMMA EnoughLess ==
  ASSUME NEW n \in Int, NEW m, m = n - 1, NEW f, NEW g, NEW q, NEW c, NEW t, Enough(n, f, q, c),
         Sleepers(g, c) \subseteq Sleepers(f, c), Ahead(f, q, c) \ {t} \subseteq Ahead(g, q, c)
  PROVE  Enough(m, g, q, c)
<1>1. Cardinality(Ahead(f, q, c)) - 1 <= Cardinality(Ahead(f, q, c) \ {t})
  BY AheadFinite, FS_RemoveElement
<1>2. /\ IsFiniteSet(Ahead(f, q, c) \ {t}) /\ Cardinality(Ahead(f, q, c) \ {t}) \in Nat
      /\ Cardinality(Ahead(f, q, c) \ {t}) <= Cardinality(Ahead(g, q, c))
  BY AheadFinite, FS_Subset, FS_CardinalityType
<1>. QED BY <1>1, <1>2, AheadFinite DEF Enough

\* One more was woken for one more item.
LEMMA EnoughMore ==
  ASSUME NEW n \in Int, NEW m, m = n + 1, NEW f, NEW g, NEW q, NEW r, NEW c, Enough(n, f, q, c),
         Sleepers(g, c) \subseteq Sleepers(f, c),
         \/ Sleepers(g, c) = {}
         \/ \E u \in Tasks : u \notin Ahead(f, q, c) /\ Ahead(f, q, c) \cup {u} \subseteq Ahead(g, r, c)
  PROVE  Enough(m, g, r, c)
<1>1. CASE Sleepers(g, c) = {} BY <1>1 DEF Enough
<1>2. ASSUME NEW u \in Tasks, u \notin Ahead(f, q, c), Ahead(f, q, c) \cup {u} \subseteq Ahead(g, r, c)
      PROVE  Enough(m, g, r, c)
  <2>1. /\ Cardinality(Ahead(f, q, c) \cup {u}) = Cardinality(Ahead(f, q, c)) + 1
        /\ IsFiniteSet(Ahead(f, q, c) \cup {u})
    BY <1>2, AheadFinite, FS_AddElement
  <2>2. Cardinality(Ahead(f, q, c) \cup {u}) <= Cardinality(Ahead(g, r, c))
    BY <1>2, AheadFinite, FS_Subset
  <2>. QED BY <2>1, <2>2, AheadFinite DEF Enough
<1>. QED BY <1>1, <1>2

LEMMA NothingIsEnough ==
  ASSUME NEW n \in Int, n <= 0, NEW g, NEW q, NEW c
  PROVE  Enough(n, g, q, c)
BY AheadFinite DEF Enough

------------------------------------------------------------------------------
(* What a step does to the tasks.                                          *)

Calls == {"take", "give"}

\* t runs in call c: it has just arrived, or it was waiting in that call.
Ready(t, c) == task[t].at = "idle" \/ (task[t].at = "woken" /\ task[t].call = c)

LEMMA WokenDoes ==
  ASSUME NEW f \in [Tasks -> TaskRecord], NEW s, NEW g, g = Woken(f, s)
  PROVE  /\ g \in [Tasks -> TaskRecord]
         /\ \A x \in Tasks :
              /\ g[x].call = f[x].call /\ g[x].cancelled = f[x].cancelled
              /\ g[x].at = IF x \in s /\ f[x].at = "asleep" THEN "woken" ELSE f[x].at
              /\ x \notin s => g[x] = f[x]
<1>1. ASSUME NEW y \in Tasks
      PROVE  /\ [f[y] EXCEPT !.at = "woken"] \in TaskRecord
             /\ [f[y] EXCEPT !.at = "woken"].call = f[y].call
             /\ [f[y] EXCEPT !.at = "woken"].cancelled = f[y].cancelled
             /\ [f[y] EXCEPT !.at = "woken"].at = "woken"
  <2>1. f[y] \in TaskRecord OBVIOUS
  <2>. QED BY <2>1 DEF TaskRecord, Places
<1>2. g \in [Tasks -> TaskRecord] BY <1>1 DEF Woken
<1>3. ASSUME NEW x \in Tasks
      PROVE  g[x] = IF x \in s /\ f[x].at = "asleep" THEN [f[x] EXCEPT !.at = "woken"] ELSE f[x]
  BY DEF Woken
<1>. QED BY <1>1, <1>2, <1>3

LEMMA ReturnsDoes ==
  ASSUME TaskTypes, NEW t \in Tasks, NEW c \in Calls, NEW at \in {"done", "holding"},
         NEW s, t \notin s, Returns(t, c, at, s)
  PROVE  /\ TaskTypes'
         /\ task'[t].call = c /\ task'[t].at = at
         /\ \A x \in Tasks \ {t} :
              /\ task'[x].call = task[x].call /\ task'[x].cancelled = task[x].cancelled
              /\ task'[x].at = IF x \in s /\ task[x].at = "asleep" THEN "woken" ELSE task[x].at
              /\ x \notin s => task'[x] = task[x]
<1>. DEFINE w == [task[t] EXCEPT !.call = c, !.at = at]
            g == [task EXCEPT ![t] = w]
<1>0. at \in Places /\ task[t] \in TaskRecord BY DEF TaskTypes, Places
<1>1. w \in TaskRecord /\ w.call = c /\ w.at = at BY <1>0 DEF TaskRecord, Calls
<1>2. task' = Woken(g, s) BY DEF Returns
<1>. HIDE DEF w
<1>3. g \in [Tasks -> TaskRecord] /\ g[t] = w /\ \A x \in Tasks \ {t} : g[x] = task[x]
  BY <1>1 DEF TaskTypes
<1>. HIDE DEF g
<1>4. /\ task' \in [Tasks -> TaskRecord]
      /\ \A x \in Tasks :
           /\ task'[x].call = g[x].call /\ task'[x].cancelled = g[x].cancelled
           /\ task'[x].at = IF x \in s /\ g[x].at = "asleep" THEN "woken" ELSE g[x].at
           /\ x \notin s => task'[x] = g[x]
  BY <1>2, <1>3, WokenDoes
<1>. QED BY <1>1, <1>3, <1>4 DEF TaskTypes

LEMMA WaitsDoes ==
  ASSUME TaskTypes, NEW t \in Tasks, NEW c \in Calls, Waits(t, c)
  PROVE  /\ TaskTypes'
         /\ task'[t].call = c /\ task'[t].at = IF task[t].cancelled THEN "thrown" ELSE "asleep"
         /\ \A x \in Tasks \ {t} : task'[x] = task[x]
<1>. DEFINE at == IF task[t].cancelled THEN "thrown" ELSE "asleep"
            w == [task[t] EXCEPT !.call = c, !.at = at]
<1>0. at \in Places /\ task[t] \in TaskRecord BY DEF TaskTypes, Places
<1>1. task' = [task EXCEPT ![t] = w] BY DEF Waits
<1>. HIDE DEF at
<1>2. w \in TaskRecord /\ w.call = c /\ w.at = at BY <1>0 DEF TaskRecord, Calls
<1>. HIDE DEF w
<1>3. task' \in [Tasks -> TaskRecord] /\ task'[t] = w /\ \A x \in Tasks \ {t} : task'[x] = task[x]
  BY <1>1, <1>2 DEF TaskTypes
<1>. QED BY <1>2, <1>3 DEF TaskTypes, at

------------------------------------------------------------------------------
(* The lists and the count after a call has gone one round.                *)

\* t returns from call c without waking anybody, or waking those of another call.
LEMMA LeavesList ==
  ASSUME TaskTypes, NEW t \in Tasks, NEW c \in Calls, NEW q, NEW d \in Calls, Good(task, q, d),
         Ready(t, c) \/ task[t].at = "holding",
         NEW s, NEW at \in {"done", "holding"}, t \notin s, Returns(t, c, at, s),
         \A u \in s : u \in Tasks /\ Live(task, u) /\ task[u].call # d
  PROVE  /\ Good(task', q, d) /\ Sleepers(task', d) \subseteq Sleepers(task, d)
         /\ Ahead(task, q, d) \ {t} \subseteq Ahead(task', q, d)
<1>1. /\ task'[t].at = at
      /\ \A x \in Tasks \ {t} :
              /\ task'[x].call = task[x].call /\ task'[x].cancelled = task[x].cancelled
              /\ task'[x].at = IF x \in s /\ task[x].at = "asleep" THEN "woken" ELSE task[x].at
              /\ x \notin s => task'[x] = task[x]
  BY ReturnsDoes
<1>2. \A x \in Tasks : Live(task', x) =>
            \/ /\ Live(task, x) /\ task'[x].call = task[x].call
               /\ task'[x].at = "asleep" => task[x].at = "asleep"
               /\ task'[x].at = "woken" /\ (\E i \in DOMAIN q : q[i] = x) => task'[x].cancelled
            \/ task'[x].call # d /\ \A i \in DOMAIN q : q[i] # x
  <2>. SUFFICES ASSUME NEW x \in Tasks, Live(task', x)
                PROVE  \/ /\ Live(task, x) /\ task'[x].call = task[x].call
                          /\ task'[x].at = "asleep" => task[x].at = "asleep"
                          /\ task'[x].at = "woken" /\ (\E i \in DOMAIN q : q[i] = x) => task'[x].cancelled
                       \/ task'[x].call # d /\ \A i \in DOMAIN q : q[i] # x
    OBVIOUS
  <2>1. x # t BY <1>1 DEF Live
  <2>2. CASE x \in s BY <1>1, <2>1, <2>2 DEF Good
  <2>3. CASE x \notin s BY <1>1, <2>1, <2>3 DEF Good, Live
  <2>. QED BY <2>2, <2>3
<1>3. \A x \in Tasks : task'[x].at = "idle" => task[x].at = "idle" BY <1>1
<1>4. Good(task', q, d) /\ Sleepers(task', d) \subseteq Sleepers(task, d) BY <1>2, <1>3, ListKept
<1>5. Ahead(task, q, d) \ {t} \subseteq Ahead(task', q, d) BY <1>1 DEF Ahead
<1>. QED BY <1>4, <1>5

\* t returns and wakes one of list q, to which it does not belong.
LEMMA WakesOne ==
  ASSUME TaskTypes, NEW t \in Tasks, NEW c \in Calls, NEW q, NEW d \in Calls, Good(task, q, d),
         task[t].at \in {"idle", "holding"} \/ (Live(task, t) /\ task[t].call # d),
         NEW at \in {"done", "holding"}, Returns(t, c, at, One(q))
  PROVE  /\ t \notin One(q)
         /\ \A u \in One(q) : u \in Tasks /\ Live(task, u) /\ task[u].call = d
         /\ Good(task', AfterOne(q), d)
         /\ Sleepers(task', d) \subseteq Sleepers(task, d)
         /\ \/ Sleepers(task', d) = {}
            \/ \E u \in Tasks : /\ u \notin Ahead(task, q, d)
                                /\ Ahead(task, q, d) \cup {u} \subseteq Ahead(task', AfterOne(q), d)
<1>1. \A u \in One(q) : u \in Tasks /\ Live(task, u) /\ task[u].call = d
  BY NowAgrees, SomebodyToWake
<1>2. t \notin One(q) BY <1>1 DEF Live
<1>3. /\ task'[t].at = at
      /\ \A x \in Tasks \ {t} :
              /\ task'[x].call = task[x].call /\ task'[x].cancelled = task[x].cancelled
              /\ task'[x].at = IF x \in One(q) /\ task[x].at = "asleep" THEN "woken" ELSE task[x].at
              /\ x \notin One(q) => task'[x] = task[x]
  BY <1>2, ReturnsDoes
<1>4. \A u \in One(q) : task'[u].at = "woken" /\ task'[u].call = task[u].call
  BY <1>1, <1>2, <1>3 DEF Live
<1>5. \A x \in Tasks \ One(q) : Live(task', x) => task'[x] = task[x] BY <1>3 DEF Live
<1>6. \A x \in Tasks : task[x].call = d /\ task[x].at = "woken"
                          => task'[x].call = d /\ task'[x].at = "woken"
  BY <1>3 DEF Live
<1>7. \A x \in Tasks : task'[x].at = "idle" => task[x].at = "idle" BY <1>3
<1>. QED BY <1>1, <1>2, <1>4, <1>5, <1>6, <1>7, NowAgrees, ListPopped

\* t joins the list q of its call; the other list r does not notice.
LEMMA JoinsList ==
  ASSUME TaskTypes, NEW t \in Tasks, NEW c \in Calls, NEW q, Good(task, q, c),
         NEW d \in Calls \ {c}, NEW r, Good(task, r, d), Ready(t, c), Waits(t, c)
  PROVE  /\ Good(task', Append(q, t), c)
         /\ Good(task', r, d) /\ Sleepers(task', d) \subseteq Sleepers(task, d)
         /\ Ahead(task, r, d) \subseteq Ahead(task', r, d)
<1>1. /\ task'[t].call = c /\ task'[t].at = IF task[t].cancelled THEN "thrown" ELSE "asleep"
      /\ \A x \in Tasks \ {t} : task'[x] = task[x]
  BY WaitsDoes
<1>2. ~task[t].cancelled => \A i \in DOMAIN q : q[i] # t BY DEF Ready, Good
<1>3. Good(task', Append(q, t), c) BY <1>1, <1>2, ListPushed
<1>4. Live(task', t) => task'[t].call # d /\ \A i \in DOMAIN r : r[i] # t
  BY <1>1 DEF Ready, Good, Live
<1>5. \A x \in Tasks : Live(task', x) =>
            \/ /\ Live(task, x) /\ task'[x].call = task[x].call
               /\ task'[x].at = "asleep" => task[x].at = "asleep"
               /\ task'[x].at = "woken" /\ (\E i \in DOMAIN r : r[i] = x) => task'[x].cancelled
            \/ task'[x].call # d /\ \A i \in DOMAIN r : r[i] # x
  BY <1>1, <1>4 DEF Good, Live
<1>6. \A x \in Tasks : task'[x].at = "idle" => task[x].at = "idle" BY <1>1
<1>7. Good(task', r, d) /\ Sleepers(task', d) \subseteq Sleepers(task, d) BY <1>5, <1>6, ListKept
<1>8. Ahead(task, r, d) \subseteq Ahead(task', r, d) BY <1>1 DEF Ahead, Ready
<1>. QED BY <1>3, <1>7, <1>8

------------------------------------------------------------------------------
(* The invariant.                                                          *)

LEMMA HoldersFinite == IsFiniteSet(Holders) /\ Cardinality(Holders) \in Nat
<1>1. Holders \subseteq Tasks BY DEF Holders
<1>. QED BY <1>1, SyncAssumption, FS_Subset, FS_CardinalityType

LEMMA SupplyIsANumber == StateTypes => Supply \in Nat /\ Len(items) \in Nat
BY DEF StateTypes, Supply

LEMMA InitInv == Init => Inv
<1>. SUFFICES ASSUME Init PROVE Inv OBVIOUS
<1>1. \A t \in Tasks : task[t].at = "idle" /\ task[t].call = "none" BY DEF Init
<1>2. TaskTypes BY DEF Init, TaskTypes, TaskRecord, Places
<1>3. StateTypes
  <2>1. kind \in Kinds /\ items = <<>> /\ items \in Seq(Tasks) /\ Len(items) = 0 BY DEF Init
  <2>2. maxSize \in Nat /\ (kind # "queue" => maxSize = 0) BY SyncAssumption DEF Init
  <2>3. permits \in Nat /\ (kind \notin {"semaphore", "lock"} => permits = 0)
    <3>1. CASE kind = "semaphore" BY <3>1, SyncAssumption DEF Init
    <3>2. CASE kind = "lock" BY <3>2 DEF Init
    <3>3. CASE kind = "queue" BY <3>3 DEF Init
    <3>4. CASE kind = "event" BY <3>4 DEF Init
    <3>. QED BY <2>1, <3>1, <3>2, <3>3, <3>4 DEF Kinds
  <2>. QED BY <2>1, <2>2, <2>3 DEF StateTypes
<1>4. takers = <<>> /\ givers = <<>> /\ <<>> \in Seq(Tasks) /\ DOMAIN <<>> = {} BY DEF Init
<1>5. Lists BY <1>1, <1>4 DEF Lists, Good
<1>6. Sleepers(task, "take") = {} /\ Sleepers(task, "give") = {} BY <1>1 DEF Sleepers
<1>7. TakersServed /\ GiversServed BY <1>6 DEF TakersServed, GiversServed, Enough
<1>8. LockIsExclusive
  <2>1. {t \in Tasks : task[t].at = "holding"} = {} BY <1>1
  <2>2. kind = "lock" => permits = 1 BY DEF Init
  <2>. QED BY <2>1, <2>2, FS_EmptySet DEF LockIsExclusive
<1>. QED BY <1>2, <1>3, <1>5, <1>7, <1>8 DEF Inv

\* A put() that goes through: one item more, one place less, one taker woken.
LEMMA PutReturnsInv ==
  ASSUME Inv, NEW t \in Tasks, Ready(t, "give"), kind = "queue", ~Full,
         items' = Append(items, t), takers' = AfterOne(takers),
         Returns(t, "give", "done", One(takers)), UNCHANGED <<kind, maxSize, permits, givers>>
  PROVE  Inv'
<1>. USE DEF Inv
<1>1. /\ t \notin One(takers)
      /\ \A u \in One(takers) : u \in Tasks /\ Live(task, u) /\ task[u].call = "take"
      /\ Good(task', takers', "take")
      /\ Sleepers(task', "take") \subseteq Sleepers(task, "take")
      /\ \/ Sleepers(task', "take") = {}
         \/ \E u \in Tasks : /\ u \notin Ahead(task, takers, "take")
                             /\ Ahead(task, takers, "take") \cup {u} \subseteq Ahead(task', takers', "take")
  <2>1. task[t].at \in {"idle", "holding"} \/ (Live(task, t) /\ task[t].call # "take")
    BY DEF Ready, Live
  <2>. QED BY <2>1, WakesOne DEF Lists, Calls
<1>2. /\ Good(task', givers, "give") /\ Sleepers(task', "give") \subseteq Sleepers(task, "give")
      /\ Ahead(task, givers, "give") \ {t} \subseteq Ahead(task', givers, "give")
  <2>1. \A u \in One(takers) : u \in Tasks /\ Live(task, u) /\ task[u].call # "give" BY <1>1
  <2>. QED BY <1>1, <2>1, LeavesList DEF Lists, Calls
<1>3. TaskTypes' BY <1>1, ReturnsDoes DEF Calls
<1>4. /\ items \in Seq(Tasks) /\ Len(items) \in Nat /\ maxSize \in Nat
      /\ Len(items') = Len(items) + 1 /\ items' \in Seq(Tasks)
  BY DEF StateTypes
<1>5. StateTypes' BY <1>4 DEF StateTypes, Full
<1>6. TakersServed'
  <2>1. Supply = Len(items) /\ Supply' = Len(items) + 1 BY <1>4 DEF Supply
  <2>2. Supply \in Int /\ Supply' = Supply + 1 BY <1>4, <2>1
  <2>. QED BY <1>1, <2>2, EnoughMore DEF TakersServed
<1>7. GiversServed'
  <2>. SUFFICES ASSUME maxSize # 0 PROVE Enough(maxSize - Len(items'), task', givers, "give")
    BY DEF GiversServed
  <2>1. Enough(maxSize - Len(items), task, givers, "give") BY DEF GiversServed
  <2>2. maxSize - Len(items) \in Int /\ maxSize - Len(items') = (maxSize - Len(items)) - 1 BY <1>4
  <2>. QED BY <1>2, <2>1, <2>2, EnoughLess
<1>8. Lists' BY <1>1, <1>2 DEF Lists
<1>9. LockIsExclusive' BY DEF LockIsExclusive
<1>. QED BY <1>3, <1>5, <1>6, <1>7, <1>8, <1>9

\* A get() that goes through, the other way round.
LEMMA GetReturnsInv ==
  ASSUME Inv, NEW t \in Tasks, Ready(t, "take"), kind = "queue", items # <<>>,
         items' = Tail(items), givers' = AfterOne(givers),
         Returns(t, "take", "done", One(givers)), UNCHANGED <<kind, maxSize, permits, takers>>
  PROVE  Inv'
<1>. USE DEF Inv
<1>1. /\ t \notin One(givers)
      /\ \A u \in One(givers) : u \in Tasks /\ Live(task, u) /\ task[u].call = "give"
      /\ Good(task', givers', "give")
      /\ Sleepers(task', "give") \subseteq Sleepers(task, "give")
      /\ \/ Sleepers(task', "give") = {}
         \/ \E u \in Tasks : /\ u \notin Ahead(task, givers, "give")
                             /\ Ahead(task, givers, "give") \cup {u} \subseteq Ahead(task', givers', "give")
  <2>1. task[t].at \in {"idle", "holding"} \/ (Live(task, t) /\ task[t].call # "give")
    BY DEF Ready, Live
  <2>. QED BY <2>1, WakesOne DEF Lists, Calls
<1>2. /\ Good(task', takers, "take") /\ Sleepers(task', "take") \subseteq Sleepers(task, "take")
      /\ Ahead(task, takers, "take") \ {t} \subseteq Ahead(task', takers, "take")
  <2>1. \A u \in One(givers) : u \in Tasks /\ Live(task, u) /\ task[u].call # "take" BY <1>1
  <2>. QED BY <1>1, <2>1, LeavesList DEF Lists, Calls
<1>3. TaskTypes' BY <1>1, ReturnsDoes DEF Calls
<1>4. /\ items \in Seq(Tasks) /\ Len(items) \in Nat /\ maxSize \in Nat
      /\ Len(items') = Len(items) - 1 /\ items' \in Seq(Tasks)
  BY DEF StateTypes
<1>5. StateTypes' BY <1>4 DEF StateTypes
<1>6. TakersServed'
  <2>1. Supply = Len(items) /\ Supply' = Len(items) - 1 BY <1>4 DEF Supply
  <2>2. Supply \in Int /\ Supply' = Supply - 1 BY <1>4, <2>1
  <2>. QED BY <1>2, <2>2, EnoughLess DEF TakersServed
<1>7. GiversServed'
  <2>. SUFFICES ASSUME maxSize # 0 PROVE Enough(maxSize - Len(items'), task', givers', "give")
    BY DEF GiversServed
  <2>1. Enough(maxSize - Len(items), task, givers, "give") BY DEF GiversServed
  <2>2. maxSize - Len(items) \in Int /\ maxSize - Len(items') = (maxSize - Len(items)) + 1 BY <1>4
  <2>. QED BY <1>1, <2>1, <2>2, EnoughMore
<1>8. Lists' BY <1>1, <1>2 DEF Lists
<1>9. LockIsExclusive' BY DEF LockIsExclusive
<1>. QED BY <1>3, <1>5, <1>6, <1>7, <1>8, <1>9

\* get(), acquire() or wait() finds nothing: the list is joined when it is empty-handed.
LEMMA TakeWaitsInv ==
  ASSUME Inv, NEW t \in Tasks, Ready(t, "take"), Supply = 0,
         takers' = Append(takers, t), Waits(t, "take"),
         UNCHANGED <<kind, maxSize, items, permits, givers>>
  PROVE  Inv'
<1>. USE DEF Inv
<1>1. /\ Good(task', takers', "take")
      /\ Good(task', givers, "give") /\ Sleepers(task', "give") \subseteq Sleepers(task, "give")
      /\ Ahead(task, givers, "give") \subseteq Ahead(task', givers, "give")
  BY JoinsList DEF Lists, Calls
<1>2. TaskTypes' /\ task'[t].at \in {"thrown", "asleep"} /\ \A x \in Tasks \ {t} : task'[x] = task[x]
  BY WaitsDoes DEF Calls
<1>3. StateTypes' BY DEF StateTypes
<1>4. TakersServed' BY NothingIsEnough DEF TakersServed, Supply
<1>5. GiversServed'
  <2>1. maxSize - Len(items) \in Int BY SupplyIsANumber DEF StateTypes
  <2>. QED BY <1>1, <2>1, EnoughSame DEF GiversServed
<1>6. Lists' BY <1>1 DEF Lists
<1>7. LockIsExclusive'
  <2>1. task[t].at # "holding" BY DEF Ready
  <2>2. {x \in Tasks : task'[x].at = "holding"} = {x \in Tasks : task[x].at = "holding"} BY <1>2, <2>1
  <2>. QED BY <2>2 DEF LockIsExclusive
<1>. QED BY <1>2, <1>3, <1>4, <1>5, <1>6, <1>7

\* put() finds the queue full.
LEMMA GiveWaitsInv ==
  ASSUME Inv, NEW t \in Tasks, Ready(t, "give"), kind = "queue", Full,
         givers' = Append(givers, t), Waits(t, "give"),
         UNCHANGED <<kind, maxSize, items, permits, takers>>
  PROVE  Inv'
<1>. USE DEF Inv
<1>1. /\ Good(task', givers', "give")
      /\ Good(task', takers, "take") /\ Sleepers(task', "take") \subseteq Sleepers(task, "take")
      /\ Ahead(task, takers, "take") \subseteq Ahead(task', takers, "take")
  BY JoinsList DEF Lists, Calls
<1>2. TaskTypes' BY WaitsDoes DEF Calls
<1>3. StateTypes' BY DEF StateTypes
<1>4. TakersServed'
  <2>1. Supply \in Int /\ Supply' = Supply BY SupplyIsANumber DEF Supply
  <2>. QED BY <1>1, <2>1, EnoughSame DEF TakersServed
<1>5. GiversServed'
  <2>1. maxSize - Len(items) \in Int /\ maxSize - Len(items) <= 0
    BY SupplyIsANumber DEF StateTypes, Full
  <2>. QED BY <2>1, NothingIsEnough DEF GiversServed
<1>6. Lists' BY <1>1 DEF Lists
<1>7. LockIsExclusive' BY DEF LockIsExclusive
<1>. QED BY <1>2, <1>3, <1>4, <1>5, <1>6, <1>7

\* acquire() takes a permit; who holds one has one less of them left for the rest.
LEMMA AcquireReturnsInv ==
  ASSUME Inv, NEW t \in Tasks, Ready(t, "take"), Counts, permits > 0,
         permits' = permits - 1, Returns(t, "take", "holding", {}),
         UNCHANGED <<kind, maxSize, items, takers, givers>>
  PROVE  Inv'
<1>. USE DEF Inv
<1>1. /\ Good(task', takers, "take") /\ Sleepers(task', "take") \subseteq Sleepers(task, "take")
      /\ Ahead(task, takers, "take") \ {t} \subseteq Ahead(task', takers, "take")
  BY LeavesList DEF Lists, Calls
<1>2. Good(task', givers, "give") BY LeavesList DEF Lists, Calls
<1>3. TaskTypes' /\ task'[t].at = "holding" /\ \A x \in Tasks \ {t} : task'[x].at = task[x].at
  BY ReturnsDoes DEF Calls
<1>4. kind # "queue" /\ maxSize = 0 /\ permits \in Nat BY DEF Counts, StateTypes
<1>5. StateTypes' BY <1>4 DEF StateTypes, Counts
<1>6. TakersServed'
  <2>1. Supply = permits /\ Supply' = permits - 1 BY <1>4 DEF Supply
  <2>2. Supply \in Int /\ Supply' = Supply - 1 BY <1>4, <2>1
  <2>. QED BY <1>1, <2>2, EnoughLess DEF TakersServed
<1>7. GiversServed' BY <1>4 DEF GiversServed
<1>8. Lists' BY <1>1, <1>2 DEF Lists
<1>9. LockIsExclusive'
  <2>1. Holders' = Holders \cup {t} /\ t \notin Holders BY <1>3 DEF Holders, Ready
  <2>2. Cardinality(Holders') = Cardinality(Holders) + 1 BY <2>1, HoldersFinite, FS_AddElement
  <2>. QED BY <1>4, <2>2, HoldersFinite DEF LockIsExclusive, Holders
<1>. QED BY <1>3, <1>5, <1>6, <1>7, <1>8, <1>9

\* release(), or the destructor of the LockGuard: the permit comes back and one taker is woken.
LEMMA ReleaseInv ==
  ASSUME Inv, NEW t \in Tasks, Release(t)
  PROVE  Inv'
<1>. USE DEF Inv, Release
<1>1. /\ t \notin One(takers)
      /\ \A u \in One(takers) : u \in Tasks /\ Live(task, u) /\ task[u].call = "take"
      /\ Good(task', takers', "take")
      /\ Sleepers(task', "take") \subseteq Sleepers(task, "take")
      /\ \/ Sleepers(task', "take") = {}
         \/ \E u \in Tasks : /\ u \notin Ahead(task, takers, "take")
                             /\ Ahead(task, takers, "take") \cup {u} \subseteq Ahead(task', takers', "take")
  BY WakesOne DEF Lists, Calls
<1>2. Good(task', givers, "give")
  <2>1. \A u \in One(takers) : u \in Tasks /\ Live(task, u) /\ task[u].call # "give" BY <1>1
  <2>. QED BY <1>1, <2>1, LeavesList DEF Lists, Calls
<1>3. /\ TaskTypes' /\ task'[t].at = "done"
      /\ \A x \in Tasks \ {t} :
           task'[x].at = IF x \in One(takers) /\ task[x].at = "asleep" THEN "woken" ELSE task[x].at
  BY <1>1, ReturnsDoes DEF Calls
<1>4. kind # "queue" /\ maxSize = 0 /\ permits \in Nat BY DEF Counts, StateTypes
<1>5. StateTypes' BY <1>4 DEF StateTypes, Counts
<1>6. TakersServed'
  <2>1. Supply = permits /\ Supply' = permits + 1 BY <1>4 DEF Supply
  <2>2. Supply \in Int /\ Supply' = Supply + 1 BY <1>4, <2>1
  <2>. QED BY <1>1, <2>2, EnoughMore DEF TakersServed
<1>7. GiversServed' BY <1>4 DEF GiversServed
<1>8. Lists' BY <1>1, <1>2 DEF Lists
<1>9. LockIsExclusive'
  <2>1. Holders' = Holders \ {t} /\ t \in Holders BY <1>3 DEF Holders
  <2>2. Cardinality(Holders') = Cardinality(Holders) - 1 BY <2>1, HoldersFinite, FS_RemoveElement
  <2>. QED BY <1>4, <2>2, HoldersFinite DEF LockIsExclusive, Holders
<1>. QED BY <1>3, <1>5, <1>6, <1>7, <1>8, <1>9

\* One turn of the loop of release(n), with nobody running but the caller.
LEMMA WokenPops ==
  ASSUME NEW f \in [Tasks -> TaskRecord], Agrees(f), Good(f, givers, "give"),
         NEW q, Good(f, q, "take"), NEW g, g = Woken(f, One(q))
  PROVE  /\ g \in [Tasks -> TaskRecord] /\ Agrees(g)
         /\ Good(g, AfterOne(q), "take") /\ Good(g, givers, "give")
         /\ Sleepers(g, "take") \subseteq Sleepers(f, "take")
         /\ \/ Sleepers(g, "take") = {}
            \/ \E u \in Tasks : /\ u \notin Ahead(f, q, "take")
                                /\ Ahead(f, q, "take") \cup {u} \subseteq Ahead(g, AfterOne(q), "take")
<1>1. \A u \in One(q) : u \in Tasks /\ Live(f, u) /\ f[u].call = "take" BY SomebodyToWake
<1>2. /\ g \in [Tasks -> TaskRecord]
      /\ \A x \in Tasks :
              /\ g[x].call = f[x].call /\ g[x].cancelled = f[x].cancelled
              /\ g[x].at = IF x \in One(q) /\ f[x].at = "asleep" THEN "woken" ELSE f[x].at
              /\ x \notin One(q) => g[x] = f[x]
  BY WokenDoes
<1>3. \A x \in Tasks : Live(g, x) <=> Live(f, x) BY <1>2 DEF Live
<1>4. Agrees(g) BY <1>3 DEF Agrees
<1>5. \A u \in One(q) : g[u].at = "woken" /\ g[u].call = f[u].call BY <1>1, <1>2 DEF Live
<1>6. \A x \in Tasks \ One(q) : Live(g, x) => g[x] = f[x] BY <1>2
<1>7. \A x \in Tasks : f[x].call = "take" /\ f[x].at = "woken" => g[x].call = "take" /\ g[x].at = "woken"
  BY <1>2
<1>8. \A x \in Tasks : g[x].at = "idle" => f[x].at = "idle" BY <1>2
<1>9. \A x \in Tasks : Live(g, x) =>
            \/ /\ Live(f, x) /\ g[x].call = f[x].call
               /\ g[x].at = "asleep" => f[x].at = "asleep"
               /\ g[x].at = "woken" /\ (\E i \in DOMAIN givers : givers[i] = x) => g[x].cancelled
            \/ g[x].call # "give" /\ \A i \in DOMAIN givers : givers[i] # x
  <2>. SUFFICES ASSUME NEW x \in Tasks, Live(g, x)
                PROVE  \/ /\ Live(f, x) /\ g[x].call = f[x].call
                          /\ g[x].at = "asleep" => f[x].at = "asleep"
                          /\ g[x].at = "woken" /\ (\E i \in DOMAIN givers : givers[i] = x)
                                => g[x].cancelled
                       \/ g[x].call # "give" /\ \A i \in DOMAIN givers : givers[i] # x
    OBVIOUS
  <2>1. CASE x \in One(q) BY <1>1, <1>2, <2>1 DEF Good
  <2>2. CASE x \notin One(q) BY <1>2, <2>2 DEF Good, Live
  <2>. QED BY <2>1, <2>2
<1>10. Good(g, givers, "give") BY <1>8, <1>9, ListKept
<1>. QED BY <1>2, <1>4, <1>5, <1>6, <1>7, <1>8, <1>10, ListPopped

\* release(n): n permits, and n turns of cancel_one_waiter.
LEMMA ReleaseManyInv ==
  ASSUME Inv, NEW n \in {1, 2}, ReleaseMany(n)
  PROVE  Inv'
<1>. USE DEF Inv
<1>. DEFINE h == Woken(task, One(takers))
            q == AfterOne(takers)
<1>0. /\ kind = "semaphore" /\ permits \in Nat /\ maxSize = 0 /\ permits' = permits + n
      /\ UNCHANGED <<kind, maxSize, items, givers>>
      /\ Supply = permits /\ Supply' = permits + n
  BY DEF ReleaseMany, StateTypes, Supply
<1>1. /\ h \in [Tasks -> TaskRecord] /\ Agrees(h)
      /\ Good(h, q, "take") /\ Good(h, givers, "give")
      /\ Sleepers(h, "take") \subseteq Sleepers(task, "take")
      /\ \/ Sleepers(h, "take") = {}
         \/ \E u \in Tasks : /\ u \notin Ahead(task, takers, "take")
                             /\ Ahead(task, takers, "take") \cup {u} \subseteq Ahead(h, q, "take")
  BY NowAgrees, WokenPops DEF TaskTypes, Lists
<1>2. Enough(permits + 1, h, q, "take")
  <2>1. Enough(permits, task, takers, "take") BY <1>0 DEF TakersServed
  <2>. QED BY <1>0, <1>1, <2>1, EnoughMore, SMTT(30)
<1>. HIDE DEF h, q
<1>3. TaskTypes' /\ Good(task', takers', "take") /\ Good(task', givers, "give")
      /\ Enough(permits + n, task', takers', "take")
  <2>1. CASE n = 1
    <3>1. task' = h /\ takers' = q BY <2>1 DEF ReleaseMany, h, q
    <3>. QED BY <1>1, <1>2, <2>1, <3>1 DEF TaskTypes
  <2>2. CASE n = 2
    <3>1. takers' = AfterOne(q) BY <2>2 DEF ReleaseMany, q
    <3>2. task' = Woken(h, One(q))
      <4>1. task' = Woken(task, One(takers) \cup One(q)) BY <2>2 DEF ReleaseMany, q
      <4>2. ASSUME NEW x \in Tasks
            PROVE  (IF x \in One(takers) \cup One(q) /\ task[x].at = "asleep"
                    THEN [task[x] EXCEPT !.at = "woken"] ELSE task[x])
                   = IF x \in One(q) /\ h[x].at = "asleep" THEN [h[x] EXCEPT !.at = "woken"] ELSE h[x]
        <5>1. h[x] = IF x \in One(takers) /\ task[x].at = "asleep"
                     THEN [task[x] EXCEPT !.at = "woken"] ELSE task[x]
          BY DEF h, Woken
        <5>2. task[x] \in TaskRecord BY DEF TaskTypes
        <5>3. [task[x] EXCEPT !.at = "woken"].at = "woken" BY <5>2 DEF TaskRecord
        <5>. QED BY <5>1, <5>3
      <4>. QED BY <4>1, <4>2 DEF Woken
    <3>3. /\ task' \in [Tasks -> TaskRecord]
          /\ Good(task', AfterOne(q), "take") /\ Good(task', givers, "give")
          /\ Sleepers(task', "take") \subseteq Sleepers(h, "take")
          /\ \/ Sleepers(task', "take") = {}
             \/ \E u \in Tasks : /\ u \notin Ahead(h, q, "take")
                                 /\ Ahead(h, q, "take") \cup {u} \subseteq Ahead(task', AfterOne(q), "take")
      BY <1>1, <3>2, WokenPops
    <3>4. permits + 1 \in Int /\ permits + n = (permits + 1) + 1 BY <1>0, <2>2
    <3>5. Enough(permits + n, task', AfterOne(q), "take") BY <1>2, <3>3, <3>4, EnoughMore
    <3>. QED BY <3>1, <3>3, <3>5 DEF TaskTypes
  <2>. QED BY <2>1, <2>2
<1>4. StateTypes' BY <1>0 DEF StateTypes
<1>5. TakersServed' BY <1>0, <1>3 DEF TakersServed
<1>6. GiversServed' BY <1>0 DEF GiversServed
<1>7. Lists' BY <1>0, <1>3 DEF Lists
<1>8. LockIsExclusive' BY <1>0 DEF LockIsExclusive
<1>. QED BY <1>3, <1>4, <1>5, <1>6, <1>7, <1>8

\* wait() returns.  An Event has no supply: there is nothing to run out of.
LEMMA EventReturnsInv ==
  ASSUME Inv, NEW t \in Tasks, Ready(t, "take"), kind = "event", Returns(t, "take", "done", {}),
         UNCHANGED <<kind, maxSize, items, permits, takers, givers>>
  PROVE  Inv'
<1>. USE DEF Inv
<1>1. Good(task', takers, "take") /\ Good(task', givers, "give") BY LeavesList DEF Lists, Calls
<1>2. TaskTypes' BY ReturnsDoes DEF Calls
<1>3. maxSize = 0 /\ Supply' = 0 BY DEF StateTypes, Supply
<1>4. TakersServed' BY <1>3, NothingIsEnough DEF TakersServed
<1>5. StateTypes' BY DEF StateTypes
<1>. QED BY <1>1, <1>2, <1>3, <1>4, <1>5 DEF Lists, GiversServed, LockIsExclusive

\* set() empties the list, and nobody of it sleeps on.
LEMMA SetEventInv ==
  ASSUME Inv, SetEvent
  PROVE  Inv'
<1>. USE DEF Inv
<1>. DEFINE s == {takers[i] : i \in DOMAIN takers}
<1>0. kind = "event" /\ takers' = <<>> /\ UNCHANGED <<kind, maxSize, items, permits, givers>>
  BY DEF SetEvent
<1>1. task' = Woken(task, s) /\ task \in [Tasks -> TaskRecord] BY DEF SetEvent, TaskTypes
<1>2. \A x \in Tasks : task[x].at = "asleep" /\ task[x].call = "take" => x \in s BY DEF Lists, Good
<1>3. \A x \in s : Live(task, x) => task[x].call = "take" BY DEF Lists, Good
<1>. HIDE DEF s
<1>4. /\ task' \in [Tasks -> TaskRecord]
      /\ \A x \in Tasks :
              /\ task'[x].call = task[x].call /\ task'[x].cancelled = task[x].cancelled
              /\ task'[x].at = IF x \in s /\ task[x].at = "asleep" THEN "woken" ELSE task[x].at
              /\ x \notin s => task'[x] = task[x]
  BY <1>1, WokenDoes
<1>5. takers' = <<>> /\ <<>> \in Seq(Tasks) /\ DOMAIN <<>> = {} BY <1>0
<1>6. Good(task', takers', "take") BY <1>2, <1>4, <1>5 DEF Good
<1>7. \A x \in Tasks : Live(task', x) =>
            \/ /\ Live(task, x) /\ task'[x].call = task[x].call
               /\ task'[x].at = "asleep" => task[x].at = "asleep"
               /\ task'[x].at = "woken" /\ (\E i \in DOMAIN givers : givers[i] = x) => task'[x].cancelled
            \/ task'[x].call # "give" /\ \A i \in DOMAIN givers : givers[i] # x
  <2>. SUFFICES ASSUME NEW x \in Tasks, Live(task', x)
                PROVE  \/ /\ Live(task, x) /\ task'[x].call = task[x].call
                          /\ task'[x].at = "asleep" => task[x].at = "asleep"
                          /\ task'[x].at = "woken" /\ (\E i \in DOMAIN givers : givers[i] = x)
                                => task'[x].cancelled
                       \/ task'[x].call # "give" /\ \A i \in DOMAIN givers : givers[i] # x
    OBVIOUS
  <2>1. Live(task, x) BY <1>4 DEF Live
  <2>2. CASE x \in s BY <1>3, <1>4, <2>1, <2>2 DEF Lists, Good
  <2>3. CASE x \notin s BY <1>4, <2>1, <2>3 DEF Lists, Good
  <2>. QED BY <2>2, <2>3
<1>8. \A x \in Tasks : task'[x].at = "idle" => task[x].at = "idle" BY <1>4
<1>9. Good(task', givers, "give") BY <1>7, <1>8, ListKept DEF Lists
<1>10. maxSize = 0 /\ Supply' = 0 BY <1>0 DEF StateTypes, Supply
<1>11. TakersServed' BY <1>10, NothingIsEnough DEF TakersServed
<1>12. StateTypes' BY <1>0 DEF StateTypes
<1>. QED BY <1>0, <1>4, <1>6, <1>9, <1>10, <1>11, <1>12 DEF TaskTypes, Lists, GiversServed, LockIsExclusive

\* Task::cancel leaves the entry in the list, with the mark that lets it stay there awake.
LEMMA CancelInv ==
  ASSUME Inv, NEW t \in Tasks, Cancel(t)
  PROVE  Inv'
<1>. USE DEF Inv
<1>0. UNCHANGED <<kind, maxSize, items, permits, takers, givers>> BY DEF Cancel
<1>. DEFINE w == [task[t] EXCEPT !.at = "woken", !.cancelled = TRUE]
<1>1. task[t] \in TaskRecord /\ task \in [Tasks -> TaskRecord] BY DEF TaskTypes
<1>2. w \in TaskRecord /\ w.at = "woken" /\ w.cancelled = TRUE /\ w.call = task[t].call
  BY <1>1 DEF TaskRecord, Places
<1>3. task' = [task EXCEPT ![t] = w] BY DEF Cancel
<1>. HIDE DEF w
<1>4. /\ task' \in [Tasks -> TaskRecord]
      /\ task'[t].at = "woken" /\ task'[t].cancelled = TRUE /\ task'[t].call = task[t].call
      /\ \A x \in Tasks \ {t} : task'[x] = task[x]
  BY <1>1, <1>2, <1>3
<1>5. Live(task, t) BY DEF Cancel, Alive, Live
<1>6. ASSUME NEW q, NEW c, Good(task, q, c)
      PROVE  /\ Good(task', q, c) /\ Sleepers(task', c) \subseteq Sleepers(task, c)
             /\ Ahead(task, q, c) \subseteq Ahead(task', q, c)
  <2>1. \A x \in Tasks : Live(task', x) =>
            \/ /\ Live(task, x) /\ task'[x].call = task[x].call
               /\ task'[x].at = "asleep" => task[x].at = "asleep"
               /\ task'[x].at = "woken" /\ (\E i \in DOMAIN q : q[i] = x) => task'[x].cancelled
            \/ task'[x].call # c /\ \A i \in DOMAIN q : q[i] # x
    BY <1>4, <1>5, <1>6 DEF Good, Live
  <2>2. \A x \in Tasks : task'[x].at = "idle" => task[x].at = "idle" BY <1>4
  <2>3. Good(task', q, c) /\ Sleepers(task', c) \subseteq Sleepers(task, c)
    BY <1>6, <2>1, <2>2, ListKept
  <2>4. Ahead(task, q, c) \subseteq Ahead(task', q, c) BY <1>4 DEF Ahead
  <2>. QED BY <2>3, <2>4
<1>7. TaskTypes' BY <1>4 DEF TaskTypes
<1>8. StateTypes' BY <1>0 DEF StateTypes
<1>9. TakersServed'
  <2>1. Supply \in Int /\ Supply' = Supply BY <1>0, SupplyIsANumber DEF Supply
  <2>2. /\ Sleepers(task', "take") \subseteq Sleepers(task, "take")
        /\ Ahead(task, takers, "take") \subseteq Ahead(task', takers, "take")
    BY <1>6 DEF Lists
  <2>. QED BY <1>0, <2>1, <2>2, EnoughSame DEF TakersServed
<1>10. GiversServed'
  <2>1. maxSize - Len(items) \in Int BY SupplyIsANumber DEF StateTypes
  <2>2. /\ Sleepers(task', "give") \subseteq Sleepers(task, "give")
        /\ Ahead(task, givers, "give") \subseteq Ahead(task', givers, "give")
    BY <1>6 DEF Lists
  <2>. QED BY <1>0, <2>1, <2>2, EnoughSame DEF GiversServed
<1>11. Lists' BY <1>0, <1>6 DEF Lists
<1>12. LockIsExclusive'
  <2>1. {x \in Tasks : task'[x].at = "holding"} = {x \in Tasks : task[x].at = "holding"}
    BY <1>4, <1>5 DEF Live
  <2>. QED BY <1>0, <2>1 DEF LockIsExclusive
<1>. QED BY <1>7, <1>8, <1>9, <1>10, <1>11, <1>12

\* A step that changes neither the tasks nor what they share.
LEMMA NothingMoves ==
  ASSUME Inv, UNCHANGED <<kind, maxSize, items, permits, takers, givers, task>>
  PROVE  Inv'
<1>1. Supply' = Supply BY DEF Supply
<1>. QED BY <1>1 DEF Inv, TaskTypes, StateTypes, Lists, TakersServed, GiversServed, LockIsExclusive

\* One round of a call, by a task that has just arrived or whose wait is over.
LEMMA RoundInv ==
  ASSUME Inv, NEW t \in Tasks,
         \/ Ready(t, "give") /\ (Put(t) \/ TryPut(t))
         \/ Ready(t, "take") /\ (Get(t) \/ TryGet(t) \/ Acquire(t) \/ TryAcquire(t) \/ WaitEvent(t))
  PROVE  Inv'
<1>1. CASE Ready(t, "give") /\ (Put(t) \/ TryPut(t))
  BY <1>1, PutReturnsInv, GiveWaitsInv DEF Put, TryPut
<1>2. CASE Ready(t, "take") /\ (Get(t) \/ TryGet(t))
  <2>1. CASE items # <<>> BY <1>2, <2>1, GetReturnsInv DEF Get, TryGet
  <2>2. CASE items = <<>>
    <3>1. Supply = 0 BY <1>2, <2>2 DEF Supply, Get, TryGet
    <3>. QED BY <1>2, <2>2, <3>1, TakeWaitsInv DEF Get, TryGet
  <2>. QED BY <2>1, <2>2
<1>3. CASE Ready(t, "take") /\ (Acquire(t) \/ TryAcquire(t))
  <2>1. CASE permits > 0 BY <1>3, <2>1, AcquireReturnsInv DEF Acquire, TryAcquire
  <2>2. CASE ~(permits > 0)
    <3>1. Acquire(t) /\ permits = 0 /\ Supply = 0
      BY <1>3, <2>2 DEF Acquire, TryAcquire, Supply, Counts
    <3>. QED BY <1>3, <2>2, <3>1, TakeWaitsInv DEF Acquire
  <2>. QED BY <2>1, <2>2
<1>4. CASE Ready(t, "take") /\ WaitEvent(t)
  <2>1. Supply = 0 BY <1>4 DEF WaitEvent, Supply, Inv, StateTypes
  <2>. QED BY <1>4, <2>1, EventReturnsInv, TakeWaitsInv DEF WaitEvent
<1>. QED BY <1>1, <1>2, <1>3, <1>4

LEMMA NextInv == Inv /\ [Next]_vars => Inv'
<1>. SUFFICES ASSUME Inv, [Next]_vars PROVE Inv' OBVIOUS
<1>1. ASSUME NEW t \in Tasks, Call(t) PROVE Inv'
  <2>1. Ready(t, "take") /\ Ready(t, "give") BY <1>1 DEF Call, Ready
  <2>. QED BY <1>1, <2>1, RoundInv DEF Call
<1>2. ASSUME NEW t \in Tasks, Resume(t) PROVE Inv'
  BY <1>2, RoundInv DEF Resume, Ready
<1>3. CASE ClearEvent BY <1>3, NothingMoves DEF ClearEvent
<1>4. CASE Quiet BY <1>4, NothingMoves DEF Quiet, vars
<1>5. CASE UNCHANGED vars BY <1>5, NothingMoves DEF vars
<1>. QED BY <1>1, <1>2, <1>3, <1>4, <1>5, CancelInv, ReleaseInv, ReleaseManyInv, SetEventInv DEF Next

\* The invariant holds in every reachable state of every primitive.
THEOREM InvHolds == Spec => []Inv
BY InitInv, NextInv, PTL DEF Spec

\* A LockGuard excludes every other, and none is lost, whoever is cancelled
\* while it waits or holds the lock.
THEOREM LockExclusive == Spec => []LockIsExclusive
<1>1. Inv => LockIsExclusive BY DEF Inv
<1>. QED BY <1>1, InvHolds, PTL

\* No primitive loses a wake-up: whatever could be handed to a sleeping task has
\* a task that is awake and will look for it, for any number of tasks and limits.
THEOREM SleepersCovered == Spec => []SleepersAreCovered
<1>1. ASSUME NEW n \in Int, NEW q, NEW c, Enough(n, task, q, c)
      PROVE  Least(n, Cardinality(At(c, "asleep"))) <= Cardinality(At(c, "woken"))
  <2>1. At(c, "asleep") \subseteq Tasks /\ At(c, "woken") \subseteq Tasks
        /\ Ahead(task, q, c) \subseteq At(c, "woken") /\ At(c, "asleep") = Sleepers(task, c)
    BY DEF At, Ahead, Sleepers
  <2>2. /\ IsFiniteSet(At(c, "asleep")) /\ IsFiniteSet(At(c, "woken"))
        /\ Cardinality(At(c, "asleep")) \in Nat /\ Cardinality(At(c, "woken")) \in Nat
    BY <2>1, SyncAssumption, FS_Subset, FS_CardinalityType
  <2>3. Cardinality(Ahead(task, q, c)) <= Cardinality(At(c, "woken")) BY <2>1, <2>2, FS_Subset
  <2>4. CASE At(c, "asleep") = {}
    <3>1. Cardinality(At(c, "asleep")) = 0 BY <2>4, FS_EmptySet
    <3>. QED BY <2>2, <3>1 DEF Least
  <2>5. CASE At(c, "asleep") # {}
    <3>1. n <= Cardinality(Ahead(task, q, c)) BY <1>1, <2>1, <2>5 DEF Enough
    <3>. QED BY <2>2, <2>3, <3>1, AheadFinite DEF Least
  <2>. QED BY <2>4, <2>5
<1>2. Inv => SleepersAreCovered
  <2>. SUFFICES ASSUME Inv PROVE SleepersAreCovered OBVIOUS
  <2>1. Supply \in Int /\ maxSize - Len(items) \in Int
    BY SupplyIsANumber DEF Inv, StateTypes
  <2>2. Least(Supply, Cardinality(At("take", "asleep"))) <= Cardinality(At("take", "woken"))
    BY <1>1, <2>1 DEF Inv, TakersServed
  <2>3. maxSize # 0 => Least(maxSize - Len(items), Cardinality(At("give", "asleep")))
                         <= Cardinality(At("give", "woken"))
    BY <1>1, <2>1 DEF Inv, GiversServed
  <2>. QED BY <2>2, <2>3 DEF SleepersAreCovered
<1>. QED BY <1>2, InvHolds, PTL

------------------------------------------------------------------------------
(* Queue, Semaphore and Lock take only steps of Handoff.  What Handoff says *)
(* about fairness is left to TLC.                                          *)

\* Nobody who is still in its call has anything yet.
EmptyHanded ==
  /\ DOMAIN got = Tasks
  /\ \A t \in Tasks : task[t].at \in {"idle", "asleep", "woken"} => got[t] = Nothing

\* What all steps of t have in common: the others stay in their calls, and in
\* or out of their waits.
OnlyMoves(t) ==
  \A x \in Tasks \ {t} : /\ Live(task', x) <=> Live(task, x)
                         /\ task'[x].call = task[x].call
                         /\ task'[x].at = "idle" <=> task[x].at = "idle"

LEMMA ReturnsMoves ==
  ASSUME TaskTypes, NEW t \in Tasks, NEW c \in Calls, NEW at \in {"done", "holding"},
         NEW s, t \notin s, Returns(t, c, at, s)
  PROVE  OnlyMoves(t) /\ ~Live(task', t) /\ task'[t].at = at
BY ReturnsDoes DEF OnlyMoves, Live

LEMMA WaitsMoves ==
  ASSUME TaskTypes, NEW t \in Tasks, NEW c \in Calls, Waits(t, c)
  PROVE  /\ OnlyMoves(t) /\ task'[t].call = c
         /\ task[t].cancelled => ~Live(task', t)
         /\ ~task[t].cancelled => Live(task', t)
         /\ task'[t].at \in {"asleep", "thrown"}
BY WaitsDoes DEF OnlyMoves, Live

\* Waking somebody moves nobody in or out of a wait.
LEMMA WokenMoves ==
  ASSUME TaskTypes, NEW s, task' = Woken(task, s), NEW t \in Tasks
  PROVE  OnlyMoves(t) /\ (Live(task', t) <=> Live(task, t)) /\ task'[t].call = task[t].call
         /\ (task'[t].at = "idle" <=> task[t].at = "idle")
<1>1. \A x \in Tasks :
         /\ task'[x].call = task[x].call
         /\ task'[x].at = IF x \in s /\ task[x].at = "asleep" THEN "woken" ELSE task[x].at
  BY WokenDoes DEF TaskTypes
<1>. QED BY <1>1 DEF OnlyMoves, Live

\* t ends its wait, or has none: it goes from the sets of Handoff.
LEMMA GoneFromHandoff ==
  ASSUME NEW t \in Tasks, OnlyMoves(t), ~Live(task', t), UNCHANGED kind
  PROVE  /\ Wanting' = Wanting \ {t}
         /\ Offering' = Offering \ {<<t, t>>}
         /\ Offering' = {o \in Offering : o[1] # t}
<1>1. Wanting' = Wanting \ {t} BY DEF OnlyMoves, Wanting, Shared, Alive, Live
<1>2. Offering' = Offering \ {<<t, t>>} BY DEF OnlyMoves, Offering, Alive, Live
<1>3. Offering \ {<<t, t>>} = {o \in Offering : o[1] # t} BY DEF Offering
<1>. QED BY <1>1, <1>2, <1>3

\* t waits in the same call before and after, or never.
LEMMA StaysInHandoff ==
  ASSUME NEW t \in Tasks, OnlyMoves(t), Live(task', t) <=> Live(task, t),
         Live(task, t) => task'[t].call = task[t].call, UNCHANGED kind
  PROVE  Wanting' = Wanting /\ Offering' = Offering
<1>1. Wanting' = Wanting BY DEF OnlyMoves, Wanting, Shared, Alive, Live
<1>2. Offering' = Offering BY DEF OnlyMoves, Offering, Alive, Live
<1>. QED BY <1>1, <1>2

\* What is not waiting in a call is not in its set.
LEMMA NotInHandoff ==
  ASSUME NEW t \in Tasks
  PROVE  /\ ~Live(task, t) \/ task[t].call # "take" => t \notin Wanting /\ Wanting \ {t} = Wanting
         /\ ~Live(task, t) \/ task[t].call # "give" =>
              <<t, t>> \notin Offering /\ Offering \ {<<t, t>>} = Offering
BY DEF Wanting, Offering, Alive, Live

\* Buffers of permits.
LEMMA PermitBuffer ==
  ASSUME NEW n \in Nat
  PROVE  LET b(k) == [i \in 1..k |-> Permit]
         IN /\ b(n) \in Seq({Permit}) /\ Len(b(n)) = n
            /\ n > 0 => b(n) # <<>> /\ Head(b(n)) = Permit /\ Tail(b(n)) = b(n - 1)
            /\ n = 0 => b(n) = <<>>
            /\ b(n) \o <<Permit>> = b(n + 1) /\ b(n) \o <<Permit, Permit>> = b(n + 2)
<1>1. [i \in 1..n |-> Permit] \in Seq({Permit}) /\ Len([i \in 1..n |-> Permit]) = n OBVIOUS
<1>2. n > 0 => Head([i \in 1..n |-> Permit]) = Permit
               /\ Tail([i \in 1..n |-> Permit]) = [i \in 1..(n - 1) |-> Permit]
               /\ [i \in 1..n |-> Permit] # <<>>
  OBVIOUS
<1>3. n = 0 => [i \in 1..n |-> Permit] = <<>> OBVIOUS
<1>4. [i \in 1..n |-> Permit] \o <<Permit>> = [i \in 1..(n + 1) |-> Permit] OBVIOUS
<1>5. [i \in 1..n |-> Permit] \o <<Permit, Permit>> = [i \in 1..(n + 2) |-> Permit] OBVIOUS
<1>. QED BY <1>1, <1>2, <1>3, <1>4, <1>5

HStep == [AsHandoff!Next]_(AsHandoff!vars)

LEMMA Stutters ==
  ASSUME UNCHANGED <<maxSize, Buffer, Wanting, Offering, got>>
  PROVE  HStep
BY DEF HStep, AsHandoff!vars

\* A put() that goes through supplies the buffer, or places what was offered.
LEMMA PutReturnsMaps ==
  ASSUME Inv, EmptyHanded, NEW t \in Tasks, Ready(t, "give"), kind = "queue", ~Full,
         items' = Append(items, t), Returns(t, "give", "done", One(takers)),
         UNCHANGED <<kind, maxSize, got>>
  PROVE  HStep /\ EmptyHanded'
<1>1. t \notin One(takers)
  <2>1. task[t].at \in {"idle", "holding"} \/ (Live(task, t) /\ task[t].call # "take")
    BY DEF Ready, Live
  <2>. QED BY <2>1, WakesOne DEF Inv, Lists, Calls
<1>2. OnlyMoves(t) /\ ~Live(task', t) /\ task'[t].at = "done" BY <1>1, ReturnsMoves DEF Inv, Calls
<1>3. Buffer = items /\ Buffer' = Append(items, t) /\ Append(items, t) = items \o <<t>>
  BY DEF Buffer, Inv, StateTypes
<1>4. maxSize = 0 \/ Len(Buffer) + 1 <= maxSize BY <1>3 DEF Full, Inv, StateTypes
<1>5. Wanting' = Wanting \ {t} /\ Offering' = Offering \ {<<t, t>>} BY <1>2, GoneFromHandoff
<1>6. Wanting \ {t} = Wanting BY NotInHandoff DEF Ready, Live
<1>9. EmptyHanded' BY <1>2 DEF EmptyHanded, OnlyMoves, Live
<1>7. CASE task[t].at = "idle"
  <2>1. Offering' = Offering BY <1>5, <1>7, NotInHandoff DEF Live
  <2>2. Len(<<t>>) = 1 OBVIOUS
  <2>3. AsHandoff!Supply(<<t>>)
    BY <1>3, <1>4, <1>5, <1>6, <2>1, <2>2 DEF AsHandoff!Supply, AsHandoff!Room
  <2>. QED BY <1>9, <2>3 DEF HStep, AsHandoff!Next
<1>8. CASE task[t].at = "woken"
  <2>1. <<t, t>> \in Offering BY <1>8 DEF Ready, Offering, Alive
  <2>2. AsHandoff!Place(t, t)
    BY <1>3, <1>4, <1>5, <1>6, <2>1 DEF AsHandoff!Place, AsHandoff!Room
  <2>. QED BY <1>9, <2>2 DEF HStep, AsHandoff!Next
<1>. QED BY <1>7, <1>8 DEF Ready

\* A get() or an acquire() that goes through takes from the buffer.
LEMMA TakeReturnsMaps ==
  ASSUME Inv, EmptyHanded, NEW t \in Tasks, Ready(t, "take"), OnlyMoves(t), ~Live(task', t),
         task'[t].at \in {"done", "holding"},
         Buffer # <<>>, Buffer' = Tail(Buffer), got' = [got EXCEPT ![t] = Head(Buffer)],
         UNCHANGED <<kind, maxSize>>
  PROVE  HStep /\ EmptyHanded'
<1>1. Wanting' = Wanting \ {t} /\ Offering' = Offering \ {<<t, t>>} BY GoneFromHandoff
<1>2. Offering \ {<<t, t>>} = Offering BY NotInHandoff DEF Ready, Live
<1>3. got[t] = Nothing BY DEF EmptyHanded, Ready
<1>4. AsHandoff!Take(t) BY <1>1, <1>2, <1>3 DEF AsHandoff!Take
<1>5. HStep BY <1>4 DEF HStep, AsHandoff!Next
<1>6. EmptyHanded' BY DEF EmptyHanded, OnlyMoves, Live
<1>. QED BY <1>5, <1>6

LEMMA GetReturnsMaps ==
  ASSUME Inv, EmptyHanded, NEW t \in Tasks, Ready(t, "take"), kind = "queue", items # <<>>,
         items' = Tail(items), got' = [got EXCEPT ![t] = Head(items)],
         Returns(t, "take", "done", One(givers)), UNCHANGED <<kind, maxSize>>
  PROVE  HStep /\ EmptyHanded'
<1>1. t \notin One(givers)
  <2>1. task[t].at \in {"idle", "holding"} \/ (Live(task, t) /\ task[t].call # "give")
    BY DEF Ready, Live
  <2>. QED BY <2>1, WakesOne DEF Inv, Lists, Calls
<1>2. OnlyMoves(t) /\ ~Live(task', t) /\ task'[t].at = "done" BY <1>1, ReturnsMoves DEF Inv, Calls
<1>3. Buffer = items /\ Buffer' = items' BY DEF Buffer
<1>. QED BY <1>2, <1>3, TakeReturnsMaps

LEMMA AcquireReturnsMaps ==
  ASSUME Inv, EmptyHanded, NEW t \in Tasks, Ready(t, "take"), Counts, permits > 0,
         permits' = permits - 1, got' = [got EXCEPT ![t] = Permit],
         Returns(t, "take", "holding", {}), UNCHANGED <<kind, maxSize>>
  PROVE  HStep /\ EmptyHanded'
<1>1. OnlyMoves(t) /\ ~Live(task', t) /\ task'[t].at = "holding" BY ReturnsMoves DEF Inv, Calls
<1>2. permits \in Nat /\ kind # "queue" BY DEF Inv, StateTypes, Counts
<1>3. Buffer = [i \in 1..permits |-> Permit] /\ Buffer' = [i \in 1..(permits - 1) |-> Permit]
  BY <1>2 DEF Buffer
<1>4. Buffer # <<>> /\ Head(Buffer) = Permit /\ Buffer' = Tail(Buffer)
  BY <1>2, <1>3, PermitBuffer
<1>. QED BY <1>1, <1>4, TakeReturnsMaps

\* A taker that finds nothing wants something, goes on wanting it, or withdraws.
LEMMA TakeWaitsMaps ==
  ASSUME Inv, EmptyHanded, NEW t \in Tasks, Ready(t, "take"), Shared, Buffer = <<>>, Waits(t, "take"),
         UNCHANGED <<kind, maxSize, Buffer, got>>
  PROVE  HStep /\ EmptyHanded'
<1>1. /\ OnlyMoves(t) /\ task'[t].call = "take"
      /\ task[t].cancelled => ~Live(task', t)
      /\ ~task[t].cancelled => Live(task', t)
      /\ task'[t].at \in {"asleep", "thrown"}
  BY WaitsMoves DEF Inv, Calls
<1>2. EmptyHanded' BY <1>1 DEF EmptyHanded, OnlyMoves, Live, Ready
<1>3. CASE task[t].at = "idle" /\ task[t].cancelled
  <2>1. Wanting' = Wanting /\ Offering' = Offering BY <1>1, <1>3, StaysInHandoff DEF Live
  <2>. QED BY <1>2, <2>1, Stutters
<1>4. CASE task[t].at = "idle" /\ ~task[t].cancelled
  <2>1. Wanting' = Wanting \cup {t} /\ t \notin Wanting
    BY <1>1, <1>4 DEF OnlyMoves, Wanting, Shared, Alive, Live
  <2>2. Offering' = Offering BY <1>1, <1>4 DEF OnlyMoves, Offering, Alive, Live
  <2>3. AsHandoff!Want(t) BY <2>1, <2>2 DEF AsHandoff!Want
  <2>. QED BY <1>2, <2>3 DEF HStep, AsHandoff!Next
<1>5. CASE task[t].at = "woken" /\ task[t].call = "take" /\ task[t].cancelled
  <2>1. Wanting' = Wanting \ {t} /\ Offering' = {o \in Offering : o[1] # t}
    BY <1>1, <1>5, GoneFromHandoff
  <2>2. t \in Wanting BY <1>5 DEF Wanting, Alive
  <2>3. AsHandoff!Withdraw(t) BY <2>1, <2>2 DEF AsHandoff!Withdraw
  <2>. QED BY <1>2, <2>3 DEF HStep, AsHandoff!Next
<1>6. CASE task[t].at = "woken" /\ task[t].call = "take" /\ ~task[t].cancelled
  <2>1. Wanting' = Wanting /\ Offering' = Offering BY <1>1, <1>6, StaysInHandoff DEF Live
  <2>. QED BY <1>2, <2>1, Stutters
<1>. QED BY <1>3, <1>4, <1>5, <1>6 DEF Ready

\* A put() that finds no room, likewise.
LEMMA GiveWaitsMaps ==
  ASSUME Inv, EmptyHanded, NEW t \in Tasks, Ready(t, "give"), kind = "queue", Full, Waits(t, "give"),
         UNCHANGED <<kind, maxSize, items, permits, got>>
  PROVE  HStep /\ EmptyHanded'
<1>1. /\ OnlyMoves(t) /\ task'[t].call = "give"
      /\ task[t].cancelled => ~Live(task', t)
      /\ ~task[t].cancelled => Live(task', t)
      /\ task'[t].at \in {"asleep", "thrown"}
  BY WaitsMoves DEF Inv, Calls
<1>2. EmptyHanded' BY <1>1 DEF EmptyHanded, OnlyMoves, Live, Ready
<1>0. Buffer' = Buffer /\ Buffer = items BY DEF Buffer
<1>3. CASE task[t].at = "idle" /\ task[t].cancelled
  <2>1. Wanting' = Wanting /\ Offering' = Offering BY <1>1, <1>3, StaysInHandoff DEF Live
  <2>. QED BY <1>0, <1>2, <2>1, Stutters
<1>4. CASE task[t].at = "idle" /\ ~task[t].cancelled
  <2>1. Wanting' = Wanting BY <1>1, <1>4 DEF OnlyMoves, Wanting, Shared, Alive, Live
  <2>2. Offering' = Offering \cup {<<t, t>>} /\ <<t, t>> \notin Offering
    BY <1>1, <1>4 DEF OnlyMoves, Offering, Alive, Live
  <2>3. ~(maxSize = 0 \/ Len(Buffer) + 1 <= maxSize) BY <1>0 DEF Full, Inv, StateTypes
  <2>4. AsHandoff!Offer(t, t) BY <1>0, <2>1, <2>2, <2>3 DEF AsHandoff!Offer, AsHandoff!Room
  <2>. QED BY <1>2, <2>4 DEF HStep, AsHandoff!Next
<1>5. CASE task[t].at = "woken" /\ task[t].call = "give" /\ task[t].cancelled
  <2>1. Wanting' = Wanting \ {t} /\ Offering' = {o \in Offering : o[1] # t}
    BY <1>1, <1>5, GoneFromHandoff
  <2>2. <<t, t>> \in Offering BY <1>5 DEF Offering, Alive
  <2>3. AsHandoff!Withdraw(t) BY <1>0, <2>1, <2>2 DEF AsHandoff!Withdraw
  <2>. QED BY <1>2, <2>3 DEF HStep, AsHandoff!Next
<1>6. CASE task[t].at = "woken" /\ task[t].call = "give" /\ ~task[t].cancelled
  <2>1. Wanting' = Wanting /\ Offering' = Offering BY <1>1, <1>6, StaysInHandoff DEF Live
  <2>. QED BY <1>0, <1>2, <2>1, Stutters
<1>. QED BY <1>3, <1>4, <1>5, <1>6 DEF Ready

\* release() and release(n) supply permits.
LEMMA ReleaseMaps ==
  ASSUME Inv, EmptyHanded, NEW t \in Tasks, Release(t)
  PROVE  HStep /\ EmptyHanded'
<1>. USE DEF Release
<1>1. t \notin One(takers) BY WakesOne DEF Inv, Lists, Calls
<1>2. OnlyMoves(t) /\ ~Live(task', t) /\ task'[t].at = "done" BY <1>1, ReturnsMoves DEF Inv, Calls
<1>3. Wanting' = Wanting /\ Offering' = Offering BY <1>2, StaysInHandoff DEF Live
<1>4. kind # "queue" /\ permits \in Nat /\ maxSize = 0 BY DEF Counts, Inv, StateTypes
<1>5. Buffer' = Buffer \o <<Permit>> BY <1>4, PermitBuffer DEF Buffer
<1>6. AsHandoff!Supply(<<Permit>>)
  BY <1>3, <1>4, <1>5 DEF AsHandoff!Supply, AsHandoff!Room
<1>7. HStep BY <1>6 DEF HStep, AsHandoff!Next
<1>8. EmptyHanded' BY <1>2 DEF EmptyHanded, OnlyMoves, Live
<1>. QED BY <1>7, <1>8

\* A step that only wakes tasks moves nobody.
LEMMA WakingMaps ==
  ASSUME Inv, EmptyHanded, NEW s, task' = Woken(task, s), UNCHANGED <<kind, got>>
  PROVE  Wanting' = Wanting /\ Offering' = Offering /\ EmptyHanded'
<1>1. \A t \in Tasks : /\ OnlyMoves(t) /\ (Live(task', t) <=> Live(task, t))
                       /\ task'[t].call = task[t].call
                       /\ task'[t].at = "idle" <=> task[t].at = "idle"
  BY WokenMoves DEF Inv
<1>2. Wanting' = Wanting BY <1>1 DEF Wanting, Shared, Alive, Live
<1>3. Offering' = Offering BY <1>1 DEF Offering, Alive, Live
<1>4. EmptyHanded' BY <1>1 DEF EmptyHanded, Live
<1>. QED BY <1>2, <1>3, <1>4

LEMMA ReleaseManyMaps ==
  ASSUME Inv, EmptyHanded, NEW n \in {1, 2}, ReleaseMany(n)
  PROVE  HStep /\ EmptyHanded'
<1>1. PICK s : task' = Woken(task, s) BY DEF ReleaseMany
<1>2. UNCHANGED <<kind, maxSize, got>> /\ permits' = permits + n /\ kind = "semaphore" BY DEF ReleaseMany
<1>3. Wanting' = Wanting /\ Offering' = Offering /\ EmptyHanded' BY <1>1, <1>2, WakingMaps
<1>4. permits \in Nat /\ maxSize = 0 BY <1>2 DEF Inv, StateTypes
<1>5. CASE n = 1
  <2>1. Buffer' = Buffer \o <<Permit>> BY <1>2, <1>4, <1>5, PermitBuffer DEF Buffer
  <2>2. AsHandoff!Supply(<<Permit>>)
    BY <1>2, <1>3, <1>4, <2>1 DEF AsHandoff!Supply, AsHandoff!Room
  <2>. QED BY <1>3, <2>2 DEF HStep, AsHandoff!Next
<1>6. CASE n = 2
  <2>1. Buffer' = Buffer \o <<Permit, Permit>> BY <1>2, <1>4, <1>6, PermitBuffer DEF Buffer
  <2>2. AsHandoff!Supply(<<Permit, Permit>>)
    BY <1>2, <1>3, <1>4, <2>1 DEF AsHandoff!Supply, AsHandoff!Room
  <2>. QED BY <1>3, <2>2 DEF HStep, AsHandoff!Next
<1>. QED BY <1>5, <1>6

\* An Event is not part of Handoff: its steps leave everything there alone.
LEMMA EventMaps ==
  ASSUME Inv, EmptyHanded, NEW t \in Tasks, Ready(t, "take"), WaitEvent(t)
  PROVE  HStep /\ EmptyHanded'
<1>1. UNCHANGED <<kind, maxSize, items, permits, got>> /\ kind = "event" BY DEF WaitEvent
<1>2. OnlyMoves(t) /\ task'[t].at \in {"asleep", "thrown", "done"}
      /\ (Live(task', t) => task'[t].call = "take")
  <2>1. CASE set BY <2>1, ReturnsMoves DEF WaitEvent, Inv, Calls
  <2>2. CASE ~set BY <2>2, WaitsMoves DEF WaitEvent, Inv, Calls
  <2>. QED BY <2>1, <2>2
<1>3. Wanting' = Wanting /\ Buffer' = Buffer BY <1>1 DEF Wanting, Shared, Buffer
<1>4. Offering' = Offering BY <1>2 DEF OnlyMoves, Offering, Alive, Live, Ready
<1>5. EmptyHanded' BY <1>1, <1>2 DEF EmptyHanded, OnlyMoves, Live, Ready
<1>. QED BY <1>1, <1>3, <1>4, <1>5, Stutters

LEMMA CancelMaps ==
  ASSUME Inv, EmptyHanded, NEW t \in Tasks, Cancel(t)
  PROVE  HStep /\ EmptyHanded'
<1>. DEFINE w == [task[t] EXCEPT !.at = "woken", !.cancelled = TRUE]
<1>1. task[t] \in TaskRecord /\ task \in [Tasks -> TaskRecord] BY DEF Inv, TaskTypes
<1>2. w.at = "woken" /\ w.call = task[t].call BY <1>1 DEF TaskRecord
<1>3. task' = [task EXCEPT ![t] = w] /\ UNCHANGED <<kind, maxSize, items, permits, got>> /\ Live(task, t)
  BY DEF Cancel, Alive, Live
<1>. HIDE DEF w
<1>4. task'[t].at = "woken" /\ task'[t].call = task[t].call /\ \A x \in Tasks \ {t} : task'[x] = task[x]
  BY <1>1, <1>2, <1>3
<1>5. OnlyMoves(t) BY <1>4 DEF OnlyMoves, Live
<1>6. Wanting' = Wanting /\ Offering' = Offering BY <1>3, <1>4, <1>5, StaysInHandoff DEF Live
<1>7. Buffer' = Buffer BY <1>3 DEF Buffer
<1>8. EmptyHanded' BY <1>3, <1>4, <1>5 DEF EmptyHanded, OnlyMoves, Live
<1>. QED BY <1>3, <1>6, <1>7, <1>8, Stutters

LEMMA RoundMaps ==
  ASSUME Inv, EmptyHanded, NEW t \in Tasks,
         \/ Ready(t, "give") /\ (Put(t) \/ TryPut(t))
         \/ Ready(t, "take") /\ (Get(t) \/ TryGet(t) \/ Acquire(t) \/ TryAcquire(t) \/ WaitEvent(t))
  PROVE  HStep /\ EmptyHanded'
<1>1. CASE Ready(t, "give") /\ (Put(t) \/ TryPut(t))
  BY <1>1, PutReturnsMaps, GiveWaitsMaps DEF Put, TryPut
<1>2. CASE Ready(t, "take") /\ (Get(t) \/ TryGet(t))
  <2>1. CASE items # <<>> BY <1>2, <2>1, GetReturnsMaps DEF Get, TryGet
  <2>2. CASE items = <<>>
    <3>1. Shared /\ Buffer = <<>> /\ Buffer' = Buffer
      BY <1>2, <2>2 DEF Shared, Buffer, Get, TryGet
    <3>. QED BY <1>2, <2>2, <3>1, TakeWaitsMaps DEF Get, TryGet
  <2>. QED BY <2>1, <2>2
<1>3. CASE Ready(t, "take") /\ (Acquire(t) \/ TryAcquire(t))
  <2>1. CASE permits > 0 BY <1>3, <2>1, AcquireReturnsMaps DEF Acquire, TryAcquire
  <2>2. CASE ~(permits > 0)
    <3>1. Acquire(t) /\ permits = 0 /\ UNCHANGED permits BY <1>3, <2>2 DEF Acquire, TryAcquire
    <3>2. Shared /\ Buffer' = Buffer BY <3>1 DEF Acquire, Shared, Counts, Buffer
    <3>3. Buffer = <<>>
      <4>1. Buffer = [i \in 1..permits |-> Permit] BY <3>1 DEF Acquire, Counts, Buffer
      <4>. QED BY <3>1, <4>1, PermitBuffer
    <3>. QED BY <1>3, <2>2, <3>1, <3>2, <3>3, TakeWaitsMaps DEF Acquire
  <2>. QED BY <2>1, <2>2
<1>4. CASE Ready(t, "take") /\ WaitEvent(t) BY <1>4, EventMaps
<1>. QED BY <1>1, <1>2, <1>3, <1>4

LEMMA NextMaps ==
  ASSUME Inv, EmptyHanded, [Next]_vars
  PROVE  HStep /\ EmptyHanded'
<1>1. ASSUME NEW t \in Tasks, Call(t) PROVE HStep /\ EmptyHanded'
  <2>1. Ready(t, "take") /\ Ready(t, "give") BY <1>1 DEF Call, Ready
  <2>. QED BY <1>1, <2>1, RoundMaps DEF Call
<1>2. ASSUME NEW t \in Tasks, Resume(t) PROVE HStep /\ EmptyHanded'
  BY <1>2, RoundMaps DEF Resume, Ready
<1>3. CASE SetEvent
  <2>1. task' = Woken(task, {takers[i] : i \in DOMAIN takers})
        /\ UNCHANGED <<kind, maxSize, items, permits, got>>
    BY <1>3 DEF SetEvent
  <2>2. Wanting' = Wanting /\ Offering' = Offering /\ EmptyHanded' BY <2>1, WakingMaps
  <2>3. Buffer' = Buffer BY <2>1 DEF Buffer
  <2>. QED BY <2>1, <2>2, <2>3, Stutters
<1>4. CASE ClearEvent \/ Quiet \/ UNCHANGED vars
  <2>1. UNCHANGED <<kind, maxSize, items, permits, task, got>>
    BY <1>4 DEF ClearEvent, Quiet, vars
  <2>2. Wanting' = Wanting /\ Offering' = Offering /\ Buffer' = Buffer
    BY <2>1 DEF Wanting, Shared, Offering, Alive, Buffer
  <2>3. EmptyHanded' BY <2>1 DEF EmptyHanded
  <2>. QED BY <2>1, <2>2, <2>3, Stutters
<1>. QED BY <1>1, <1>2, <1>3, <1>4, CancelMaps, ReleaseMaps, ReleaseManyMaps DEF Next

LEMMA InitMaps == Init => AsHandoff!Init /\ EmptyHanded
<1>. SUFFICES ASSUME Init PROVE AsHandoff!Init /\ EmptyHanded OBVIOUS
<1>1. \A t \in Tasks : task[t].at = "idle" BY DEF Init
<1>2. Wanting = {} /\ Offering = {} BY <1>1 DEF Wanting, Offering, Alive
<1>3. StateTypes BY InitInv DEF Inv
<1>4. Buffer \in Seq(Tasks \cup {Permit})
  <2>1. CASE kind = "queue" BY <1>3, <2>1 DEF StateTypes, Buffer
  <2>2. CASE kind # "queue" BY <1>3, <2>2 DEF StateTypes, Buffer
  <2>. QED BY <2>1, <2>2
<1>5. AsHandoff!Init BY <1>2, <1>3, <1>4 DEF AsHandoff!Init, Init, StateTypes
<1>. QED BY <1>5 DEF EmptyHanded, Init

\* Every step of a Queue, a Semaphore or a Lock is a step of Handoff or leaves
\* it alone: items come out once and in order, a limit is kept, a permit is
\* taken by one task only, and a cancelled call takes nothing along.
THEOREM StepsOfHandoff == Spec => AsHandoff!Init /\ [][AsHandoff!Next]_(AsHandoff!vars)
<1>1. Inv /\ EmptyHanded /\ [Next]_vars => HStep /\ EmptyHanded' BY NextMaps
<1>. QED BY <1>1, InitMaps, InvHolds, PTL DEF Spec, HStep
=============================================================================
