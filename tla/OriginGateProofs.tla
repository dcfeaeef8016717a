-------------------------- MODULE OriginGateProofs ---------------------------
(***************************************************************************)
(* Proofs about OriginGate, for any number of requests, gates, policies    *)
(* and limits, with retries and cancellations wherever the code allows.    *)
(*                                                                         *)
(* Inv says what the fields of a request mean at each place of its code    *)
(* (Places), that a gate is protected from eviction for as long as it      *)
(* detects (Protected), and that a detection has somebody who owes it an   *)
(* end (Owed).  That nobody sleeps through that end (Waiting) needs the    *)
(* thread to resume a request before it does anything else, ~Gap.          *)
(***************************************************************************)
EXTENDS OriginGate, TLAPS

Pcs == {"idle", "over", "route", "entering", "UseH1", "UseH2", "Overflow", "Wait", "Detect", "asleep",
        "h1", "h2", "mark", "markOwn", "setH1", "probe", "record", "setH2", "cancelled"}

Whys == {"none", "cached", "detect", "preferH2", "preferH1", "force"}

Protocols == {"Unknown", "Detecting", "H1Only", "H2Available", "H2FailedRecently"}

ReqRecord == [pc : Pcs, why : Whys, gate : 0..MaxGates, marks : 0..MaxGates, probed : BOOLEAN]

GateRecord == [protocol : Protocols, retryDue : BOOLEAN, waiters : SUBSET Requests,
               sawH2 : BOOLEAN, evictionBlocked : BOOLEAN]

ReqTypes == req \in [Requests -> ReqRecord]

GateTypes == gate \in [1..MaxGates -> GateRecord]

\* The next gate can be made whenever the origin has none.
Entries ==
  /\ created \in 0..MaxGates /\ current \in 0..created
  /\ current = 0 => created < MaxGates

\* Where a request has a gate of its own, and which one it marks.
OwnsGate == {"entering", "UseH1", "UseH2", "Overflow", "Wait", "Detect", "asleep",
             "markOwn", "setH1", "probe", "record", "setH2"}

Places ==
  \A r \in Requests :
    /\ req[r].pc \in OwnsGate \/ req[r].why \in {"detect", "preferH2"} => req[r].gate \in 1..created
    /\ req[r].pc = "mark" => req[r].marks \in 1..created
    /\ req[r].probed => req[r].pc \in {"record", "setH2", "h2", "mark", "cancelled"}

\* A gate that detects exists, and its entry is not evicted.
Protected ==
  \A g \in 1..MaxGates :
    gate[g].protocol = "Detecting" => g <= created /\ gate[g].evictionBlocked

\* r is going to settle g, or was cancelled when it was.
Owes(r, g) ==
  \/ Detects(r, g)
  \/ req[r].pc = "cancelled" /\ req[r].why = "detect" /\ req[r].gate = g

Owed ==
  \A g \in 1..MaxGates : gate[g].protocol = "Detecting" => \E r \in Requests : Owes(r, g)

Inv == ReqTypes /\ GateTypes /\ Entries /\ Places /\ Protected /\ Owed

\* Who was told to wait is in the list of a gate that detects.
Waiting ==
  \A r \in Requests : req[r].pc \in {"Wait", "asleep"} =>
    /\ r \in gate[req[r].gate].waiters
    /\ gate[req[r].gate].protocol = "Detecting"

------------------------------------------------------------------------------
(* What the steps are made of.                                             *)

\* The gate of the origin, whether it was there or is made.
LEMMA TheGateExists ==
  ASSUME Entries, GetGate
  PROVE  /\ TheGate \in 1..created' /\ TheGate \in 1..MaxGates /\ Entries'
         /\ created \in Nat /\ created' \in Nat /\ created <= created'
BY GateAssumption DEF Entries, GetGate, TheGate

\* One request goes from its place to v.
LEMMA OneMoves ==
  ASSUME ReqTypes, NEW r \in Requests, NEW v \in ReqRecord, req' = [req EXCEPT ![r] = v]
  PROVE  ReqTypes' /\ req'[r] = v /\ \A q \in Requests \ {r} : req'[q] = req[q]
BY DEF ReqTypes

LEMMA EndedRecord ==
  /\ Ended \in ReqRecord /\ Ended.pc \in {"idle", "over"} /\ Ended.why = "none" /\ Ended.probed = FALSE
<1>1. Idle \in ReqRecord BY GateAssumption DEF Idle, ReqRecord, Pcs, Whys
<1>2. [Idle EXCEPT !.pc = "over"] \in ReqRecord BY <1>1 DEF ReqRecord, Pcs
<1>. QED BY <1>1, <1>2 DEF Ended, Idle

\* set_protocol and mark_h2_failed.
LEMMA SettledDoes ==
  ASSUME GateTypes, NEW g \in 1..MaxGates, NEW p \in Protocols, gate' = Settled(g, p)
  PROVE  /\ GateTypes' /\ gate'[g].protocol = p /\ gate'[g].retryDue = FALSE
         /\ \A h \in 1..MaxGates \ {g} : gate'[h] = gate[h]
<1>. DEFINE v == [gate[g] EXCEPT !.protocol = p, !.retryDue = FALSE,
                                 !.waiters = {}, !.evictionBlocked = FALSE]
<1>1. gate[g] \in GateRecord BY DEF GateTypes
<1>2. v \in GateRecord /\ v.protocol = p /\ v.retryDue = FALSE BY <1>1 DEF GateRecord
<1>3. gate' = [gate EXCEPT ![g] = v] BY DEF Settled
<1>. HIDE DEF v
<1>. QED BY <1>2, <1>3 DEF GateTypes

\* notify_waiters.
LEMMA NotifiedDoes ==
  ASSUME ReqTypes, NEW g, NEW f, f = Notified(g)
  PROVE  /\ f \in [Requests -> ReqRecord]
         /\ \A q \in Requests :
              \/ f[q] = req[q] /\ ~(q \in gate[g].waiters /\ req[q].pc = "asleep")
              \/ /\ req[q].pc = "asleep" /\ f[q].pc = "route" /\ f[q].why = req[q].why
                 /\ f[q].gate = req[q].gate /\ f[q].probed = req[q].probed
<1>1. ASSUME NEW q \in Requests
      PROVE  /\ [req[q] EXCEPT !.pc = "route"] \in ReqRecord
             /\ [req[q] EXCEPT !.pc = "route"].pc = "route"
             /\ [req[q] EXCEPT !.pc = "route"].why = req[q].why
             /\ [req[q] EXCEPT !.pc = "route"].gate = req[q].gate
             /\ [req[q] EXCEPT !.pc = "route"].probed = req[q].probed
  <2>1. req[q] \in ReqRecord BY DEF ReqTypes
  <2>. QED BY <2>1 DEF ReqRecord, Pcs
<1>2. f \in [Requests -> ReqRecord] BY <1>1 DEF Notified, ReqTypes
<1>3. ASSUME NEW q \in Requests
      PROVE  \/ f[q] = req[q] /\ ~(q \in gate[g].waiters /\ req[q].pc = "asleep")
             \/ /\ req[q].pc = "asleep" /\ f[q].pc = "route" /\ f[q].why = req[q].why
                /\ f[q].gate = req[q].gate /\ f[q].probed = req[q].probed
  <2>1. CASE q \in gate[g].waiters /\ req[q].pc = "asleep"
    <3>1. f[q] = [req[q] EXCEPT !.pc = "route"] BY <2>1 DEF Notified
    <3>. QED BY <1>1, <2>1, <3>1
  <2>2. CASE ~(q \in gate[g].waiters /\ req[q].pc = "asleep") BY <2>2 DEF Notified
  <2>. QED BY <2>1, <2>2
<1>. QED BY <1>2, <1>3

\* What enter() answers, and what it leaves in the gate.
LEMMA DecisionCases ==
  ASSUME GateTypes, NEW g \in 1..MaxGates
  PROVE  \/ Decision(g) = "UseH2" /\ gate[g].protocol = "H2Available"
         \/ Decision(g) = "Detect" /\ Undecided(g)
         \/ Decision(g) \in {"Overflow", "Wait"} /\ gate[g].protocol = "Detecting"
         \/ Decision(g) = "UseH1" /\ gate[g].protocol # "Detecting" /\ ~Undecided(g)
<1>1. CASE gate[g].protocol = "H2Available" BY <1>1 DEF Decision, Undecided
<1>2. CASE Undecided(g) BY <1>2 DEF Decision, Undecided
<1>3. CASE gate[g].protocol = "Detecting" BY <1>3 DEF Decision, Undecided
<1>4. CASE gate[g].protocol \notin {"H2Available", "Detecting"} /\ ~Undecided(g)
  BY <1>4 DEF Decision
<1>. QED BY <1>1, <1>2, <1>3, <1>4

LEMMA EnteredDoes ==
  ASSUME GateTypes, NEW g \in 1..MaxGates, NEW r \in Requests, gate' = Entered(r, g)
  PROVE  /\ GateTypes' /\ \A h \in 1..MaxGates \ {g} : gate'[h] = gate[h]
         /\ gate[g].waiters \subseteq gate'[g].waiters
         /\ gate'[g].retryDue = gate[g].retryDue
         /\ Decision(g) = "Detect" => gate'[g].protocol = "Detecting" /\ gate'[g].evictionBlocked
         /\ Decision(g) = "Wait" => r \in gate'[g].waiters
         /\ Decision(g) # "Detect" =>
              gate'[g].protocol = gate[g].protocol /\ gate'[g].evictionBlocked = gate[g].evictionBlocked
<1>0. gate[g] \in GateRecord BY DEF GateTypes
<1>1. CASE Decision(g) = "Detect"
  <2>. DEFINE v == [gate[g] EXCEPT !.protocol = "Detecting", !.evictionBlocked = TRUE]
  <2>1. /\ v \in GateRecord /\ v.protocol = "Detecting" /\ v.evictionBlocked
        /\ v.waiters = gate[g].waiters /\ v.retryDue = gate[g].retryDue
    BY <1>0 DEF GateRecord, Protocols
  <2>2. gate' = [gate EXCEPT ![g] = v] BY <1>1 DEF Entered
  <2>. HIDE DEF v
  <2>. QED BY <1>1, <2>1, <2>2 DEF GateTypes
<1>2. CASE Decision(g) = "Wait"
  <2>. DEFINE v == [gate[g] EXCEPT !.waiters = @ \cup {r}]
  <2>1. /\ v \in GateRecord /\ v.protocol = gate[g].protocol /\ v.evictionBlocked = gate[g].evictionBlocked
        /\ v.waiters = gate[g].waiters \cup {r} /\ v.retryDue = gate[g].retryDue
    BY <1>0 DEF GateRecord
  <2>2. gate' = [gate EXCEPT ![g] = v] BY <1>2 DEF Entered
  <2>. HIDE DEF v
  <2>. QED BY <1>2, <2>1, <2>2 DEF GateTypes
<1>3. CASE Decision(g) \notin {"Detect", "Wait"}
  <2>1. gate' = gate BY <1>3 DEF Entered
  <2>. QED BY <1>3, <2>1 DEF GateTypes
<1>. QED BY <1>1, <1>2, <1>3

------------------------------------------------------------------------------
(* The kinds of steps.                                                     *)

\* What Places asks of one request.
InPlace(v, n) ==
  /\ v.pc \in OwnsGate \/ v.why \in {"detect", "preferH2"} => v.gate \in 1..n
  /\ v.pc = "mark" => v.marks \in 1..n
  /\ v.probed => v.pc \in {"record", "setH2", "h2", "mark", "cancelled"}

LEMMA PlacesOfOne == ASSUME Places, NEW r \in Requests PROVE InPlace(req[r], created)
BY DEF Places, InPlace

\* The gates keep what they are and whom they hold.
GatesKept ==
  \A g \in 1..MaxGates : /\ gate'[g].protocol = gate[g].protocol
                         /\ gate'[g].waiters = gate[g].waiters
                         /\ gate'[g].evictionBlocked = gate[g].evictionBlocked

\* A request that owes a gate its end goes on owing it in v.
StillOwes(r, v) ==
  \A g \in 1..MaxGates : Owes(r, g) =>
    /\ v.gate = g
    /\ \/ v.pc = "Detect"
       \/ v.why = "detect" /\ ~v.probed /\ v.pc \in {"h2", "mark", "setH1", "record", "setH2"}
       \/ v.pc = "cancelled" /\ v.why = "detect"

\* Nobody has been told to wait and not started to.
NobodyTold == \A q \in Requests : req[q].pc # "Wait"

\* r goes to v and leaves the gates alone.
LEMMA LocalStep ==
  ASSUME Inv, NEW r \in Requests, NEW v \in ReqRecord, req' = [req EXCEPT ![r] = v],
         GateTypes', GatesKept, Entries', created <= created', InPlace(v, created'), StillOwes(r, v),
         v.pc \in {"Wait", "asleep"} => req[r].pc \in {"Wait", "asleep"} /\ v.gate = req[r].gate
  PROVE  Inv' /\ (Waiting => Waiting')
<1>. USE DEF Inv
<1>1. ReqTypes' /\ req'[r] = v /\ \A q \in Requests \ {r} : req'[q] = req[q] BY OneMoves
<1>2. created \in Nat /\ created' \in Nat /\ created' <= MaxGates /\ MaxGates \in Nat
  BY GateAssumption DEF Entries
<1>3. Places' BY <1>1, <1>2 DEF Places, InPlace
<1>4. Protected' BY <1>2 DEF Protected, GatesKept
<1>5. Owed'
  <2>. SUFFICES ASSUME NEW g \in 1..MaxGates, gate'[g].protocol = "Detecting"
                PROVE  \E q \in Requests : Owes(q, g)'
    BY <1>2 DEF Owed
  <2>1. PICK q \in Requests : Owes(q, g) BY DEF Owed, GatesKept
  <2>2. CASE q = r BY <1>1, <2>1, <2>2 DEF StillOwes, Owes, Detects
  <2>3. CASE q # r BY <1>1, <2>1, <2>3 DEF Owes, Detects
  <2>. QED BY <2>2, <2>3
<1>6. ASSUME Waiting PROVE Waiting'
  <2>. SUFFICES ASSUME NEW q \in Requests, req'[q].pc \in {"Wait", "asleep"}
                PROVE  q \in gate'[req'[q].gate].waiters /\ gate'[req'[q].gate].protocol = "Detecting"
    BY DEF Waiting
  <2>1. req[q].pc \in {"Wait", "asleep"} /\ req'[q].gate = req[q].gate BY <1>1
  <2>2. req[q].gate \in 1..MaxGates BY <1>2, <2>1 DEF Places, OwnsGate
  <2>. QED BY <1>6, <2>1, <2>2 DEF Waiting, GatesKept
<1>. QED BY <1>1, <1>3, <1>4, <1>5, <1>6

\* r settles g, wakes its waiters and goes to v.
LEMMA SettlingStep ==
  ASSUME Inv, NEW r \in Requests, NEW v \in ReqRecord, NEW g \in 1..MaxGates,
         NEW p \in Protocols \ {"Detecting"}, gate' = Settled(g, p),
         NEW f, f = Notified(g), req' = [f EXCEPT ![r] = v], UNCHANGED <<created, current>>,
         InPlace(v, created), StillOwes(r, v) \/ req[r].gate = g, v.pc \notin {"Wait", "asleep"}
  PROVE  Inv' /\ (Waiting /\ NobodyTold => Waiting')
<1>. USE DEF Inv
<1>1. /\ ReqTypes' /\ req'[r] = v
      /\ \A q \in Requests \ {r} :
              \/ req'[q] = req[q] /\ ~(q \in gate[g].waiters /\ req[q].pc = "asleep")
              \/ /\ req[q].pc = "asleep" /\ req'[q].pc = "route" /\ req'[q].why = req[q].why
                 /\ req'[q].gate = req[q].gate /\ req'[q].probed = req[q].probed
  <2>1. /\ f \in [Requests -> ReqRecord]
        /\ \A q \in Requests :
              \/ f[q] = req[q] /\ ~(q \in gate[g].waiters /\ req[q].pc = "asleep")
              \/ /\ req[q].pc = "asleep" /\ f[q].pc = "route" /\ f[q].why = req[q].why
                 /\ f[q].gate = req[q].gate /\ f[q].probed = req[q].probed
    BY NotifiedDoes
  <2>. QED BY <2>1 DEF ReqTypes
<1>2. /\ GateTypes' /\ gate'[g].protocol = p
      /\ \A h \in 1..MaxGates \ {g} : gate'[h] = gate[h]
  BY SettledDoes
<1>3. Entries' BY DEF Entries
<1>4. Places' BY <1>1, PlacesOfOne DEF Places, InPlace, OwnsGate
<1>5. Protected' BY <1>2 DEF Protected
<1>6. Owed'
  <2>. SUFFICES ASSUME NEW h \in 1..MaxGates, gate'[h].protocol = "Detecting"
                PROVE  \E q \in Requests : Owes(q, h)'
    BY DEF Owed
  <2>1. h # g /\ gate'[h] = gate[h] BY <1>2
  <2>2. PICK q \in Requests : Owes(q, h) BY <2>1 DEF Owed
  <2>3. CASE q = r
    <3>1. StillOwes(r, v) BY <2>1, <2>2, <2>3 DEF Owes, Detects
    <3>. QED BY <1>1, <2>2, <2>3, <3>1 DEF StillOwes, Owes, Detects
  <2>4. CASE q # r
    <3>1. req[q].pc # "asleep" BY <2>2 DEF Owes, Detects
    <3>2. req'[q] = req[q] BY <1>1, <2>4, <3>1
    <3>. QED BY <2>2, <3>2 DEF Owes, Detects
  <2>. QED BY <2>3, <2>4
<1>7. ASSUME Waiting, NobodyTold PROVE Waiting'
  <2>. SUFFICES ASSUME NEW q \in Requests, req'[q].pc \in {"Wait", "asleep"}
                PROVE  q \in gate'[req'[q].gate].waiters /\ gate'[req'[q].gate].protocol = "Detecting"
    BY DEF Waiting
  <2>1. q # r /\ req'[q] = req[q] /\ req[q].pc = "asleep" /\ q \notin gate[g].waiters
    BY <1>1, <1>7 DEF NobodyTold
  <2>2. req[q].gate \in 1..MaxGates
    BY <2>1, GateAssumption DEF Places, OwnsGate, Entries
  <2>3. req[q].gate # g BY <1>7, <2>1 DEF Waiting
  <2>. QED BY <1>2, <1>7, <2>1, <2>2, <2>3 DEF Waiting
<1>. QED BY <1>1, <1>2, <1>3, <1>4, <1>5, <1>6, <1>7

LEMMA GatesUntouched == ASSUME Inv, UNCHANGED gate PROVE GateTypes' /\ GatesKept
BY DEF Inv, GateTypes, GatesKept

------------------------------------------------------------------------------
(* The invariant.                                                          *)

LEMMA InitInv == Init => Inv
<1>. SUFFICES ASSUME Init PROVE Inv OBVIOUS
<1>1. ReqTypes BY GateAssumption DEF Init, ReqTypes, ReqRecord, Idle, Pcs, Whys
<1>2. GateTypes BY DEF Init, GateTypes, GateRecord, FreshGate, Protocols
<1>3. Entries BY GateAssumption DEF Init, Entries
<1>4. Places BY DEF Init, Places, Idle, OwnsGate
<1>5. Protected /\ Owed BY DEF Init, Protected, Owed, FreshGate
<1>. QED BY <1>1, <1>2, <1>3, <1>4, <1>5 DEF Inv

LEMMA StartInv ==
  ASSUME Inv, NEW r \in Requests, NEW policy \in Policies, Start(r, policy)
  PROVE  Inv' /\ (Waiting => Waiting')
<1>. USE DEF Inv
<1>0. req[r] \in ReqRecord /\ InPlace(req[r], created) /\ req[r].pc = "idle" /\ ~req[r].probed
  BY PlacesOfOne DEF ReqTypes, Start, At, InPlace
<1>1. GateTypes' /\ GatesKept BY GatesUntouched DEF Start
<1>2. \A g \in 1..MaxGates : ~Owes(r, g) BY <1>0 DEF Owes, Detects
<1>3. policy \in AllPolicies BY GateAssumption
<1>4. created \in Nat BY GateAssumption DEF Entries
<1>5. ASSUME NEW pc \in {"h1", "h2", "route"}, NEW why \in {"none", "force", "preferH1", "cached"},
             NEW v, v = [req[r] EXCEPT !.pc = pc, !.why = why] \/ v = [req[r] EXCEPT !.pc = pc],
             req' = [req EXCEPT ![r] = v], UNCHANGED <<created, current>>
      PROVE  Inv' /\ (Waiting => Waiting')
  <2>1. v \in ReqRecord /\ v.pc = pc /\ v.why \in {why, req[r].why} /\ v.gate = req[r].gate /\ ~v.probed
    BY <1>0, <1>5 DEF ReqRecord, Pcs, Whys
  <2>2. InPlace(v, created') BY <1>0, <1>5, <2>1 DEF InPlace, OwnsGate
  <2>3. Entries' BY <1>5 DEF Entries
  <2>4. StillOwes(r, v) /\ created <= created' BY <1>2, <1>4, <1>5 DEF StillOwes
  <2>. QED BY <1>1, <1>5, <2>1, <2>2, <2>3, <2>4, LocalStep
<1>6. CASE policy = "ForceH1"
  <2>1. req' = [req EXCEPT ![r] = [req[r] EXCEPT !.pc = "h1"]] /\ UNCHANGED <<created, current>>
    BY <1>6 DEF Start, Goto
  <2>. QED BY <1>5, <2>1
<1>7. CASE policy = "ForceH2"
  <2>1. req' = [req EXCEPT ![r] = [req[r] EXCEPT !.pc = "h2", !.why = "force"]]
        /\ UNCHANGED <<created, current>>
    BY <1>7 DEF Start
  <2>. QED BY <1>5, <2>1
<1>8. CASE policy = "PreferH1"
  <2>1. req' = [req EXCEPT ![r] = [req[r] EXCEPT !.pc = "h1", !.why = "preferH1"]]
        /\ UNCHANGED <<created, current>>
    BY <1>8 DEF Start
  <2>. QED BY <1>5, <2>1
<1>9. CASE policy = "Auto"
  <2>1. req' = [req EXCEPT ![r] = [req[r] EXCEPT !.pc = "route"]] /\ UNCHANGED <<created, current>>
    BY <1>9 DEF Start, Goto
  <2>. QED BY <1>5, <2>1
<1>10. CASE policy = "PreferH2"
  <2>. DEFINE v == [req[r] EXCEPT !.pc = "h2", !.why = "preferH2", !.gate = TheGate]
  <2>1. GetGate /\ req' = [req EXCEPT ![r] = v] BY <1>10 DEF Start
  <2>2. TheGate \in 1..created' /\ TheGate \in 1..MaxGates /\ Entries' /\ created <= created'
    BY <2>1, TheGateExists
  <2>3. v \in ReqRecord /\ v.pc = "h2" /\ v.gate = TheGate /\ v.probed = req[r].probed
    <3>1. TheGate \in 0..MaxGates BY <2>2, GateAssumption
    <3>. QED BY <1>0, <3>1 DEF ReqRecord, Pcs, Whys
  <2>. HIDE DEF v
  <2>4. InPlace(v, created') BY <1>0, <2>2, <2>3 DEF InPlace, OwnsGate
  <2>. QED BY <1>1, <1>2, <2>1, <2>2, <2>3, <2>4, LocalStep DEF StillOwes
<1>. QED BY <1>3, <1>6, <1>7, <1>8, <1>9, <1>10 DEF AllPolicies

\* r goes on to another place of its code, with everything else as it was.
LEMMA GotoInv ==
  ASSUME Inv, NEW r \in Requests, NEW pc \in Pcs, Goto(r, pc),
         UNCHANGED <<gate, created, current>>, req[r].pc # "cancelled",
         pc \in OwnsGate => req[r].pc \in OwnsGate \/ req[r].why \in {"detect", "preferH2"},
         pc # "mark",
         req[r].probed => pc \in {"record", "setH2", "h2", "cancelled"},
         \A g \in 1..MaxGates : Owes(r, g) => pc \in {"h2", "record", "setH2", "cancelled"}
                                              /\ req[r].why = "detect",
         pc \in {"Wait", "asleep"} => req[r].pc \in {"Wait", "asleep"}
  PROVE  Inv' /\ (Waiting => Waiting')
<1>. DEFINE v == [req[r] EXCEPT !.pc = pc]
<1>1. req' = [req EXCEPT ![r] = v] BY DEF Goto
<1>2. req[r] \in ReqRecord /\ InPlace(req[r], created) BY PlacesOfOne DEF Inv, ReqTypes
<1>3. v \in ReqRecord /\ v.pc = pc /\ v.why = req[r].why /\ v.gate = req[r].gate /\ v.probed = req[r].probed
  BY <1>2 DEF ReqRecord
<1>. HIDE DEF v
<1>4. InPlace(v, created') BY <1>2, <1>3 DEF InPlace
<1>5. StillOwes(r, v)
  <2>. SUFFICES ASSUME NEW g \in 1..MaxGates, Owes(r, g)
                PROVE  /\ v.gate = g
                       /\ \/ v.pc = "Detect"
                          \/ v.why = "detect" /\ ~v.probed /\ v.pc \in {"h2", "mark", "setH1", "record", "setH2"}
                          \/ v.pc = "cancelled" /\ v.why = "detect"
    BY DEF StillOwes
  <2>1. v.gate = g BY <1>3 DEF Owes, Detects
  <2>2. pc \in {"h2", "record", "setH2", "cancelled"} /\ v.why = "detect" BY <1>3
  <2>3. CASE pc = "cancelled" BY <1>3, <2>1, <2>2, <2>3
  <2>4. CASE pc # "cancelled"
    <3>1. ~req[r].probed BY <1>2, <2>4, <2>2 DEF Owes, Detects, InPlace
    <3>. QED BY <1>3, <2>1, <2>2, <2>4, <3>1
  <2>. QED BY <2>3, <2>4
<1>6. created <= created' /\ Entries' BY GateAssumption DEF Inv, Entries
<1>. QED BY <1>1, <1>3, <1>4, <1>5, <1>6, GatesUntouched, LocalStep

\* r goes on to its attempt, with an answer it found or was given.
LEMMA CachedInv ==
  ASSUME Inv, NEW r \in Requests, NEW pc \in {"h1", "h2"}, NEW why \in {"cached", "detect"},
         req' = [req EXCEPT ![r].pc = pc, ![r].why = why], UNCHANGED <<gate, created, current>>,
         \/ req[r].pc \in {"route", "UseH1", "UseH2", "Overflow"} /\ why = "cached"
         \/ req[r].pc = "Detect" /\ why = "detect" /\ pc = "h2"
  PROVE  Inv' /\ (Waiting => Waiting')
<1>. DEFINE v == [req[r] EXCEPT !.pc = pc, !.why = why]
<1>1. req' = [req EXCEPT ![r] = v] OBVIOUS
<1>2. req[r] \in ReqRecord /\ InPlace(req[r], created) BY PlacesOfOne DEF Inv, ReqTypes
<1>3. v \in ReqRecord /\ v.pc = pc /\ v.why = why /\ v.gate = req[r].gate /\ v.probed = req[r].probed
  BY <1>2 DEF ReqRecord, Pcs, Whys
<1>. HIDE DEF v
<1>4. InPlace(v, created') BY <1>2, <1>3 DEF InPlace, OwnsGate
<1>5. StillOwes(r, v) BY <1>2, <1>3 DEF StillOwes, Owes, Detects, InPlace
<1>6. created <= created' /\ Entries' BY GateAssumption DEF Inv, Entries
<1>. QED BY <1>1, <1>3, <1>4, <1>5, <1>6, GatesUntouched, LocalStep

LEMMA EndInv ==
  ASSUME Inv, NEW r \in Requests, End(r), UNCHANGED gate, Entries', created <= created',
         \A g \in 1..MaxGates : ~Owes(r, g)
  PROVE  Inv' /\ (Waiting => Waiting')
<1>1. req' = [req EXCEPT ![r] = Ended] BY DEF End
<1>2. InPlace(Ended, created') BY EndedRecord DEF InPlace, OwnsGate
<1>3. StillOwes(r, Ended) BY DEF StillOwes
<1>. QED BY <1>1, <1>2, <1>3, EndedRecord, GatesUntouched, LocalStep

LEMMA RouteUnknownInv ==
  ASSUME Inv, NEW r \in Requests, RouteUnknown(r)
  PROVE  Inv' /\ (Waiting => Waiting')
<1>. DEFINE v == [req[r] EXCEPT !.pc = "entering", !.gate = TheGate]
<1>1. GetGate /\ req' = [req EXCEPT ![r] = v] /\ UNCHANGED gate /\ req[r].pc = "route"
  BY DEF RouteUnknown, At
<1>2. TheGate \in 1..created' /\ TheGate \in 1..MaxGates /\ Entries' /\ created <= created'
  BY <1>1, TheGateExists DEF Inv
<1>3. req[r] \in ReqRecord /\ InPlace(req[r], created) BY PlacesOfOne DEF Inv, ReqTypes
<1>4. v \in ReqRecord /\ v.pc = "entering" /\ v.gate = TheGate /\ v.probed = req[r].probed
  <2>1. TheGate \in 0..MaxGates BY <1>2, GateAssumption
  <2>. QED BY <1>3, <2>1 DEF ReqRecord, Pcs
<1>. HIDE DEF v
<1>5. InPlace(v, created') BY <1>1, <1>2, <1>3, <1>4 DEF InPlace
<1>6. StillOwes(r, v) BY <1>1 DEF StillOwes, Owes, Detects
<1>. QED BY <1>1, <1>2, <1>4, <1>5, <1>6, GatesUntouched, LocalStep

\* enter(): the first to come owes the gate its protocol, the others are told to
\* wait while there is somebody who does.
LEMMA EnterInv ==
  ASSUME Inv, NEW r \in Requests, Enter(r)
  PROVE  Inv' /\ (Waiting => Waiting')
<1>. USE DEF Inv
<1>. DEFINE g == req[r].gate
            v == [req[r] EXCEPT !.pc = Decision(g)]
<1>1. /\ req[r].pc = "entering" /\ gate' = Entered(r, g) /\ req' = [req EXCEPT ![r] = v]
      /\ UNCHANGED <<created, current>>
  BY DEF Enter, At, Goto
<1>2. req[r] \in ReqRecord /\ InPlace(req[r], created) BY PlacesOfOne DEF ReqTypes
<1>3. g \in 1..created /\ g \in 1..MaxGates /\ created \in Nat /\ MaxGates \in Nat
  BY <1>1, <1>2, GateAssumption DEF InPlace, OwnsGate, Entries
<1>4. Decision(g) \in {"UseH2", "Detect", "Overflow", "Wait", "UseH1"} BY <1>3, DecisionCases
<1>5. v \in ReqRecord /\ v.pc = Decision(g) /\ v.why = req[r].why /\ v.gate = g /\ v.probed = req[r].probed
  BY <1>2, <1>4 DEF ReqRecord, Pcs
<1>. HIDE DEF v, g
<1>6. /\ GateTypes' /\ \A h \in 1..MaxGates \ {g} : gate'[h] = gate[h]
      /\ gate[g].waiters \subseteq gate'[g].waiters
      /\ Decision(g) = "Detect" => gate'[g].protocol = "Detecting" /\ gate'[g].evictionBlocked
      /\ Decision(g) = "Wait" => r \in gate'[g].waiters
      /\ Decision(g) # "Detect" =>
           gate'[g].protocol = gate[g].protocol /\ gate'[g].evictionBlocked = gate[g].evictionBlocked
  BY <1>1, <1>3, EnteredDoes
<1>7. ReqTypes' /\ req'[r] = v /\ \A q \in Requests \ {r} : req'[q] = req[q] BY <1>1, <1>5, OneMoves
<1>8. Entries' BY <1>1 DEF Entries
<1>9. Places'
  <2>1. ~v.probed /\ v.pc # "mark" BY <1>1, <1>2, <1>4, <1>5 DEF InPlace
  <2>2. InPlace(v, created) BY <1>3, <1>5, <2>1 DEF InPlace
  <2>. QED BY <1>1, <1>7, <2>2 DEF Places, InPlace
<1>10. Protected' BY <1>1, <1>3, <1>6 DEF Protected
<1>11. \A h \in 1..MaxGates : ~Owes(r, h) BY <1>1 DEF Owes, Detects
<1>12. Owed'
  <2>. SUFFICES ASSUME NEW h \in 1..MaxGates, gate'[h].protocol = "Detecting"
                PROVE  \E q \in Requests : Owes(q, h)'
    BY DEF Owed
  <2>1. CASE h = g /\ Decision(g) = "Detect"
    <3>1. Owes(r, h)' BY <1>5, <1>7, <2>1 DEF Owes, Detects
    <3>. QED BY <3>1
  <2>2. CASE ~(h = g /\ Decision(g) = "Detect")
    <3>1. PICK q \in Requests : Owes(q, h) BY <1>6, <2>2 DEF Owed
    <3>2. q # r BY <1>11, <3>1
    <3>. QED BY <1>7, <3>1, <3>2 DEF Owes, Detects
  <2>. QED BY <2>1, <2>2
<1>13. ASSUME Waiting PROVE Waiting'
  <2>. SUFFICES ASSUME NEW q \in Requests, req'[q].pc \in {"Wait", "asleep"}
                PROVE  q \in gate'[req'[q].gate].waiters /\ gate'[req'[q].gate].protocol = "Detecting"
    BY DEF Waiting
  <2>1. CASE q = r
    <3>1. Decision(g) = "Wait" /\ gate[g].protocol = "Detecting"
      BY <1>3, <1>4, <1>5, <1>7, <2>1, DecisionCases
    <3>. QED BY <1>5, <1>6, <1>7, <2>1, <3>1
  <2>2. CASE q # r
    <3>1. /\ req'[q] = req[q] /\ q \in gate[req[q].gate].waiters
          /\ gate[req[q].gate].protocol = "Detecting" /\ req[q].gate \in 1..MaxGates
      <4>1. req'[q] = req[q] /\ req[q].pc \in {"Wait", "asleep"} BY <1>7, <2>2
      <4>2. req[q].gate \in 1..MaxGates BY <1>3, <4>1 DEF Places, OwnsGate, Entries
      <4>. QED BY <1>13, <4>1, <4>2 DEF Waiting
    <3>2. gate'[req[q].gate].protocol = "Detecting"
      <4>1. CASE req[q].gate = g BY <1>6, <3>1, <4>1
      <4>2. CASE req[q].gate # g BY <1>6, <3>1, <4>2
      <4>. QED BY <4>1, <4>2
    <3>. QED BY <1>6, <3>1, <3>2
  <2>. QED BY <2>1, <2>2
<1>. QED BY <1>6, <1>7, <1>8, <1>9, <1>10, <1>12, <1>13

LEMMA H2SucceedsInv ==
  ASSUME Inv, NEW r \in Requests, H2Succeeds(r)
  PROVE  Inv' /\ (Waiting => Waiting')
<1>1. req[r].pc = "h2" /\ UNCHANGED <<gate, created, current>> BY DEF H2Succeeds, At
<1>2. CASE req[r].why \in {"detect", "preferH2"} /\ ~req[r].probed
  <2>1. Goto(r, "record") BY <1>2 DEF H2Succeeds
  <2>2. \A g \in 1..MaxGates : Owes(r, g) => req[r].why = "detect" BY <1>1 DEF Owes, Detects
  <2>. QED BY <1>1, <1>2, <2>1, <2>2, GotoInv DEF Pcs
<1>3. CASE ~(req[r].why \in {"detect", "preferH2"} /\ ~req[r].probed)
  <2>1. End(r) BY <1>3 DEF H2Succeeds
  <2>2. \A g \in 1..MaxGates : ~Owes(r, g) BY <1>1, <1>3 DEF Owes, Detects
  <2>3. Entries' /\ created <= created' BY <1>1, GateAssumption DEF Inv, Entries
  <2>. QED BY <1>1, <2>1, <2>2, <2>3, EndInv
<1>. QED BY <1>2, <1>3

LEMMA H2FailsInv ==
  ASSUME Inv, NEW r \in Requests, H2Fails(r)
  PROVE  Inv' /\ (Waiting => Waiting')
<1>1. req[r].pc = "h2" /\ UNCHANGED gate BY DEF H2Fails, At
<1>2. CASE req[r].why = "force"
  <2>1. End(r) /\ UNCHANGED <<created, current>> BY <1>2 DEF H2Fails
  <2>2. \A g \in 1..MaxGates : ~Owes(r, g) BY <1>1, <1>2 DEF Owes, Detects
  <2>3. Entries' /\ created <= created' BY <2>1, GateAssumption DEF Inv, Entries
  <2>. QED BY <1>1, <2>1, <2>2, <2>3, EndInv
<1>3. CASE req[r].why # "force"
  <2>. DEFINE v == [req[r] EXCEPT !.pc = "mark", !.marks = TheGate]
  <2>1. GetGate /\ req' = [req EXCEPT ![r] = v] BY <1>3 DEF H2Fails
  <2>2. TheGate \in 1..created' /\ TheGate \in 1..MaxGates /\ Entries' /\ created <= created'
        /\ created \in Nat /\ created' \in Nat
    BY <2>1, TheGateExists DEF Inv
  <2>3. req[r] \in ReqRecord /\ InPlace(req[r], created) BY PlacesOfOne DEF Inv, ReqTypes
  <2>4. /\ v \in ReqRecord /\ v.pc = "mark" /\ v.marks = TheGate /\ v.why = req[r].why
        /\ v.gate = req[r].gate /\ v.probed = req[r].probed
    <3>1. TheGate \in 0..MaxGates BY <2>2, GateAssumption
    <3>. QED BY <2>3, <3>1 DEF ReqRecord, Pcs
  <2>. HIDE DEF v
  <2>5. InPlace(v, created') BY <1>1, <2>2, <2>3, <2>4 DEF InPlace, OwnsGate
  <2>6. StillOwes(r, v) BY <1>1, <2>4 DEF StillOwes, Owes, Detects
  <2>. QED BY <1>1, <2>1, <2>2, <2>4, <2>5, <2>6, GatesUntouched, LocalStep
<1>. QED BY <1>2, <1>3

LEMMA MarkFailedInv ==
  ASSUME Inv, NEW r \in Requests, MarkFailed(r)
  PROVE  Inv' /\ (Waiting /\ NobodyTold => Waiting')
<1>. DEFINE g == req[r].marks
            f == Notified(g)
            v == AfterMark(r)
<1>1. /\ req[r].pc = "mark" /\ gate' = Settled(g, "H2FailedRecently")
      /\ req' = [f EXCEPT ![r] = v] /\ UNCHANGED <<created, current>>
  BY DEF MarkFailed, At
<1>2. req[r] \in ReqRecord /\ InPlace(req[r], created) BY PlacesOfOne DEF Inv, ReqTypes
<1>3. g \in 1..MaxGates BY <1>1, <1>2, GateAssumption DEF InPlace, Inv, Entries
<1>4. v \in ReqRecord /\ InPlace(v, created) /\ StillOwes(r, v) /\ v.pc \notin {"Wait", "asleep"}
  <2>1. CASE req[r].why \in {"detect", "preferH2"} /\ ~req[r].probed
    <3>. DEFINE pc == IF req[r].why = "detect" THEN "setH1" ELSE "markOwn"
                w == [req[r] EXCEPT !.pc = pc]
    <3>1. v = w BY <2>1 DEF AfterMark
    <3>2. w \in ReqRecord /\ w.pc = pc /\ w.why = req[r].why /\ w.gate = req[r].gate
          /\ w.probed = req[r].probed
      BY <1>2 DEF ReqRecord, Pcs
    <3>. HIDE DEF v, w
    <3>3. InPlace(w, created) BY <1>2, <2>1, <3>2 DEF InPlace
    <3>4. StillOwes(r, w) BY <1>1, <2>1, <3>2 DEF StillOwes, Owes, Detects
    <3>. QED BY <3>1, <3>2, <3>3, <3>4
  <2>2. CASE ~(req[r].why \in {"detect", "preferH2"} /\ ~req[r].probed)
    <3>1. v = Ended BY <2>2 DEF AfterMark
    <3>2. StillOwes(r, Ended) BY <1>1, <2>2 DEF StillOwes, Owes, Detects
    <3>3. InPlace(Ended, created) BY EndedRecord DEF InPlace, OwnsGate
    <3>. QED BY <3>1, <3>2, <3>3, EndedRecord
  <2>. QED BY <2>1, <2>2
<1>. HIDE DEF v, f, g
<1>5. f = Notified(g) BY DEF f
<1>. QED BY <1>1, <1>3, <1>4, <1>5, SettlingStep DEF Protocols

LEMMA MarkOwnFailedInv ==
  ASSUME Inv, NEW r \in Requests, MarkOwnFailed(r)
  PROVE  Inv' /\ (Waiting /\ NobodyTold => Waiting')
<1>. DEFINE g == req[r].gate
            f == Notified(g)
            v == [f[r] EXCEPT !.pc = "probe"]
<1>1. /\ req[r].pc = "markOwn" /\ gate' = Settled(g, "H2FailedRecently")
      /\ req' = [f EXCEPT ![r] = v] /\ UNCHANGED <<created, current>>
  BY DEF MarkOwnFailed, At
<1>2. req[r] \in ReqRecord /\ InPlace(req[r], created) BY PlacesOfOne DEF Inv, ReqTypes
<1>3. g \in 1..MaxGates BY <1>1, <1>2, GateAssumption DEF InPlace, OwnsGate, Inv, Entries
<1>4. f[r] = req[r] BY <1>1 DEF Notified
<1>5. /\ v \in ReqRecord /\ v.pc = "probe" /\ v.why = req[r].why /\ v.gate = g
      /\ v.probed = req[r].probed
  BY <1>2, <1>4 DEF ReqRecord, Pcs
<1>. HIDE DEF v, f
<1>6. InPlace(v, created) BY <1>1, <1>2, <1>5 DEF InPlace, OwnsGate
<1>7. f = Notified(g) BY DEF f
<1>. QED BY <1>1, <1>3, <1>5, <1>6, <1>7, SettlingStep DEF Protocols

LEMMA SetH1Inv ==
  ASSUME Inv, NEW r \in Requests, SetH1(r)
  PROVE  Inv' /\ (Waiting /\ NobodyTold => Waiting')
<1>. DEFINE g == req[r].gate
            f == Notified(g)
            w == [req[r] EXCEPT !.pc = "probe"]
            v == IF req[r].why = "detect" THEN w ELSE Ended
<1>1. /\ req[r].pc = "setH1" /\ gate' = Settled(g, "H1Only")
      /\ req' = [f EXCEPT ![r] = v] /\ UNCHANGED <<created, current>>
  BY DEF SetH1, At
<1>2. req[r] \in ReqRecord /\ InPlace(req[r], created) BY PlacesOfOne DEF Inv, ReqTypes
<1>3. g \in 1..MaxGates BY <1>1, <1>2, GateAssumption DEF InPlace, OwnsGate, Inv, Entries
<1>4. /\ w \in ReqRecord /\ w.pc = "probe" /\ w.why = req[r].why /\ w.gate = g
      /\ w.probed = req[r].probed
  BY <1>2 DEF ReqRecord, Pcs
<1>. HIDE DEF w, f
<1>5. InPlace(w, created) BY <1>1, <1>2, <1>4 DEF InPlace, OwnsGate
<1>6. InPlace(Ended, created) BY EndedRecord DEF InPlace, OwnsGate
<1>7. v \in ReqRecord /\ InPlace(v, created) /\ v.pc \notin {"Wait", "asleep"}
  BY <1>4, <1>5, <1>6, EndedRecord
<1>. HIDE DEF v
<1>8. f = Notified(g) BY DEF f
<1>. QED BY <1>1, <1>3, <1>7, <1>8, SettlingStep DEF Protocols

LEMMA SetH2Inv ==
  ASSUME Inv, NEW r \in Requests, SetH2(r)
  PROVE  Inv' /\ (Waiting /\ NobodyTold => Waiting')
<1>. DEFINE g == req[r].gate
            f == Notified(g)
            w == [req[r] EXCEPT !.pc = "h2"]
            v == IF req[r].probed THEN w ELSE Ended
<1>1. /\ req[r].pc = "setH2" /\ gate' = Settled(g, "H2Available")
      /\ req' = [f EXCEPT ![r] = v] /\ UNCHANGED <<created, current>>
  BY DEF SetH2, At
<1>2. req[r] \in ReqRecord /\ InPlace(req[r], created) BY PlacesOfOne DEF Inv, ReqTypes
<1>3. g \in 1..MaxGates BY <1>1, <1>2, GateAssumption DEF InPlace, OwnsGate, Inv, Entries
<1>4. /\ w \in ReqRecord /\ w.pc = "h2" /\ w.why = req[r].why /\ w.gate = g
      /\ w.probed = req[r].probed
  BY <1>2 DEF ReqRecord, Pcs
<1>. HIDE DEF w, f
<1>5. InPlace(w, created) BY <1>1, <1>2, <1>4 DEF InPlace, OwnsGate
<1>6. InPlace(Ended, created) BY EndedRecord DEF InPlace, OwnsGate
<1>7. v \in ReqRecord /\ InPlace(v, created) /\ v.pc \notin {"Wait", "asleep"}
  BY <1>4, <1>5, <1>6, EndedRecord
<1>. HIDE DEF v
<1>8. f = Notified(g) BY DEF f
<1>. QED BY <1>1, <1>3, <1>7, <1>8, SettlingStep DEF Protocols

LEMMA RouteInv ==
  ASSUME Inv, NEW r \in Requests,
         RouteRemembered(r) \/ \E p \in {"H1Only", "H2Available"} : RouteFromUrlCache(r, p)
  PROVE  Inv' /\ (Waiting => Waiting')
<1>1. CASE RouteRemembered(r)
  <2>1. PICK pc \in {"h1", "h2"} : req' = [req EXCEPT ![r].pc = pc, ![r].why = "cached"]
    BY <1>1 DEF RouteRemembered
  <2>2. UNCHANGED <<gate, created, current>> /\ req[r].pc = "route" BY <1>1 DEF RouteRemembered, At
  <2>. QED BY <2>1, <2>2, CachedInv
<1>2. CASE \E p \in {"H1Only", "H2Available"} : RouteFromUrlCache(r, p)
  <2>1. PICK pc \in {"h1", "h2"} : req' = [req EXCEPT ![r].pc = pc, ![r].why = "cached"]
    BY <1>2 DEF RouteFromUrlCache
  <2>2. UNCHANGED <<gate, created, current>> /\ req[r].pc = "route" BY <1>2 DEF RouteFromUrlCache, At
  <2>. QED BY <2>1, <2>2, CachedInv
<1>. QED BY <1>1, <1>2

LEMMA ResumeInv ==
  ASSUME Inv, NEW r \in Requests, Resume(r)
  PROVE  Inv' /\ (Waiting => Waiting')
<1>1. CASE ResumeUseH2(r)
  <2>1. /\ req' = [req EXCEPT ![r].pc = "h2", ![r].why = "cached"]
        /\ UNCHANGED <<gate, created, current>> /\ req[r].pc = "UseH2"
    BY <1>1 DEF ResumeUseH2, At
  <2>. QED BY <2>1, CachedInv
<1>2. CASE ResumeUseH1(r)
  <2>1. /\ req' = [req EXCEPT ![r].pc = "h1", ![r].why = "cached"]
        /\ UNCHANGED <<gate, created, current>> /\ req[r].pc = "UseH1"
    BY <1>2 DEF ResumeUseH1, At
  <2>. QED BY <2>1, CachedInv
<1>3. CASE ResumeOverflow(r)
  <2>1. /\ req' = [req EXCEPT ![r].pc = "h1", ![r].why = "cached"]
        /\ UNCHANGED <<gate, created, current>> /\ req[r].pc = "Overflow"
    BY <1>3 DEF ResumeOverflow, At
  <2>. QED BY <2>1, CachedInv
<1>4. CASE ResumeDetect(r)
  <2>1. /\ req' = [req EXCEPT ![r].pc = "h2", ![r].why = "detect"]
        /\ UNCHANGED <<gate, created, current>> /\ req[r].pc = "Detect"
    BY <1>4 DEF ResumeDetect, At
  <2>. QED BY <2>1, CachedInv
<1>5. CASE ResumeWait(r)
  <2>1. Goto(r, "asleep") /\ UNCHANGED <<gate, created, current>> /\ req[r].pc = "Wait"
    BY <1>5 DEF ResumeWait, At
  <2>2. ~req[r].probed BY <2>1, PlacesOfOne DEF Inv, InPlace
  <2>3. \A g \in 1..MaxGates : ~Owes(r, g) BY <2>1 DEF Owes, Detects
  <2>. QED BY <2>1, <2>2, <2>3, GotoInv DEF Pcs, OwnsGate
<1>. QED BY <1>1, <1>2, <1>3, <1>4, <1>5 DEF Resume

\* A probe, whichever way it ends.
LEMMA ProbeInv ==
  ASSUME Inv, NEW r \in Requests, ProbeFindsH1(r) \/ ProbeFindsH2(r) \/ ProbeFails(r)
  PROVE  Inv' /\ (Waiting => Waiting')
<1>1. /\ req[r].pc = "probe" /\ UNCHANGED gate
      /\ req[r] \in ReqRecord /\ InPlace(req[r], created) /\ req[r].gate \in 1..created
  BY PlacesOfOne DEF Inv, ReqTypes, ProbeFindsH1, ProbeFindsH2, ProbeFails, At, InPlace, OwnsGate
<1>2. \A g \in 1..MaxGates : ~Owes(r, g) BY <1>1 DEF Owes, Detects
<1>3. CASE ProbeFindsH1(r)
  <2>1. End(r) /\ GetGate BY <1>3 DEF ProbeFindsH1, RememberRoute
  <2>2. Entries' /\ created <= created' BY <2>1, TheGateExists DEF Inv
  <2>. QED BY <1>1, <1>2, <2>1, <2>2, EndInv
<1>4. CASE ProbeFindsH2(r)
  <2>. DEFINE v == [req[r] EXCEPT !.pc = "record", !.probed = TRUE]
  <2>1. req' = [req EXCEPT ![r] = v] /\ UNCHANGED <<created, current>> BY <1>4 DEF ProbeFindsH2
  <2>2. v \in ReqRecord /\ v.pc = "record" /\ v.gate = req[r].gate BY <1>1 DEF ReqRecord, Pcs
  <2>. HIDE DEF v
  <2>3. InPlace(v, created') BY <1>1, <2>1, <2>2 DEF InPlace
  <2>4. StillOwes(r, v) BY <1>2 DEF StillOwes
  <2>5. created <= created' /\ Entries' BY <2>1, GateAssumption DEF Inv, Entries
  <2>. QED BY <1>1, <2>1, <2>2, <2>3, <2>4, <2>5, GatesUntouched, LocalStep
<1>5. CASE ProbeFails(r)
  <2>1. Goto(r, "h1") /\ UNCHANGED <<created, current>> BY <1>5 DEF ProbeFails
  <2>2. ~req[r].probed BY <1>1 DEF InPlace
  <2>. QED BY <1>1, <1>2, <2>1, <2>2, GotoInv DEF Pcs, OwnsGate
<1>. QED BY <1>3, <1>4, <1>5

LEMMA RecordInv ==
  ASSUME Inv, NEW r \in Requests, Record(r)
  PROVE  Inv' /\ (Waiting => Waiting')
<1>. DEFINE g == req[r].gate
            w == [gate[g] EXCEPT !.sawH2 = TRUE]
            v == [req[r] EXCEPT !.pc = "setH2"]
<1>1. /\ req[r].pc = "record" /\ GetGate /\ gate' = [gate EXCEPT ![g] = w]
      /\ req' = [req EXCEPT ![r] = v]
  BY DEF Record, RememberRoute, At, Goto
<1>2. req[r] \in ReqRecord /\ InPlace(req[r], created) BY PlacesOfOne DEF Inv, ReqTypes
<1>3. Entries' /\ created <= created' /\ created \in Nat /\ created' \in Nat
  BY <1>1, TheGateExists DEF Inv
<1>4. g \in 1..created /\ g \in 1..MaxGates
  BY <1>1, <1>2, GateAssumption DEF InPlace, OwnsGate, Inv, Entries
<1>5. v \in ReqRecord /\ v.pc = "setH2" /\ v.why = req[r].why /\ v.gate = g /\ v.probed = req[r].probed
  BY <1>2 DEF ReqRecord, Pcs
<1>6. GateTypes' /\ GatesKept
  <2>1. gate[g] \in GateRecord BY <1>4 DEF Inv, GateTypes
  <2>2. /\ w \in GateRecord /\ w.protocol = gate[g].protocol /\ w.waiters = gate[g].waiters
        /\ w.evictionBlocked = gate[g].evictionBlocked
    BY <2>1 DEF GateRecord
  <2>. HIDE DEF w
  <2>. QED BY <1>1, <1>4, <2>2 DEF Inv, GateTypes, GatesKept
<1>. HIDE DEF v, w
<1>7. InPlace(v, created') BY <1>1, <1>2, <1>3, <1>4, <1>5 DEF InPlace
<1>8. StillOwes(r, v) BY <1>1, <1>5 DEF StillOwes, Owes, Detects
<1>. QED BY <1>1, <1>3, <1>5, <1>6, <1>7, <1>8, LocalStep

LEMMA H1SucceedsInv ==
  ASSUME Inv, NEW r \in Requests, H1Succeeds(r)
  PROVE  Inv' /\ (Waiting => Waiting')
<1>1. req[r].pc = "h1" /\ UNCHANGED gate BY DEF H1Succeeds, At
<1>2. \A g \in 1..MaxGates : ~Owes(r, g) BY <1>1 DEF Owes, Detects
<1>3. CASE req[r].why = "preferH1"
  <2>. DEFINE v == [req[r] EXCEPT !.pc = "setH1", !.gate = TheGate]
  <2>1. GetGate /\ req' = [req EXCEPT ![r] = v] BY <1>3 DEF H1Succeeds, RememberRoute
  <2>2. TheGate \in 1..created' /\ TheGate \in 1..MaxGates /\ Entries' /\ created <= created'
    BY <2>1, TheGateExists DEF Inv
  <2>3. req[r] \in ReqRecord /\ InPlace(req[r], created) BY PlacesOfOne DEF Inv, ReqTypes
  <2>4. v \in ReqRecord /\ v.pc = "setH1" /\ v.gate = TheGate /\ v.probed = req[r].probed
    <3>1. TheGate \in 0..MaxGates BY <2>2, GateAssumption
    <3>. QED BY <2>3, <3>1 DEF ReqRecord, Pcs
  <2>. HIDE DEF v
  <2>5. InPlace(v, created') BY <1>1, <2>2, <2>3, <2>4 DEF InPlace
  <2>6. StillOwes(r, v) BY <1>2 DEF StillOwes
  <2>. QED BY <1>1, <2>1, <2>2, <2>4, <2>5, <2>6, GatesUntouched, LocalStep
<1>4. CASE req[r].why # "preferH1"
  <2>1. End(r) /\ UNCHANGED <<created, current>> BY <1>4 DEF H1Succeeds
  <2>2. Entries' /\ created <= created' BY <2>1, GateAssumption DEF Inv, Entries
  <2>. QED BY <1>1, <1>2, <2>1, <2>2, EndInv
<1>. QED BY <1>3, <1>4

LEMMA H1FailsInv ==
  ASSUME Inv, NEW r \in Requests, H1Fails(r)
  PROVE  Inv' /\ (Waiting => Waiting')
<1>1. req[r].pc = "h1" /\ UNCHANGED <<gate, created, current>> BY DEF H1Fails, At
<1>2. \A g \in 1..MaxGates : ~Owes(r, g) BY <1>1 DEF Owes, Detects
<1>3. CASE req[r].why = "preferH1"
  <2>1. Goto(r, "h2") BY <1>3 DEF H1Fails
  <2>. QED BY <1>1, <1>2, <2>1, GotoInv DEF Pcs, OwnsGate
<1>4. CASE req[r].why # "preferH1"
  <2>1. End(r) BY <1>4 DEF H1Fails
  <2>2. Entries' /\ created <= created' BY <1>1, GateAssumption DEF Inv, Entries
  <2>. QED BY <1>1, <1>2, <2>1, <2>2, EndInv
<1>. QED BY <1>3, <1>4

\* A cancelled detector goes on owing its gate what nobody will pay.
LEMMA CancelInv ==
  ASSUME Inv, NEW r \in Requests, Cancel(r)
  PROVE  Inv' /\ (Waiting => Waiting')
<1>1. /\ Goto(r, "cancelled") /\ UNCHANGED <<gate, created, current>>
      /\ req[r].pc \in {"h1", "h2", "asleep", "probe", "setH2"}
  BY DEF Cancel
<1>2. \A g \in 1..MaxGates : Owes(r, g) => req[r].why = "detect" BY <1>1 DEF Owes, Detects
<1>. QED BY <1>1, <1>2, GotoInv DEF Pcs, OwnsGate

LEMMA RetryDueInv ==
  ASSUME Inv, NEW g \in 1..MaxGates, RetryDue(g)
  PROVE  Inv' /\ (Waiting => Waiting')
<1>. USE DEF Inv
<1>. DEFINE w == [gate[g] EXCEPT !.retryDue = TRUE]
<1>1. gate' = [gate EXCEPT ![g] = w] /\ UNCHANGED <<created, current, req>> BY DEF RetryDue
<1>2. gate[g] \in GateRecord BY DEF GateTypes
<1>3. /\ w \in GateRecord /\ w.protocol = gate[g].protocol /\ w.waiters = gate[g].waiters
      /\ w.evictionBlocked = gate[g].evictionBlocked
  BY <1>2 DEF GateRecord
<1>. HIDE DEF w
<1>4. GateTypes' /\ GatesKept BY <1>1, <1>3 DEF GateTypes, GatesKept
<1>5. ReqTypes' /\ Entries' /\ Places' BY <1>1 DEF ReqTypes, Entries, Places
<1>6. Protected' BY <1>1, <1>4 DEF Protected, GatesKept
<1>7. Owed' BY <1>1, <1>4 DEF Owed, GatesKept, Owes, Detects
<1>8. ASSUME Waiting PROVE Waiting'
  <2>1. \A q \in Requests : req[q].pc \in {"Wait", "asleep"} => req[q].gate \in 1..MaxGates
    BY GateAssumption DEF Places, OwnsGate, Entries
  <2>. QED BY <1>1, <1>4, <1>8, <2>1 DEF Waiting, GatesKept
<1>. QED BY <1>4, <1>5, <1>6, <1>7, <1>8

LEMMA EvictInv ==
  ASSUME Inv, Evict
  PROVE  Inv' /\ (Waiting => Waiting')
<1>. USE DEF Inv
<1>1. UNCHANGED <<gate, created, req>> /\ current' = 0 /\ created < MaxGates BY DEF Evict
<1>2. ReqTypes' /\ GateTypes' /\ Places' /\ Protected'
  BY <1>1 DEF ReqTypes, GateTypes, Places, Protected
<1>3. Entries' BY <1>1, GateAssumption DEF Entries
<1>4. Owed' BY <1>1 DEF Owed, Owes, Detects
<1>5. Waiting => Waiting' BY <1>1 DEF Waiting
<1>. QED BY <1>2, <1>3, <1>4, <1>5

------------------------------------------------------------------------------
(* The theorems.                                                           *)

LEMMA ProgressInv ==
  ASSUME Inv, NEW r \in Requests, Progress(r)
  PROVE  Inv' /\ (Waiting /\ NobodyTold => Waiting')
<1>1. CASE \E p \in {"H1Only", "H2Available"} : RouteFromUrlCache(r, p) BY <1>1, RouteInv
<1>2. CASE RouteRemembered(r) BY <1>2, RouteInv
<1>3. CASE RouteUnknown(r) BY <1>3, RouteUnknownInv
<1>4. CASE Enter(r) BY <1>4, EnterInv
<1>5. CASE H2Succeeds(r) BY <1>5, H2SucceedsInv
<1>6. CASE H2Fails(r) BY <1>6, H2FailsInv
<1>7. CASE MarkFailed(r) BY <1>7, MarkFailedInv
<1>8. CASE MarkOwnFailed(r) BY <1>8, MarkOwnFailedInv
<1>9. CASE SetH1(r) BY <1>9, SetH1Inv
<1>10. CASE ProbeFindsH1(r) \/ ProbeFindsH2(r) \/ ProbeFails(r) BY <1>10, ProbeInv
<1>11. CASE Record(r) BY <1>11, RecordInv
<1>12. CASE SetH2(r) BY <1>12, SetH2Inv
<1>13. CASE H1Succeeds(r) BY <1>13, H1SucceedsInv
<1>14. CASE H1Fails(r) BY <1>14, H1FailsInv
<1>. QED BY <1>1, <1>2, <1>3, <1>4, <1>5, <1>6, <1>7, <1>8, <1>9, <1>10, <1>11, <1>12, <1>13, <1>14
         DEF Progress

LEMMA NextInv ==
  ASSUME Inv, [Next]_vars
  PROVE  Inv' /\ (Waiting /\ ~Gap => Waiting')
<1>0. ThreadFree /\ ~Gap => NobodyTold BY DEF ThreadFree, Decided, NobodyTold
<1>1. ASSUME NEW r \in Requests, Step(r) PROVE Inv' /\ (Waiting /\ ~Gap => Waiting')
  <2>1. CASE Resume(r) BY <2>1, ResumeInv
  <2>2. CASE ThreadFree /\ Progress(r) BY <1>0, <2>2, ProgressInv
  <2>. QED BY <1>1, <2>1, <2>2 DEF Step
<1>2. ASSUME NEW r \in Requests, NEW policy \in Policies, Start(r, policy)
      PROVE  Inv' /\ (Waiting /\ ~Gap => Waiting')
  BY <1>2, StartInv
<1>3. ASSUME NEW r \in Requests, Cancel(r) PROVE Inv' /\ (Waiting /\ ~Gap => Waiting')
  BY <1>3, CancelInv
<1>4. ASSUME NEW g \in 1..MaxGates, RetryDue(g) PROVE Inv' /\ (Waiting /\ ~Gap => Waiting')
  BY <1>4, RetryDueInv
<1>5. CASE Evict BY <1>5, EvictInv
<1>6. CASE UNCHANGED vars
  <2>. USE <1>6 DEF vars, Inv
  <2>1. ReqTypes' /\ GateTypes' /\ Entries' /\ Places' /\ Protected'
    BY DEF ReqTypes, GateTypes, Entries, Places, Protected
  <2>2. Owed' BY DEF Owed, Owes, Detects
  <2>3. Waiting => Waiting' BY DEF Waiting
  <2>. QED BY <2>1, <2>2, <2>3
<1>. QED BY <1>1, <1>2, <1>3, <1>4, <1>5, <1>6 DEF Next

\* The invariant holds in every reachable state, with or without a gap between a
\* strand of enter() and the request that it answers.
THEOREM InvHolds == Spec => []Inv
<1>1. Inv /\ [Next]_vars => Inv' BY NextInv
<1>. QED BY InitInv, <1>1, PTL DEF Spec

\* trim_origin_cache and expire_origins skip an entry whose gate detects: its
\* requests and the ones that come later share that gate.
THEOREM NeverEvicted == Spec => NeverEvictedWhileDetecting
<1>1. ASSUME Inv, [Next]_vars
      PROVE  [current # 0 /\ gate[current].protocol = "Detecting" => current' = current]_vars
  <2>. SUFFICES ASSUME Next, current # 0, gate[current].protocol = "Detecting"
                PROVE  current' = current
    BY <1>1
  <2>0. current \in 1..MaxGates BY <1>1, GateAssumption DEF Inv, Entries
  <2>1. ASSUME GetGate PROVE current' = current BY <2>1 DEF GetGate, TheGate
  <2>2. CASE Evict BY <1>1, <2>0, <2>2 DEF Evict, Inv, Protected
  <2>3. ASSUME NEW r \in Requests, Resume(r) PROVE current' = current
    BY <2>3 DEF Resume, ResumeUseH2, ResumeUseH1, ResumeOverflow, ResumeWait, ResumeDetect
  <2>4. ASSUME NEW r \in Requests, Progress(r) PROVE current' = current
    BY <2>1, <2>4 DEF Progress, RouteFromUrlCache, RouteRemembered, RouteUnknown, Enter, H2Succeeds, H2Fails,
       MarkFailed, MarkOwnFailed, SetH1, ProbeFindsH1, ProbeFindsH2, ProbeFails, Record, SetH2, H1Succeeds,
       H1Fails, RememberRoute
  <2>5. ASSUME NEW r \in Requests, NEW policy \in Policies, Start(r, policy) PROVE current' = current
    <3>1. policy \in AllPolicies BY GateAssumption
    <3>. QED BY <2>1, <2>5, <3>1 DEF Start, AllPolicies
  <2>6. ASSUME NEW r \in Requests, Cancel(r) PROVE current' = current BY <2>6 DEF Cancel
  <2>7. ASSUME NEW g \in 1..MaxGates, RetryDue(g) PROVE current' = current BY <2>7 DEF RetryDue
  <2>. QED BY <2>2, <2>3, <2>4, <2>5, <2>6, <2>7 DEF Next, Step
<1>. QED BY InvHolds, <1>1, PTL DEF Spec, NeverEvictedWhileDetecting

\* Nobody waits for nobody.  When the thread that answers enter() goes on to start
\* the wait (no gap), a request that sleeps is in the list of a gate that detects; and
\* every such gate has a request on its way to settle it, or one that was cancelled.
THEOREM OwedAWake == ASSUME ~Gap PROVE Spec => []WaitersAreOwedAWake
<1>1. Init => Inv /\ Waiting BY InitInv DEF Init, Waiting, Idle
<1>2. Inv /\ Waiting /\ [Next]_vars => Inv' /\ Waiting' BY NextInv
<1>3. ASSUME Inv, Waiting PROVE WaitersAreOwedAWake
  <2>1. \A g \in 1..created : g \in 1..MaxGates BY <1>3, GateAssumption DEF Inv, Entries
  <2>. QED BY <1>3, <2>1 DEF Inv, Waiting, Owed, Owes, WaitersAreOwedAWake
<1>. QED BY <1>1, <1>2, <1>3, PTL DEF Spec

------------------------------------------------------------------------------
(* One detector.  When every request is routed automatically, the entry    *)
(* stays in the cache and the time to a retry outlasts what is posted, the *)
(* origin is detected once: no request enters the gate when a retry is     *)
(* due, because the route is remembered before that.                       *)

AutoOnly == Policies \subseteq {"Auto"} /\ MaxGates = 1 /\ ~RetryAtOnce

\* Where a request can be that no answer of the gate has reached.
Before == {"idle", "over", "route", "entering"}

\* Nobody prefers or forces a protocol.
RoutedOnly ==
  \A r \in Requests :
    /\ req[r].why \in {"none", "cached", "detect"} /\ req[r].pc # "markOwn"
    /\ req[r].pc \in {"h2", "mark"} => req[r].why \in {"cached", "detect"}
    /\ req[r].pc = "probe" \/ req[r].probed => req[r].why = "detect"

\* Nothing is known before the gate knows.
NothingKnown ==
  gate[1].protocol = "Unknown" =>
    /\ route = "Unknown" /\ urlCache = {}
    /\ \A r \in Requests : req[r].pc \in Before

\* When a retry is due nobody is about to enter.
NobodyRetries ==
  gate[1].protocol = "H2FailedRecently" /\ gate[1].retryDue =>
    route # "Unknown" /\ \A r \in Requests : req[r].pc # "entering"

\* A detection that failed goes on to the probe.
FailureGoesOn ==
  gate[1].protocol = "H2FailedRecently" /\ route = "Unknown" => \E r \in Requests : req[r].pc = "setH1"

\* HTTP/2 is used, other than to detect, after its route is remembered.
OnRoute(v) ==
  \/ v.pc \in {"UseH2", "setH2"}
  \/ v.pc \in {"h2", "mark"} /\ (v.why = "cached" \/ v.probed)

RememberedFirst ==
  route = "Unknown" =>
    /\ gate[1].protocol # "H2Available" /\ "H2Available" \notin urlCache
    /\ \A r \in Requests : ~OnRoute(req[r])

\* What Detects says of the record of a request.
DetectsIn(v) ==
  /\ v.gate = 1
  /\ \/ v.pc = "Detect"
     \/ v.why = "detect" /\ ~v.probed /\ v.pc \in {"h2", "mark", "setH1", "record", "setH2"}

Single == \A r, q \in Requests : DetectsIn(req[r]) /\ DetectsIn(req[q]) => r = q

Alone == RoutedOnly /\ NothingKnown /\ NobodyRetries /\ FailureGoesOn /\ RememberedFirst /\ Single

Fits(v) ==
  /\ v.why \in {"none", "cached", "detect"} /\ v.pc # "markOwn"
  /\ v.pc \in {"h2", "mark"} => v.why \in {"cached", "detect"}
  /\ v.pc = "probe" \/ v.probed => v.why = "detect"

\* r goes to v; the gate decides what it did.
LEMMA AloneLocal ==
  ASSUME Inv, Alone, NEW r \in Requests, NEW v \in ReqRecord, req' = [req EXCEPT ![r] = v],
         gate'[1].protocol = gate[1].protocol, gate'[1].retryDue = gate[1].retryDue,
         req[r].pc # "setH1", Fits(v), route # "Unknown" => route' # "Unknown",
         gate[1].protocol = "Unknown" => v.pc \in Before /\ route' = route /\ urlCache' = urlCache,
         v.pc = "entering" => route = "Unknown",
         OnRoute(v) \/ "H2Available" \in urlCache' => route' # "Unknown",
         DetectsIn(v) => DetectsIn(req[r])
  PROVE  Alone'
<1>. USE DEF Alone
<1>1. ReqTypes' /\ req'[r] = v /\ \A q \in Requests \ {r} : req'[q] = req[q] BY OneMoves DEF Inv
<1>2. RoutedOnly' BY <1>1 DEF RoutedOnly, Fits
<1>3. NothingKnown' BY <1>1 DEF NothingKnown
<1>4. NobodyRetries' BY <1>1 DEF NobodyRetries
<1>5. FailureGoesOn'
  <2>. SUFFICES ASSUME gate[1].protocol = "H2FailedRecently", route = "Unknown"
                PROVE  \E q \in Requests : req'[q].pc = "setH1"
    BY DEF FailureGoesOn
  <2>1. PICK q \in Requests : req[q].pc = "setH1" BY DEF FailureGoesOn
  <2>. QED BY <1>1, <2>1
<1>6. RememberedFirst' BY <1>1 DEF RememberedFirst
<1>7. Single' BY <1>1 DEF Single
<1>. QED BY <1>2, <1>3, <1>4, <1>5, <1>6, <1>7

\* r settles the gate and goes to v.
LEMMA AloneSettling ==
  ASSUME AutoOnly, Inv, Alone, NEW r \in Requests, NEW v \in ReqRecord, NEW g \in 1..MaxGates,
         NEW p \in {"H1Only", "H2Available", "H2FailedRecently"}, gate' = Settled(g, p),
         NEW f, f = Notified(g), req' = [f EXCEPT ![r] = v], UNCHANGED <<route, urlCache>>,
         Fits(v), p = "H2FailedRecently" => v.pc = "setH1" \/ route # "Unknown",
         p = "H2Available" \/ OnRoute(v) => route # "Unknown", DetectsIn(v) => DetectsIn(req[r])
  PROVE  Alone'
<1>. USE DEF Alone
<1>0. g = 1 BY DEF AutoOnly
<1>1. /\ req'[r] = v
      /\ \A q \in Requests \ {r} :
              \/ req'[q] = req[q]
              \/ /\ req'[q].pc = "route" /\ req'[q].why = req[q].why
                 /\ req'[q].gate = req[q].gate /\ req'[q].probed = req[q].probed
  <2>1. /\ f \in [Requests -> ReqRecord]
        /\ \A q \in Requests :
              \/ f[q] = req[q] /\ ~(q \in gate[g].waiters /\ req[q].pc = "asleep")
              \/ /\ req[q].pc = "asleep" /\ f[q].pc = "route" /\ f[q].why = req[q].why
                 /\ f[q].gate = req[q].gate /\ f[q].probed = req[q].probed
    BY NotifiedDoes DEF Inv
  <2>. QED BY <2>1
<1>2. gate'[1].protocol = p /\ gate'[1].retryDue = FALSE
  BY <1>0, SettledDoes DEF Inv, Protocols
<1>3. RoutedOnly' BY <1>1 DEF RoutedOnly, Fits
<1>4. NothingKnown' /\ NobodyRetries' BY <1>2 DEF NothingKnown, NobodyRetries
<1>5. FailureGoesOn' BY <1>1, <1>2 DEF FailureGoesOn
<1>6. RememberedFirst'
  <2>1. \A q \in Requests : OnRoute(req'[q]) => OnRoute(req[q]) \/ q = r BY <1>1 DEF OnRoute
  <2>. QED BY <1>1, <1>2, <2>1 DEF RememberedFirst
<1>7. Single'
  <2>1. \A q \in Requests : DetectsIn(req'[q]) => DetectsIn(req[q]) BY <1>1 DEF DetectsIn
  <2>. QED BY <2>1 DEF Single
<1>. QED BY <1>3, <1>4, <1>5, <1>6, <1>7

LEMMA InitAlone == AutoOnly /\ Init => Alone
<1>. SUFFICES ASSUME AutoOnly, Init PROVE Alone OBVIOUS
<1>1. gate[1] = FreshGate BY DEF AutoOnly, Init
<1>2. \A r \in Requests : req[r] = Idle BY DEF Init
<1>3. RoutedOnly BY <1>2 DEF RoutedOnly, Idle
<1>4. NothingKnown BY <1>2 DEF Init, NothingKnown, Before, Idle
<1>5. NobodyRetries /\ FailureGoesOn BY <1>1 DEF NobodyRetries, FailureGoesOn, FreshGate
<1>6. RememberedFirst BY <1>1, <1>2 DEF Init, RememberedFirst, FreshGate, OnRoute, Idle
<1>7. Single BY <1>2 DEF Single, DetectsIn, Idle
<1>. QED BY <1>3, <1>4, <1>5, <1>6, <1>7 DEF Alone

LEMMA FitsOne ==
  ASSUME Inv, Alone, NEW r \in Requests
  PROVE  req[r] \in ReqRecord /\ Fits(req[r]) /\ InPlace(req[r], created)
BY PlacesOfOne DEF Inv, Alone, RoutedOnly, Fits, ReqTypes

\* r goes on to another place of its code.
LEMMA AloneGoto ==
  ASSUME Inv, Alone, NEW r \in Requests, NEW pc \in {"record", "asleep", "h1", "cancelled", "route"},
         Goto(r, pc), UNCHANGED <<gate, route, urlCache>>, req[r].pc # "setH1",
         pc = "record" => req[r].pc = "h2",
         pc # "route" => req[r].pc \notin Before
  PROVE  Alone'
<1>. DEFINE v == [req[r] EXCEPT !.pc = pc]
<1>1. req' = [req EXCEPT ![r] = v] BY DEF Goto
<1>2. v \in ReqRecord /\ v.pc = pc /\ v.why = req[r].why /\ v.gate = req[r].gate /\ v.probed = req[r].probed
  BY FitsOne DEF ReqRecord, Pcs
<1>. HIDE DEF v
<1>3. Fits(v) BY <1>2, FitsOne DEF Fits
<1>4. ~OnRoute(v) BY <1>2 DEF OnRoute
<1>5. DetectsIn(v) => DetectsIn(req[r]) BY <1>2 DEF DetectsIn
<1>6. gate[1].protocol = "Unknown" => v.pc \in Before BY <1>2 DEF Alone, NothingKnown, Before
<1>7. "H2Available" \in urlCache' => route' # "Unknown" BY DEF Alone, RememberedFirst
<1>. QED BY <1>1, <1>2, <1>3, <1>4, <1>5, <1>6, <1>7, AloneLocal

LEMMA AloneEnd ==
  ASSUME Inv, Alone, NEW r \in Requests, End(r), UNCHANGED gate, req[r].pc \notin Before \cup {"setH1"},
         \/ UNCHANGED <<route, urlCache>>
         \/ route' # "Unknown"
  PROVE  Alone'
<1>1. req' = [req EXCEPT ![r] = Ended] BY DEF End
<1>2. Fits(Ended) /\ ~OnRoute(Ended) /\ ~DetectsIn(Ended) /\ Ended.pc # "entering"
  BY EndedRecord DEF Fits, OnRoute, DetectsIn
<1>3. gate[1].protocol # "Unknown" BY DEF Alone, NothingKnown
<1>4. "H2Available" \in urlCache' => route' # "Unknown" BY DEF Alone, RememberedFirst
<1>. QED BY <1>1, <1>2, <1>3, <1>4, EndedRecord, AloneLocal

\* r goes on to its attempt.
LEMMA AloneCached ==
  ASSUME AutoOnly, Inv, Alone, NEW r \in Requests, NEW pc \in {"h1", "h2"}, NEW why \in {"cached", "detect"},
         req' = [req EXCEPT ![r].pc = pc, ![r].why = why], UNCHANGED <<gate, route>>,
         gate[1].protocol # "Unknown", req[r].pc \in {"route", "UseH1", "UseH2", "Overflow", "Detect"},
         "H2Available" \in urlCache' => route # "Unknown",
         why = "cached" /\ pc = "h2" => route # "Unknown",
         why = "detect" => req[r].pc = "Detect"
  PROVE  Alone'
<1>. DEFINE v == [req[r] EXCEPT !.pc = pc, !.why = why]
<1>1. req' = [req EXCEPT ![r] = v] OBVIOUS
<1>2. v \in ReqRecord /\ v.pc = pc /\ v.why = why /\ v.gate = req[r].gate /\ v.probed = req[r].probed
  BY FitsOne DEF ReqRecord, Pcs, Whys
<1>. HIDE DEF v
<1>3. ~req[r].probed BY FitsOne DEF InPlace
<1>4. Fits(v) /\ (OnRoute(v) => route # "Unknown") BY <1>2, <1>3 DEF Fits, OnRoute
<1>5. DetectsIn(v) => DetectsIn(req[r]) BY <1>2 DEF DetectsIn
<1>. QED BY <1>1, <1>2, <1>3, <1>4, <1>5, AloneLocal

LEMMA StartAlone ==
  ASSUME AutoOnly, Inv, Alone, NEW r \in Requests, NEW policy \in Policies, Start(r, policy)
  PROVE  Alone'
<1>1. policy = "Auto" BY DEF AutoOnly
<1>2. Goto(r, "route") /\ UNCHANGED <<gate, route, urlCache>> /\ req[r].pc = "idle"
  BY <1>1 DEF Start, At
<1>. QED BY <1>2, AloneGoto

LEMMA RouteAlone ==
  ASSUME AutoOnly, Inv, Alone, NEW r \in Requests,
         RouteRemembered(r) \/ \E p \in {"H1Only", "H2Available"} : RouteFromUrlCache(r, p)
  PROVE  Alone'
<1>1. CASE RouteRemembered(r)
  <2>1. PICK pc \in {"h1", "h2"} : req' = [req EXCEPT ![r].pc = pc, ![r].why = "cached"]
    BY <1>1 DEF RouteRemembered
  <2>2. UNCHANGED <<gate, route>> /\ req[r].pc = "route" /\ route # "Unknown"
    BY <1>1 DEF RouteRemembered, At
  <2>3. gate[1].protocol # "Unknown" BY <2>2 DEF Alone, NothingKnown
  <2>. QED BY <2>1, <2>2, <2>3, AloneCached
<1>2. CASE \E p \in {"H1Only", "H2Available"} : RouteFromUrlCache(r, p)
  <2>0. PICK p \in {"H1Only", "H2Available"} : RouteFromUrlCache(r, p) BY <1>2
  <2>1. PICK pc \in {"h1", "h2"} : /\ req' = [req EXCEPT ![r].pc = pc, ![r].why = "cached"]
                                   /\ pc = "h2" => p = "H2Available"
    BY <2>0 DEF RouteFromUrlCache
  <2>2. UNCHANGED <<gate, route, urlCache>> /\ req[r].pc = "route" /\ p \in urlCache
    BY <2>0 DEF RouteFromUrlCache, At
  <2>3. gate[1].protocol # "Unknown" BY <2>2 DEF Alone, NothingKnown
  <2>4. "H2Available" \in urlCache => route # "Unknown" BY DEF Alone, RememberedFirst
  <2>. QED BY <2>1, <2>2, <2>3, <2>4, AloneCached
<1>. QED BY <1>1, <1>2

LEMMA RouteUnknownAlone ==
  ASSUME Inv, Alone, NEW r \in Requests, RouteUnknown(r)
  PROVE  Alone'
<1>. DEFINE v == [req[r] EXCEPT !.pc = "entering", !.gate = TheGate]
<1>1. /\ GetGate /\ req' = [req EXCEPT ![r] = v] /\ UNCHANGED <<gate, route, urlCache>>
      /\ req[r].pc = "route" /\ route = "Unknown"
  BY DEF RouteUnknown, At
<1>2. TheGate \in 1..MaxGates BY <1>1, TheGateExists DEF Inv
<1>3. v \in ReqRecord /\ v.pc = "entering" /\ v.why = req[r].why /\ v.probed = req[r].probed
  <2>1. TheGate \in 0..MaxGates BY <1>2, GateAssumption
  <2>. QED BY FitsOne, <2>1 DEF ReqRecord, Pcs
<1>. HIDE DEF v
<1>4. Fits(v) /\ ~OnRoute(v) /\ ~DetectsIn(v) /\ v.pc \in Before
  BY <1>3, FitsOne DEF Fits, OnRoute, DetectsIn, Before
<1>5. "H2Available" \in urlCache => route # "Unknown" BY DEF Alone, RememberedFirst
<1>. QED BY <1>1, <1>3, <1>4, <1>5, AloneLocal

\* The one step that makes a detector: the gate knew nothing, so there was none.
LEMMA EnterAlone ==
  ASSUME AutoOnly, Inv, Alone, NEW r \in Requests, Enter(r)
  PROVE  Alone'
<1>. DEFINE v == [req[r] EXCEPT !.pc = Decision(1)]
<1>0. req[r].pc = "entering" /\ req[r].gate = 1 /\ 1 \in 1..MaxGates
  BY FitsOne, GateAssumption DEF Enter, At, InPlace, OwnsGate, AutoOnly, Inv, Entries
<1>1. gate' = Entered(r, 1) /\ req' = [req EXCEPT ![r] = v] /\ UNCHANGED <<route, urlCache>>
  BY <1>0 DEF Enter, Goto
<1>2. GateTypes BY DEF Inv
<1>3. \/ Decision(1) = "UseH2" /\ gate[1].protocol = "H2Available"
      \/ Decision(1) = "Detect" /\ Undecided(1)
      \/ Decision(1) \in {"Overflow", "Wait"} /\ gate[1].protocol = "Detecting"
      \/ Decision(1) = "UseH1" /\ gate[1].protocol # "Detecting" /\ ~Undecided(1)
  BY <1>0, <1>2, DecisionCases
<1>4. /\ v \in ReqRecord /\ v.pc = Decision(1) /\ v.why = req[r].why /\ v.gate = req[r].gate
      /\ v.probed = req[r].probed
  BY <1>3, FitsOne DEF ReqRecord, Pcs
<1>. HIDE DEF v
<1>5. Fits(v) BY <1>3, <1>4, FitsOne DEF Fits
<1>6. CASE Decision(1) # "Detect"
  <2>1. gate'[1].protocol = gate[1].protocol /\ gate'[1].retryDue = gate[1].retryDue
    BY <1>0, <1>1, <1>2, <1>6, EnteredDoes
  <2>2. gate[1].protocol # "Unknown" BY <1>3, <1>6 DEF Undecided
  <2>3. ~DetectsIn(v) /\ v.pc # "entering" BY <1>3, <1>4, <1>6 DEF DetectsIn
  <2>4. OnRoute(v) => route # "Unknown" BY <1>3, <1>4, <1>6 DEF OnRoute, Alone, RememberedFirst
  <2>5. "H2Available" \in urlCache => route # "Unknown" BY DEF Alone, RememberedFirst
  <2>. QED BY <1>0, <1>1, <1>4, <1>5, <2>1, <2>2, <2>3, <2>4, <2>5, AloneLocal
<1>7. CASE Decision(1) = "Detect"
  <2>. USE DEF Alone
  <2>1. gate'[1].protocol = "Detecting" BY <1>0, <1>1, <1>2, <1>7, EnteredDoes
  <2>2. gate[1].protocol = "Unknown"
    <3>1. Undecided(1) BY <1>3, <1>7
    <3>. QED BY <1>0, <3>1 DEF Undecided, NobodyRetries
  <2>3. route = "Unknown" /\ urlCache = {} /\ \A q \in Requests : req[q].pc \in Before
    BY <2>2 DEF NothingKnown
  <2>4. req'[r] = v /\ \A q \in Requests \ {r} : req'[q] = req[q]
    BY <1>1, <1>4, OneMoves DEF Inv
  <2>5. RoutedOnly' BY <1>5, <2>4 DEF RoutedOnly, Fits
  <2>6. NothingKnown' /\ NobodyRetries' /\ FailureGoesOn'
    BY <2>1 DEF NothingKnown, NobodyRetries, FailureGoesOn
  <2>7. RememberedFirst'
    <3>1. \A q \in Requests : ~OnRoute(req'[q])
      <4>1. ~OnRoute(v) BY <1>4, <1>7 DEF OnRoute
      <4>. QED BY <2>3, <2>4, <4>1 DEF OnRoute, Before
    <3>. QED BY <1>1, <2>1, <2>3, <3>1 DEF RememberedFirst
  <2>8. Single'
    <3>1. \A q \in Requests \ {r} : ~DetectsIn(req'[q]) BY <2>3, <2>4 DEF DetectsIn, Before
    <3>. QED BY <3>1 DEF Single
  <2>. QED BY <2>5, <2>6, <2>7, <2>8
<1>. QED BY <1>6, <1>7

LEMMA ResumeAlone ==
  ASSUME AutoOnly, Inv, Alone, NEW r \in Requests, Resume(r)
  PROVE  Alone'
<1>0. "H2Available" \in urlCache => route # "Unknown" BY DEF Alone, RememberedFirst
<1>1. CASE ResumeUseH2(r)
  <2>1. /\ req' = [req EXCEPT ![r].pc = "h2", ![r].why = "cached"]
        /\ UNCHANGED <<gate, route>> /\ req[r].pc = "UseH2"
    BY <1>1 DEF ResumeUseH2, At
  <2>2. gate[1].protocol # "Unknown" /\ route # "Unknown"
    BY <2>1 DEF Alone, NothingKnown, Before, RememberedFirst, OnRoute
  <2>. QED BY <2>1, <2>2, AloneCached
<1>2. CASE ResumeUseH1(r) \/ ResumeOverflow(r)
  <2>1. /\ req' = [req EXCEPT ![r].pc = "h1", ![r].why = "cached"]
        /\ UNCHANGED <<gate, route>> /\ req[r].pc \in {"UseH1", "Overflow"}
        /\ "H2Available" \in urlCache' => "H2Available" \in urlCache
    BY <1>2 DEF ResumeUseH1, ResumeOverflow, At
  <2>2. gate[1].protocol # "Unknown" BY <2>1 DEF Alone, NothingKnown, Before
  <2>. QED BY <1>0, <2>1, <2>2, AloneCached
<1>3. CASE ResumeDetect(r)
  <2>1. /\ req' = [req EXCEPT ![r].pc = "h2", ![r].why = "detect"]
        /\ UNCHANGED <<gate, route, urlCache>> /\ req[r].pc = "Detect"
    BY <1>3 DEF ResumeDetect, At
  <2>2. gate[1].protocol # "Unknown" BY <2>1 DEF Alone, NothingKnown, Before
  <2>. QED BY <1>0, <2>1, <2>2, AloneCached
<1>4. CASE ResumeWait(r)
  <2>1. Goto(r, "asleep") /\ UNCHANGED <<gate, route, urlCache>> /\ req[r].pc = "Wait"
    BY <1>4 DEF ResumeWait, At
  <2>. QED BY <2>1, AloneGoto DEF Before
<1>. QED BY <1>1, <1>2, <1>3, <1>4 DEF Resume

LEMMA H2Alone ==
  ASSUME Inv, Alone, NEW r \in Requests, H2Succeeds(r) \/ H2Fails(r)
  PROVE  Alone'
<1>1. req[r].pc = "h2" /\ UNCHANGED <<gate, route, urlCache>> BY DEF H2Succeeds, H2Fails, At
<1>2. CASE Goto(r, "record") BY <1>1, <1>2, AloneGoto DEF Before
<1>3. CASE End(r) BY <1>1, <1>3, AloneEnd DEF Before
<1>4. CASE H2Fails(r) /\ ~End(r)
  <2>. DEFINE v == [req[r] EXCEPT !.pc = "mark", !.marks = TheGate]
  <2>1. GetGate /\ req' = [req EXCEPT ![r] = v] BY <1>4 DEF H2Fails
  <2>2. TheGate \in 1..MaxGates BY <2>1, TheGateExists DEF Inv
  <2>3. /\ v \in ReqRecord /\ v.pc = "mark" /\ v.why = req[r].why
        /\ v.gate = req[r].gate /\ v.probed = req[r].probed
    <3>1. TheGate \in 0..MaxGates BY <2>2, GateAssumption
    <3>. QED BY <3>1, FitsOne DEF ReqRecord, Pcs
  <2>. HIDE DEF v
  <2>4. Fits(v) BY <1>1, <2>3, FitsOne DEF Fits
  <2>5. OnRoute(v) => route # "Unknown" BY <1>1, <2>3 DEF OnRoute, Alone, RememberedFirst
  <2>6. DetectsIn(v) => DetectsIn(req[r]) BY <1>1, <2>3 DEF DetectsIn
  <2>7. "H2Available" \in urlCache => route # "Unknown" BY DEF Alone, RememberedFirst
  <2>8. gate[1].protocol # "Unknown" BY <1>1 DEF Alone, NothingKnown, Before
  <2>. QED BY <1>1, <2>1, <2>3, <2>4, <2>5, <2>6, <2>7, <2>8, AloneLocal
<1>. QED BY <1>2, <1>3, <1>4 DEF H2Succeeds

LEMMA MarkFailedAlone ==
  ASSUME AutoOnly, Inv, Alone, NEW r \in Requests, MarkFailed(r)
  PROVE  Alone'
<1>. DEFINE g == req[r].marks
            f == Notified(g)
            v == AfterMark(r)
<1>1. /\ req[r].pc = "mark" /\ gate' = Settled(g, "H2FailedRecently")
      /\ req' = [f EXCEPT ![r] = v] /\ UNCHANGED <<route, urlCache>>
  BY DEF MarkFailed, At
<1>2. g \in 1..MaxGates BY <1>1, FitsOne, GateAssumption DEF InPlace, Inv, Entries
<1>3. /\ v \in ReqRecord /\ Fits(v) /\ ~OnRoute(v)
      /\ DetectsIn(v) => DetectsIn(req[r])
      /\ v.pc = "setH1" \/ route # "Unknown"
  <2>1. CASE req[r].why = "detect" /\ ~req[r].probed
    <3>. DEFINE w == [req[r] EXCEPT !.pc = "setH1"]
    <3>1. v = w BY <2>1 DEF AfterMark
    <3>2. w \in ReqRecord /\ w.pc = "setH1" /\ w.why = req[r].why /\ w.gate = req[r].gate
          /\ w.probed = req[r].probed
      BY FitsOne DEF ReqRecord, Pcs
    <3>. HIDE DEF v, w
    <3>3. Fits(w) /\ ~OnRoute(w) BY <3>2, FitsOne DEF Fits, OnRoute
    <3>4. DetectsIn(w) => DetectsIn(req[r]) BY <1>1, <3>2 DEF DetectsIn
    <3>. QED BY <3>1, <3>2, <3>3, <3>4
  <2>2. CASE ~(req[r].why = "detect" /\ ~req[r].probed)
    <3>1. req[r].why \in {"cached", "detect"} BY <1>1, FitsOne DEF Fits
    <3>2. v = Ended BY <2>2, <3>1 DEF AfterMark
    <3>3. route # "Unknown" BY <1>1, <2>2, <3>1 DEF Alone, RememberedFirst, OnRoute
    <3>. QED BY <3>2, <3>3, EndedRecord DEF Fits, OnRoute, DetectsIn
  <2>. QED BY <2>1, <2>2
<1>. HIDE DEF v, f, g
<1>4. f = Notified(g) BY DEF f
<1>. QED BY <1>1, <1>2, <1>3, <1>4, AloneSettling

LEMMA SetAlone ==
  ASSUME AutoOnly, Inv, Alone, NEW r \in Requests, SetH1(r) \/ SetH2(r)
  PROVE  Alone'
<1>. DEFINE g == req[r].gate
            f == Notified(g)
<1>1. f = Notified(g) /\ g \in 1..MaxGates
  BY FitsOne, GateAssumption DEF SetH1, SetH2, At, InPlace, OwnsGate, Inv, Entries
<1>2. ASSUME NEW pc \in {"probe", "h2"}, NEW w, w = [req[r] EXCEPT !.pc = pc]
      PROVE  w \in ReqRecord /\ w.pc = pc /\ w.why = req[r].why /\ w.probed = req[r].probed
  BY <1>2, FitsOne DEF ReqRecord, Pcs
<1>3. Fits(Ended) /\ ~OnRoute(Ended) /\ ~DetectsIn(Ended)
  BY EndedRecord DEF Fits, OnRoute, DetectsIn
<1>4. CASE SetH1(r)
  <2>. DEFINE w == [req[r] EXCEPT !.pc = "probe"]
              v == IF req[r].why = "detect" THEN w ELSE Ended
  <2>1. gate' = Settled(g, "H1Only") /\ req' = [f EXCEPT ![r] = v] /\ UNCHANGED <<route, urlCache>>
    BY <1>4 DEF SetH1
  <2>2. w \in ReqRecord /\ w.pc = "probe" /\ w.why = req[r].why BY <1>2
  <2>. HIDE DEF w, f, g
  <2>3. ~OnRoute(w) /\ ~DetectsIn(w) /\ (req[r].why = "detect" => Fits(w))
    BY <2>2 DEF Fits, OnRoute, DetectsIn
  <2>4. v \in ReqRecord /\ Fits(v) /\ ~OnRoute(v) /\ ~DetectsIn(v) BY <1>3, <2>2, <2>3, EndedRecord
  <2>. HIDE DEF v
  <2>. QED BY <1>1, <2>1, <2>4, AloneSettling
<1>5. CASE SetH2(r)
  <2>. DEFINE w == [req[r] EXCEPT !.pc = "h2"]
              v == IF req[r].probed THEN w ELSE Ended
  <2>1. /\ gate' = Settled(g, "H2Available") /\ req' = [f EXCEPT ![r] = v] /\ UNCHANGED <<route, urlCache>>
        /\ req[r].pc = "setH2"
    BY <1>5 DEF SetH2, At
  <2>2. route # "Unknown" BY <2>1 DEF Alone, RememberedFirst, OnRoute
  <2>3. w \in ReqRecord /\ w.pc = "h2" /\ w.why = req[r].why /\ w.probed = req[r].probed BY <1>2
  <2>. HIDE DEF w, f, g
  <2>4. req[r].probed => Fits(w) BY <2>3, FitsOne DEF Fits
  <2>5. req[r].probed => ~DetectsIn(w) BY <2>3 DEF DetectsIn
  <2>6. v \in ReqRecord /\ Fits(v) /\ ~DetectsIn(v) BY <1>3, <2>3, <2>4, <2>5, EndedRecord
  <2>. HIDE DEF v
  <2>. QED BY <1>1, <2>1, <2>2, <2>6, AloneSettling
<1>. QED BY <1>4, <1>5

LEMMA ProbeAlone ==
  ASSUME Inv, Alone, NEW r \in Requests, ProbeFindsH1(r) \/ ProbeFindsH2(r) \/ ProbeFails(r)
  PROVE  Alone'
<1>1. req[r].pc = "probe" /\ UNCHANGED gate /\ req[r].why = "detect"
  BY FitsOne DEF ProbeFindsH1, ProbeFindsH2, ProbeFails, At, Fits
<1>2. CASE ProbeFindsH1(r)
  <2>1. End(r) /\ route' # "Unknown" BY <1>2 DEF ProbeFindsH1, RememberRoute
  <2>. QED BY <1>1, <2>1, AloneEnd DEF Before
<1>3. CASE ProbeFindsH2(r)
  <2>. DEFINE v == [req[r] EXCEPT !.pc = "record", !.probed = TRUE]
  <2>1. req' = [req EXCEPT ![r] = v] /\ UNCHANGED <<route, urlCache>> BY <1>3 DEF ProbeFindsH2
  <2>2. v \in ReqRecord /\ v.pc = "record" /\ v.why = req[r].why /\ v.probed = TRUE
    BY FitsOne DEF ReqRecord, Pcs
  <2>. HIDE DEF v
  <2>3. Fits(v) /\ ~OnRoute(v) /\ ~DetectsIn(v) BY <1>1, <2>2 DEF Fits, OnRoute, DetectsIn
  <2>4. "H2Available" \in urlCache => route # "Unknown" BY DEF Alone, RememberedFirst
  <2>5. gate[1].protocol # "Unknown" BY <1>1 DEF Alone, NothingKnown, Before
  <2>. QED BY <1>1, <2>1, <2>2, <2>3, <2>4, <2>5, AloneLocal
<1>4. CASE ProbeFails(r)
  <2>1. Goto(r, "h1") /\ UNCHANGED <<route, urlCache>> BY <1>4 DEF ProbeFails
  <2>. QED BY <1>1, <2>1, AloneGoto DEF Before
<1>. QED BY <1>2, <1>3, <1>4

LEMMA RecordAlone ==
  ASSUME AutoOnly, Inv, Alone, NEW r \in Requests, Record(r)
  PROVE  Alone'
<1>. DEFINE g == req[r].gate
            w == [gate[g] EXCEPT !.sawH2 = TRUE]
            v == [req[r] EXCEPT !.pc = "setH2"]
<1>1. /\ req[r].pc = "record" /\ route' = "H2Available" /\ gate' = [gate EXCEPT ![g] = w]
      /\ req' = [req EXCEPT ![r] = v]
  BY DEF Record, RememberRoute, At, Goto
<1>2. g = 1 /\ 1 \in 1..MaxGates
  BY <1>1, FitsOne, GateAssumption DEF InPlace, OwnsGate, Inv, Entries, AutoOnly
<1>3. v \in ReqRecord /\ v.pc = "setH2" /\ v.why = req[r].why /\ v.gate = g /\ v.probed = req[r].probed
  BY FitsOne DEF ReqRecord, Pcs
<1>4. gate'[1].protocol = gate[1].protocol /\ gate'[1].retryDue = gate[1].retryDue
  <2>1. gate[1] \in GateRecord BY <1>2 DEF Inv, GateTypes
  <2>2. w.protocol = gate[1].protocol /\ w.retryDue = gate[1].retryDue BY <1>2, <2>1 DEF GateRecord
  <2>. HIDE DEF w
  <2>. QED BY <1>1, <1>2, <2>2 DEF Inv, GateTypes
<1>. HIDE DEF v, w
<1>5. Fits(v) BY <1>3, FitsOne DEF Fits
<1>6. DetectsIn(v) => DetectsIn(req[r]) BY <1>1, <1>3 DEF DetectsIn
<1>7. gate[1].protocol # "Unknown" BY <1>1 DEF Alone, NothingKnown, Before
<1>. QED BY <1>1, <1>3, <1>4, <1>5, <1>6, <1>7, AloneLocal

LEMMA H1Alone ==
  ASSUME Inv, Alone, NEW r \in Requests, H1Succeeds(r) \/ H1Fails(r)
  PROVE  Alone'
<1>1. req[r].pc = "h1" /\ req[r].why # "preferH1"
  BY FitsOne DEF H1Succeeds, H1Fails, At, Fits
<1>2. End(r) /\ UNCHANGED <<gate, route, urlCache>> BY <1>1 DEF H1Succeeds, H1Fails
<1>. QED BY <1>1, <1>2, AloneEnd DEF Before

LEMMA CancelAlone ==
  ASSUME Inv, Alone, NEW r \in Requests, Cancel(r)
  PROVE  Alone'
BY AloneGoto DEF Cancel, Before

\* The retry becomes due when nothing is posted: then nobody is on the way to the
\* gate, and a detection that failed has been decided otherwise.
LEMMA RetryDueAlone ==
  ASSUME AutoOnly, Inv, Alone, NEW g \in 1..MaxGates, RetryDue(g)
  PROVE  Alone'
<1>. USE DEF Alone
<1>. DEFINE w == [gate[g] EXCEPT !.retryDue = TRUE]
<1>1. /\ gate' = [gate EXCEPT ![g] = w] /\ UNCHANGED <<route, urlCache, req>>
      /\ gate[g].protocol = "H2FailedRecently" /\ g = 1
      /\ \A r \in Requests : req[r].pc \notin {"entering", "setH1"}
  BY DEF RetryDue, AutoOnly, Posted
<1>2. gate'[1].protocol = gate[1].protocol
  <2>1. gate[1] \in GateRecord BY <1>1 DEF Inv, GateTypes
  <2>2. w.protocol = gate[1].protocol BY <1>1, <2>1 DEF GateRecord
  <2>. HIDE DEF w
  <2>. QED BY <1>1, <2>2 DEF Inv, GateTypes
<1>3. route # "Unknown" BY <1>1 DEF FailureGoesOn
<1>4. RoutedOnly' BY <1>1 DEF RoutedOnly
<1>5. NothingKnown' /\ NobodyRetries' BY <1>1, <1>2, <1>3 DEF NothingKnown, NobodyRetries
<1>6. FailureGoesOn' /\ RememberedFirst' BY <1>1, <1>3 DEF FailureGoesOn, RememberedFirst
<1>7. Single' BY <1>1 DEF Single
<1>. QED BY <1>4, <1>5, <1>6, <1>7

LEMMA NextAlone ==
  ASSUME AutoOnly, Inv, Alone, [Next]_vars
  PROVE  Alone'
<1>1. ASSUME NEW r \in Requests, Progress(r) PROVE Alone'
  <2>1. CASE \E p \in {"H1Only", "H2Available"} : RouteFromUrlCache(r, p) BY <2>1, RouteAlone
  <2>2. CASE RouteRemembered(r) BY <2>2, RouteAlone
  <2>3. CASE RouteUnknown(r) BY <2>3, RouteUnknownAlone
  <2>4. CASE Enter(r) BY <2>4, EnterAlone
  <2>5. CASE H2Succeeds(r) \/ H2Fails(r) BY <2>5, H2Alone
  <2>6. CASE MarkFailed(r) BY <2>6, MarkFailedAlone
  <2>7. CASE MarkOwnFailed(r) BY <2>7, FitsOne DEF MarkOwnFailed, At, Fits
  <2>8. CASE SetH1(r) \/ SetH2(r) BY <2>8, SetAlone
  <2>9. CASE ProbeFindsH1(r) \/ ProbeFindsH2(r) \/ ProbeFails(r) BY <2>9, ProbeAlone
  <2>10. CASE Record(r) BY <2>10, RecordAlone
  <2>11. CASE H1Succeeds(r) \/ H1Fails(r) BY <2>11, H1Alone
  <2>. QED BY <1>1, <2>1, <2>2, <2>3, <2>4, <2>5, <2>6, <2>7, <2>8, <2>9, <2>10, <2>11 DEF Progress
<1>2. ASSUME NEW r \in Requests, Step(r) PROVE Alone' BY <1>1, <1>2, ResumeAlone DEF Step
<1>3. ASSUME NEW r \in Requests, NEW policy \in Policies, Start(r, policy) PROVE Alone'
  BY <1>3, StartAlone
<1>4. ASSUME NEW r \in Requests, Cancel(r) PROVE Alone' BY <1>4, CancelAlone
<1>5. ASSUME NEW g \in 1..MaxGates, RetryDue(g) PROVE Alone' BY <1>5, RetryDueAlone
<1>6. CASE Evict BY <1>6, GateAssumption DEF Evict, AutoOnly, Inv, Entries
<1>7. CASE UNCHANGED vars
  <2>. USE <1>7 DEF vars, Alone
  <2>1. RoutedOnly' /\ NothingKnown' /\ NobodyRetries' BY DEF RoutedOnly, NothingKnown, NobodyRetries
  <2>2. FailureGoesOn' /\ RememberedFirst' BY DEF FailureGoesOn, RememberedFirst
  <2>3. Single' BY DEF Single
  <2>. QED BY <2>1, <2>2, <2>3
<1>. QED BY <1>2, <1>3, <1>4, <1>5, <1>6, <1>7 DEF Next

\* While every request is routed automatically and the entry stays in the cache, one
\* request at a time finds the protocol of the origin out, with cancellations, retries
\* and a gap after enter() wherever they fall.
THEOREM DetectorIsAlone == ASSUME AutoOnly PROVE Spec => []OneDetector
<1>1. Init => Alone BY InitAlone
<1>2. Inv /\ Alone /\ [Next]_vars => Alone' BY NextAlone
<1>3. ASSUME Inv, Alone PROVE OneDetector
  <2>1. \A g \in 1..created : g = 1 BY <1>3, GateAssumption DEF Inv, Entries, AutoOnly
  <2>2. \A r \in Requests : Detects(r, 1) => DetectsIn(req[r]) BY DEF Detects, DetectsIn
  <2>. QED BY <1>3, <2>1, <2>2 DEF Alone, Single, OneDetector
<1>. QED BY InvHolds, <1>1, <1>2, <1>3, PTL DEF Spec
=============================================================================
