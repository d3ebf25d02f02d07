--------------------------- MODULE GatewayProofs ---------------------------
(***************************************************************************)
(* What every number of processes, calls and tasks keeps of Gateway: the   *)
(* order in which the events of a call are replayed, the board that        *)
(* settles, and the learnings that survive.                                *)
(***************************************************************************)
EXTENDS Gateway, TLAPS

(* The events still to be recorded fit the phase of the call.                *)
Scripts == {<<"active">>, <<"passed">>, <<"failed">>, <<"blocked", "failed">>}
Recording(c) == c.phase \in {"number", "append"}
Scripted ==
  \A p \in Proc : Busy(p) =>
    IF Recording(call[p]) THEN call[p].todo \in Scripts ELSE call[p].todo = <<>>

(* A call has a number of its own, and so have its events.                   *)
DistinctCalls ==
  /\ \A p \in Proc : Busy(p) => call[p].id <= calls
  /\ \A p, q \in Proc : Busy(p) /\ Busy(q) /\ p # q => call[p].id # call[q].id
  /\ \A i \in DOMAIN ledger : ledger[i].call # None => ledger[i].call <= calls

(* A number counted before the insert is at most the place of the event.     *)
CountedNumbers ==
  /\ \A i \in DOMAIN ledger : ledger[i].call # None => ledger[i].seq <= i
  /\ \A p \in Proc : call[p].phase = "append" => call[p].seq <= Len(ledger) + 1

(* The events of a call under way: their stage and number lie before those   *)
(* of the event to come, and their task is the call's.                       *)
Limit(c) == IF Recording(c) THEN Stage([status |-> Head(c.todo)]) ELSE 2

OwnEvents ==
  \A p \in Proc, i \in DOMAIN ledger :
    Busy(p) /\ ledger[i].call = call[p].id =>
      /\ call[p].request.recorded
      /\ ledger[i].task = call[p].request.task
      /\ Stage(ledger[i]) < Limit(call[p])
      /\ call[p].phase = "append" => ledger[i].seq < call[p].seq

RecordsAsked == \A p \in Proc : Busy(p) /\ Recording(call[p]) => call[p].request.recorded

SameTask ==
  \A i, j \in DOMAIN ledger :
    ledger[i].call # None /\ ledger[i].call = ledger[j].call => ledger[i].task = ledger[j].task

(* A start or a denial belongs to a call that broke off, that goes on, or    *)
(* that has a finish in the ledger.                                          *)
Followed ==
  \A i \in DOMAIN ledger : ledger[i].call # None /\ Stage(ledger[i]) # 3 =>
    \/ ledger[i].call \in broken
    \/ \E p \in Proc : Busy(p) /\ call[p].id = ledger[i].call
    \/ \E j \in DOMAIN ledger : ledger[j].call = ledger[i].call /\ Stage(ledger[j]) = 3

EventInv ==
  /\ DistinctCalls /\ CountedNumbers /\ OwnEvents /\ RecordsAsked
  /\ SameTask /\ Followed /\ ReplayKeepsCallOrder

(* Writers that are under way together are marked, and the others have read  *)
(* everything that was stored without a mark.                                *)
MemoryInv ==
  /\ \A p, q \in Proc : Writing(p) /\ Writing(q) /\ p # q => call[p].id \in overlapped
  /\ \A p \in Proc : Writing(p) => stored \ overlapped \subseteq call[p].loaded
  /\ LearningsSurvive

-----------------------------------------------------------------------------
(* Types *)

(* The types and the scripts hold at the start.                              *)
LEMMA InitTyped == Init => TypeOK /\ Scripted
<1>1. 0 \in 0..MaxCalls /\ 0 \in 0..MaxSubmits
  BY GatewayAssumption
<1> QED
  BY <1>1 DEF Init, TypeOK, Scripted, Idle, Busy

(* What Concluded returns: a call that has a script to record, or none.      *)
LEMMA ConcludedTyped ==
  ASSUME NEW c \in Call, NEW ok \in BOOLEAN
  PROVE  \/ /\ Concluded(c, ok) \in Call /\ Concluded(c, ok).phase = "number"
            /\ Concluded(c, ok).todo \in Scripts /\ c.request.recorded
            /\ Concluded(c, ok).id = c.id /\ Concluded(c, ok).request = c.request
            /\ Stage([status |-> Head(Concluded(c, ok).todo)]) > 1
         \/ ~c.request.recorded /\ Concluded(c, ok) = Idle
<1>1. CASE c.request.recorded
  <2> DEFINE t == IF ok THEN <<"passed">> ELSE <<"blocked", "failed">>
  <2>1. t \in Seq(CallStatus) /\ t \in Scripts
    BY DEF CallStatus, Scripts
  <2>2. Concluded(c, ok) = [c EXCEPT !.todo = t, !.phase = "number"]
    BY <1>1 DEF Concluded
  <2>3. Stage([status |-> Head(t)]) > 1
    BY DEF Stage
  <2> HIDE DEF t
  <2> QED
    BY <1>1, <2>1, <2>2, <2>3 DEF Call, Phase
<1>2. CASE ~c.request.recorded
  BY <1>2 DEF Concluded
<1> QED
  BY <1>1, <1>2

(* What Recorded returns for a call that appends an event.                   *)
LEMMA RecordedTyped ==
  ASSUME NEW c \in Call, c.phase = "append", c.todo \in Scripts
  PROVE  \/ /\ c.todo = <<"blocked", "failed">>
            /\ Recorded(c) \in Call /\ Recorded(c).phase = "number"
            /\ Recorded(c).todo = <<"failed">>
            /\ Recorded(c).id = c.id /\ Recorded(c).request = c.request
         \/ /\ c.todo = <<"active">>
            /\ Recorded(c) \in Call /\ Recorded(c).phase = "authorize"
            /\ Recorded(c).todo = <<>>
            /\ Recorded(c).id = c.id /\ Recorded(c).request = c.request
         \/ c.todo \in {<<"passed">>, <<"failed">>} /\ Recorded(c) = Idle
<1>1. CASE c.todo = <<"blocked", "failed">>
  <2>1. Tail(c.todo) = <<"failed">> /\ Tail(c.todo) # <<>>
    BY <1>1
  <2>2. <<"failed">> \in Seq(CallStatus)
    BY DEF CallStatus
  <2> QED
    BY <1>1, <2>1, <2>2 DEF Recorded, Call, Phase
<1>2. CASE c.todo = <<"active">>
  <2>1. Tail(c.todo) = <<>> /\ Head(c.todo) = "active"
    BY <1>2
  <2>2. <<>> \in Seq(CallStatus)
    OBVIOUS
  <2> QED
    BY <1>2, <2>1, <2>2 DEF Recorded, Call, Phase
<1>3. CASE c.todo = <<"passed">>
  <2>1. Tail(c.todo) = <<>> /\ Head(c.todo) = "passed"
    BY <1>3
  <2> QED
    BY <1>3, <2>1 DEF Recorded
<1>4. CASE c.todo = <<"failed">>
  <2>1. Tail(c.todo) = <<>> /\ Head(c.todo) = "failed"
    BY <1>4
  <2> QED
    BY <1>4, <2>1 DEF Recorded
<1> QED
  BY <1>1, <1>2, <1>3, <1>4 DEF Scripts

(* The event that a call appends is one of the ledger.                       *)
LEMMA EventTyped ==
  ASSUME NEW c \in Call, c.todo \in Scripts
  PROVE  /\ EventOf(c) \in Event
         /\ EventOf(c).call = c.id /\ EventOf(c).task = c.request.task
         /\ EventOf(c).status = Head(c.todo) /\ EventOf(c).seq = c.seq
<1>1. Head(c.todo) \in EventStatus
  BY DEF Scripts, EventStatus
<1>2. c.request \in Request /\ c.request.task \in Task \cup {None}
  BY GatewayAssumption DEF Call, Request
<1> QED
  BY <1>1, <1>2 DEF EventOf, Event, Call

(* A call that is concluded keeps the types, and leaves the other processes  *)
(* alone.                                                                    *)
LEMMA ConcludeTyped ==
  ASSUME TypeOK, Scripted, NEW p \in Proc, Busy(p), NEW ok \in BOOLEAN, Conclude(p, ok)
  PROVE  /\ call' \in [Proc -> Call \cup {Idle}] /\ Scripted'
         /\ call'[p] = Concluded(call[p], ok)
         /\ \A q \in Proc \ {p} : call'[q] = call[q]
<1>1. call[p] \in Call
  BY DEF TypeOK, Busy, Idle
<1> DEFINE d == Concluded(call[p], ok)
<1>2. \/ d \in Call /\ d.phase = "number" /\ d.todo \in Scripts
      \/ d = Idle
  BY <1>1, ConcludedTyped
<1>3. call' = [call EXCEPT ![p] = d]
  BY DEF Conclude
<1> HIDE DEF d
<1>4. /\ call' \in [Proc -> Call \cup {Idle}] /\ call'[p] = d
      /\ \A q \in Proc \ {p} : call'[q] = call[q]
  BY <1>2, <1>3 DEF TypeOK
<1>5. Scripted'
  BY <1>2, <1>4 DEF Scripted, Busy, Recording, Idle
<1> QED
  BY <1>4, <1>5 DEF d

(* A call that breaks off is one that was under way.                         *)
LEMMA BrokenOff ==
  ASSUME NEW p \in Proc, AuthorizeRaises(p) \/ HandlerRaises(p) \/ Die(p)
  PROVE  Busy(p) /\ BreakOff(p)
BY DEF AuthorizeRaises, HandlerRaises, Die, Busy

(* Every step keeps the types and the scripts.                               *)
LEMMA StepTyped == TypeOK /\ Scripted /\ [Next]_vars => TypeOK' /\ Scripted'
<1> SUFFICES ASSUME TypeOK, Scripted, [Next]_vars PROVE TypeOK' /\ Scripted'
  OBVIOUS
<1>c. \A p \in Proc : Busy(p) => call[p] \in Call
  BY DEF TypeOK, Busy, Idle
<1>1. ASSUME NEW p \in Proc, NEW r \in Requests, Receive(p, r)
      PROVE  TypeOK' /\ Scripted'
  <2> DEFINE c == [id |-> calls + 1, request |-> r,
                   phase |-> IF r.recorded THEN "number" ELSE "authorize",
                   todo |-> IF r.recorded THEN <<"active">> ELSE <<>>,
                   seq |-> 0, loaded |-> {}]
  <2>1. calls + 1 \in 1..MaxCalls /\ calls' \in 0..MaxCalls
    BY <1>1, GatewayAssumption DEF Receive, TypeOK
  <2>2. c.todo \in Seq(CallStatus)
    <3>1. <<"active">> \in Seq(CallStatus) /\ <<>> \in Seq(CallStatus)
      BY DEF CallStatus
    <3> QED
      BY <3>1
  <2>3. c \in Call
    BY <2>1, <2>2 DEF Call, Phase
  <2>4. IF Recording(c) THEN c.todo \in Scripts ELSE c.todo = <<>>
    BY DEF Recording, Scripts
  <2>5. call' = [call EXCEPT ![p] = c]
    BY <1>1 DEF Receive
  <2> HIDE DEF c
  <2>6. TypeOK'
    BY <1>1, <2>1, <2>3, <2>5 DEF Receive, TypeOK
  <2>7. Scripted'
    BY <2>4, <2>5 DEF Scripted, Busy, Recording, TypeOK
  <2> QED
    BY <2>6, <2>7
<1>2. ASSUME NEW p \in Proc, Number(p)
      PROVE  TypeOK' /\ Scripted'
  <2> DEFINE n == Len(ledger) + 1
             c == [call[p] EXCEPT !.seq = n, !.phase = "append"]
  <2>n. n \in Nat
    BY DEF TypeOK
  <2> HIDE DEF n
  <2>1. Busy(p) /\ call[p] \in Call
    BY <1>2, <1>c DEF Number, Busy
  <2>2. c \in Call /\ c.todo = call[p].todo /\ c.phase = "append"
    BY <2>1, <2>n DEF Call, Phase
  <2>3. call' = [call EXCEPT ![p] = c]
    BY <1>2 DEF Number, n
  <2>4. call[p].todo \in Scripts
    BY <1>2, <2>1 DEF Scripted, Recording, Number
  <2> HIDE DEF c
  <2>5. TypeOK'
    BY <1>2, <2>2, <2>3 DEF Number, TypeOK
  <2>6. Scripted'
    BY <2>2, <2>3, <2>4 DEF Scripted, Busy, Recording, TypeOK
  <2> QED
    BY <2>5, <2>6
<1>3. ASSUME NEW p \in Proc, AppendEvent(p)
      PROVE  TypeOK' /\ Scripted'
  <2>1. Busy(p) /\ call[p] \in Call /\ call[p].phase = "append"
    BY <1>3, <1>c DEF AppendEvent, Busy
  <2>2. call[p].todo \in Scripts
    BY <2>1 DEF Scripted, Recording
  <2>3. ledger' = Append(ledger, EventOf(call[p])) /\ call' = [call EXCEPT ![p] = Recorded(call[p])]
    BY <1>3 DEF AppendEvent
  <2>4. EventOf(call[p]) \in Event
    BY <2>1, <2>2, EventTyped
  <2>5. /\ Recorded(call[p]) \in Call \cup {Idle}
        /\ IF Recording(Recorded(call[p])) THEN Recorded(call[p]).todo \in Scripts
           ELSE Recorded(call[p]) = Idle \/ Recorded(call[p]).todo = <<>>
    <3> DEFINE d == Recorded(call[p])
    <3>1. \/ d \in Call /\ d.phase = "number" /\ d.todo = <<"failed">>
          \/ d \in Call /\ d.phase = "authorize" /\ d.todo = <<>>
          \/ d = Idle
      BY <2>1, <2>2, RecordedTyped
    <3>2. <<"failed">> \in Scripts
      BY DEF Scripts
    <3> HIDE DEF d
    <3>3. /\ d \in Call \cup {Idle}
          /\ IF Recording(d) THEN d.todo \in Scripts ELSE d = Idle \/ d.todo = <<>>
      BY <3>1, <3>2 DEF Recording, Idle
    <3> QED
      BY <3>3 DEF d
  <2>6. TypeOK'
    BY <1>3, <2>3, <2>4, <2>5 DEF AppendEvent, TypeOK
  <2>7. Scripted'
    BY <2>3, <2>5 DEF Scripted, Busy, Recording, TypeOK, Idle
  <2> QED
    BY <2>6, <2>7
<1>4. ASSUME NEW p \in Proc, Authorize(p)
      PROVE  TypeOK' /\ Scripted'
  <2>1. Busy(p) /\ call[p] \in Call /\ call[p].phase = "authorize" /\ call[p].todo = <<>>
    BY <1>4, <1>c DEF Authorize, Busy, Scripted, Recording
  <2>2. CASE Visible(call[p].request)
    <3>1. [call[p] EXCEPT !.phase = "handle"] \in Call
      BY <2>1 DEF Call, Phase
    <3>2. call' = [call EXCEPT ![p] = [call[p] EXCEPT !.phase = "handle"]]
      BY <1>4, <2>2 DEF Authorize
    <3>3. [call[p] EXCEPT !.phase = "handle"].todo = <<>>
      BY <2>1 DEF Call
    <3>4. [call[p] EXCEPT !.phase = "handle"].phase = "handle"
      BY <2>1 DEF Call
    <3> QED
      BY <1>4, <3>1, <3>2, <3>3, <3>4 DEF Authorize, TypeOK, Scripted, Busy, Recording
  <2>3. CASE ~Visible(call[p].request)
    BY <1>4, <2>1, <2>3, ConcludeTyped DEF Authorize, TypeOK
  <2> QED
    BY <2>2, <2>3
<1>5. ASSUME NEW p \in Proc, AuthorizeRaises(p) \/ HandlerRaises(p) \/ Die(p)
      PROVE  TypeOK' /\ Scripted'
  <2>1. Busy(p) /\ BreakOff(p) /\ call[p].id \in 1..MaxCalls
    BY <1>5, <1>c, BrokenOff DEF Call
  <2> QED
    BY <2>1 DEF BreakOff, TypeOK, Scripted, Busy, Recording, Idle
<1>7. ASSUME NEW p \in Proc, LoadMemory(p)
      PROVE  TypeOK' /\ Scripted'
  <2>1. Busy(p) /\ call[p] \in Call /\ call[p].phase = "handle" /\ call[p].todo = <<>>
    BY <1>7, <1>c DEF LoadMemory, Busy, Scripted, Recording
  <2>2. CASE ~Loads(p) \/ call[p].request.tool \in MemoryReaders
    BY <1>7, <2>1, <2>2, ConcludeTyped DEF LoadMemory, TypeOK, Loads
  <2>3. CASE ~(~Loads(p) \/ call[p].request.tool \in MemoryReaders)
    <3> DEFINE l == IF p \in Filed THEN memory ELSE {}
               c == [call[p] EXCEPT !.loaded = l, !.phase = "persist"]
    <3>1. l \subseteq 1..MaxCalls
      BY <2>3 DEF TypeOK, Readable, Loads
    <3>2. c \in Call /\ c.todo = <<>> /\ c.phase = "persist"
      BY <2>1, <3>1 DEF Call, Phase
    <3>3. call' = [call EXCEPT ![p] = c]
      BY <1>7, <2>3 DEF LoadMemory
    <3> HIDE DEF c
    <3>4. overlapped' \subseteq 1..MaxCalls
      <4>1. \A q \in Proc : Writing(q) => call[q].id \in 1..MaxCalls
        BY <1>c DEF Writing, Busy, Call
      <4>2. call[p].id \in 1..MaxCalls
        BY <2>1 DEF Call
      <4> QED
        BY <1>7, <2>3, <4>1, <4>2 DEF LoadMemory, TypeOK
    <3> QED
      BY <1>7, <3>2, <3>3, <3>4 DEF LoadMemory, TypeOK, Scripted, Busy, Recording
  <2> QED
    BY <2>2, <2>3
<1>8. ASSUME NEW p \in Proc, Oversized(p) \/ PersistNothing(p)
      PROVE  TypeOK' /\ Scripted'
  <2>1. Busy(p)
    BY <1>8 DEF Oversized, PersistNothing, Busy
  <2> QED
    BY <1>8, <2>1, ConcludeTyped DEF Oversized, PersistNothing, TypeOK
<1>9. ASSUME NEW p \in Proc, Truncate(p)
      PROVE  TypeOK' /\ Scripted'
  <2>1. Busy(p) /\ call[p] \in Call /\ call[p].todo = <<>>
    BY <1>9, <1>c DEF Truncate, Busy, Scripted, Recording
  <2> DEFINE c == [call[p] EXCEPT !.phase = "fill"]
  <2>2. c \in Call /\ c.todo = <<>> /\ c.phase = "fill"
    BY <2>1 DEF Call, Phase
  <2>3. call' = [call EXCEPT ![p] = c]
    BY <1>9 DEF Truncate
  <2> HIDE DEF c
  <2> QED
    BY <1>9, <2>2, <2>3 DEF Truncate, TypeOK, Scripted, Busy, Recording
<1>10. ASSUME NEW p \in Proc, Fill(p)
      PROVE  TypeOK' /\ Scripted'
  <2>1. Busy(p) /\ call[p] \in Call
    BY <1>10, <1>c DEF Fill, Busy
  <2>2. NewMemory(call[p]) \subseteq 1..MaxCalls /\ call[p].id \in 1..MaxCalls
    BY <2>1 DEF NewMemory, Call
  <2>3. call' \in [Proc -> Call \cup {Idle}] /\ Scripted'
    BY <1>10, <2>1, ConcludeTyped DEF Fill
  <2> QED
    BY <1>10, <2>2, <2>3 DEF Fill, TypeOK
<1>11. ASSUME NEW p \in Proc, NEW ok \in BOOLEAN, Handle(p, ok)
      PROVE  TypeOK' /\ Scripted'
  <2>1. Busy(p)
    BY <1>11 DEF Handle, Busy
  <2> QED
    BY <1>11, <2>1, ConcludeTyped DEF Handle, TypeOK
<1>12. ASSUME NEW m \in Submissions, NEW x \in BOOLEAN, NEW y \in BOOLEAN, Submit(m, x, y)
      PROVE  TypeOK' /\ Scripted'
  <2> DEFINE e == [call |-> None, task |-> m.task, seq |-> m.seq,
                   status |-> IF x /\ ~y THEN "blocked" ELSE m.status]
  <2>1. e \in Event /\ ledger' = Append(ledger, e)
    BY <1>12, GatewayAssumption DEF Submit, Event, Submission, EventStatus
  <2> HIDE DEF e
  <2> QED
    BY <1>12, <2>1, GatewayAssumption DEF Submit, TypeOK, Scripted, Busy, Recording
<1>13. CASE UNCHANGED vars
  BY <1>13 DEF vars, TypeOK, Scripted, Busy, Recording
<1> QED
  BY <1>1, <1>2, <1>3, <1>4, <1>5, <1>7, <1>8, <1>9, <1>10, <1>11, <1>12, <1>13 DEF Next

(* The sequence numbers, events and memory of the gateway stay well formed.  *)
(* (MCPGateway.call_tool, LocalMemoryStore.put)                              *)
THEOREM GatewayTypeCorrect == Spec => []TypeOK
<1>1. Spec => [](TypeOK /\ Scripted)
  BY InitTyped, StepTyped, PTL DEF Spec
<1> QED
  BY <1>1, PTL

-----------------------------------------------------------------------------
(* Learnings *)

(* A step of a call that is no writer and that writes nothing leaves what    *)
(* MemoryInv says as it is.                                                  *)
LEMMA MemoryKept ==
  ASSUME MemoryInv, NEW p \in Proc,
         \A q \in Proc \ {p} : call'[q] = call[q],
         call'[p].phase \notin {"persist", "fill"},
         UNCHANGED <<memory, stored, overlapped>>
  PROVE  MemoryInv'
BY DEF MemoryInv, Writing, LearningsSurvive, Readable

(* A writer that has the memory to itself loses nothing.                     *)
LEMMA StepMemory == TypeOK /\ Scripted /\ MemoryInv /\ [Next]_vars => MemoryInv'
<1> SUFFICES ASSUME TypeOK, Scripted, MemoryInv, [Next]_vars PROVE MemoryInv'
  OBVIOUS
<1>c. \A p \in Proc : Busy(p) => call[p] \in Call
  BY DEF TypeOK, Busy, Idle
<1>d. ASSUME NEW p \in Proc, Busy(p), NEW ok \in BOOLEAN
      PROVE  /\ Concluded(call[p], ok).phase \notin {"persist", "fill"}
             /\ Conclude(p, ok) => /\ call'[p] = Concluded(call[p], ok)
                                   /\ \A q \in Proc \ {p} : call'[q] = call[q]
  <2> DEFINE d == Concluded(call[p], ok)
  <2>a. call[p] \in Call
    BY <1>c, <1>d
  <2>b. d.phase = "number" \/ d = Idle
    BY <2>a, ConcludedTyped
  <2>1. d.phase \notin {"persist", "fill"}
    BY <2>b DEF Idle
  <2> QED
    BY <1>d, <2>1, ConcludeTyped
<1>1. ASSUME NEW p \in Proc, NEW r \in Requests, Receive(p, r)
      PROVE  MemoryInv'
  <2>1. call'[p].phase \notin {"persist", "fill"} /\ \A q \in Proc \ {p} : call'[q] = call[q]
    BY <1>1 DEF Receive, TypeOK
  <2> QED
    BY <1>1, <2>1, MemoryKept DEF Receive
<1>2. ASSUME NEW p \in Proc, Number(p)
      PROVE  MemoryInv'
  <2>1. call[p] \in Call
    BY <1>2, <1>c DEF Number, Busy
  <2>2. call'[p].phase \notin {"persist", "fill"} /\ \A q \in Proc \ {p} : call'[q] = call[q]
    BY <1>2, <2>1 DEF Number, TypeOK, Call
  <2> QED
    BY <1>2, <2>2, MemoryKept DEF Number
<1>3. ASSUME NEW p \in Proc, AppendEvent(p)
      PROVE  MemoryInv'
  <2>1. call[p] \in Call /\ call[p].phase = "append" /\ call[p].todo \in Scripts
    BY <1>3, <1>c DEF AppendEvent, Busy, Scripted, Recording
  <2>2. Recorded(call[p]).phase \notin {"persist", "fill"}
    BY <2>1, RecordedTyped DEF Idle
  <2>3. call'[p] = Recorded(call[p]) /\ \A q \in Proc \ {p} : call'[q] = call[q]
    BY <1>3 DEF AppendEvent, TypeOK
  <2> QED
    BY <1>3, <2>2, <2>3, MemoryKept DEF AppendEvent
<1>4. ASSUME NEW p \in Proc, Authorize(p)
      PROVE  MemoryInv'
  <2>1. Busy(p) /\ call[p] \in Call
    BY <1>4, <1>c DEF Authorize, Busy
  <2>2. call'[p].phase \notin {"persist", "fill"} /\ \A q \in Proc \ {p} : call'[q] = call[q]
    <3>1. CASE Visible(call[p].request)
      BY <1>4, <2>1, <3>1 DEF Authorize, TypeOK, Call
    <3>2. CASE ~Visible(call[p].request)
      BY <1>4, <1>d, <2>1, <3>2 DEF Authorize
    <3> QED
      BY <3>1, <3>2
  <2> QED
    BY <1>4, <2>2, MemoryKept DEF Authorize
<1>5. ASSUME NEW p \in Proc, AuthorizeRaises(p) \/ HandlerRaises(p) \/ Die(p)
      PROVE  MemoryInv'
  <2>1. BreakOff(p)
    BY <1>5, BrokenOff
  <2>2. call'[p].phase \notin {"persist", "fill"} /\ \A q \in Proc \ {p} : call'[q] = call[q]
    BY <2>1 DEF BreakOff, TypeOK, Idle
  <2> QED
    BY <2>1, <2>2, MemoryKept DEF BreakOff
<1>6. ASSUME NEW p \in Proc, LoadMemory(p)
      PROVE  MemoryInv'
  <2>1. Busy(p) /\ call[p] \in Call /\ call[p].phase = "handle"
    BY <1>6, <1>c DEF LoadMemory, Busy
  <2>2. CASE ~Loads(p) \/ call[p].request.tool \in MemoryReaders
    BY <1>6, <1>d, <2>1, <2>2, MemoryKept DEF LoadMemory, Loads
  <2>3. CASE Loads(p) /\ call[p].request.tool \notin MemoryReaders /\ p \notin Filed
    <3>a. /\ call'[p].phase = "persist"
          /\ \A q \in Proc \ {p} : call'[q] = call[q]
      BY <1>6, <2>1, <2>3 DEF LoadMemory, TypeOK, Call
    <3>1. \A q \in Proc : Writing(q)' => Writing(q) /\ call'[q] = call[q]
      BY <2>3, <3>a DEF Writing
    <3>2. UNCHANGED <<memory, stored>>
      BY <1>6 DEF LoadMemory
    <3>3. UNCHANGED overlapped
      BY <1>6, <2>3 DEF LoadMemory
    <3>4. \A q, r \in Proc : Writing(q)' /\ Writing(r)' /\ q # r => call'[q].id \in overlapped'
      BY <3>1, <3>3 DEF MemoryInv
    <3>5. \A q \in Proc : Writing(q)' => stored' \ overlapped' \subseteq call'[q].loaded
      BY <3>1, <3>2, <3>3 DEF MemoryInv
    <3>6. LearningsSurvive'
      BY <3>2, <3>3 DEF MemoryInv, LearningsSurvive, Readable
    <3> QED
      BY <3>4, <3>5, <3>6 DEF MemoryInv
  <2>4. CASE Loads(p) /\ call[p].request.tool \notin MemoryReaders /\ p \in Filed
    <3> DEFINE met == {q \in Proc : Writing(q)}
    <3>1. /\ call'[p].loaded = memory /\ call'[p].id = call[p].id
          /\ \A q \in Proc \ {p} : call'[q] = call[q]
      BY <1>6, <2>1, <2>4 DEF LoadMemory, TypeOK, Call
    <3>2. overlapped' = IF met = {} THEN overlapped
                        ELSE overlapped \cup {call[q].id : q \in met \cup {p}}
      BY <1>6, <2>4 DEF LoadMemory
    <3>3. \A q, r \in Proc : Writing(q)' /\ Writing(r)' /\ q # r => call'[q].id \in overlapped'
      <4> SUFFICES ASSUME NEW q \in Proc, NEW r \in Proc, Writing(q)', Writing(r)', q # r
                   PROVE  call'[q].id \in overlapped'
        OBVIOUS
      <4>1. CASE q = p
        BY <3>1, <3>2, <4>1 DEF Writing
      <4>2. CASE r = p
        BY <3>1, <3>2, <4>2 DEF Writing
      <4>3. CASE q # p /\ r # p
        <5>1. call[q].id \in overlapped
          BY <3>1, <4>3 DEF Writing, MemoryInv
        <5> QED
          BY <3>1, <3>2, <4>3, <5>1
      <4> QED
        BY <4>1, <4>2, <4>3
    <3>4. overlapped \subseteq overlapped'
      BY <3>2
    <3>5. \A q \in Proc : Writing(q)' => stored' \ overlapped' \subseteq call'[q].loaded
      BY <1>6, <2>4, <3>1, <3>4 DEF LoadMemory, Loads, MemoryInv, Writing, LearningsSurvive, Readable
    <3>6. LearningsSurvive'
      BY <1>6, <3>4 DEF LoadMemory, MemoryInv, LearningsSurvive, Readable
    <3> QED
      BY <3>3, <3>5, <3>6 DEF MemoryInv
  <2> QED
    BY <2>2, <2>3, <2>4
<1>7. ASSUME NEW p \in Proc, Oversized(p) \/ PersistNothing(p)
      PROVE  MemoryInv'
  <2>1. Busy(p)
    BY <1>7 DEF Oversized, PersistNothing, Busy
  <2> QED
    BY <1>7, <1>d, <2>1, MemoryKept DEF Oversized, PersistNothing
<1>8. ASSUME NEW p \in Proc, Truncate(p)
      PROVE  MemoryInv'
  <2>1. call[p] \in Call /\ call[p].phase = "persist" /\ p \in Filed
    BY <1>8, <1>c DEF Truncate, Busy
  <2>2. /\ call'[p].loaded = call[p].loaded /\ call'[p].id = call[p].id
        /\ \A q \in Proc \ {p} : call'[q] = call[q]
    BY <1>8, <2>1 DEF Truncate, TypeOK, Call
  <2>3. \A q \in Proc : /\ Writing(q)' => Writing(q)
                        /\ call'[q].loaded = call[q].loaded /\ call'[q].id = call[q].id
    BY <2>1, <2>2 DEF Writing
  <2> QED
    BY <1>8, <2>3 DEF Truncate, MemoryInv, LearningsSurvive, Readable
<1>9. ASSUME NEW p \in Proc, Fill(p)
      PROVE  MemoryInv'
  <2>1. Busy(p) /\ call[p] \in Call /\ Writing(p)
    BY <1>9, <1>c DEF Fill, Busy, Writing
  <2>2. call'[p].phase \notin {"persist", "fill"} /\ \A q \in Proc \ {p} : call'[q] = call[q]
    BY <1>9, <1>d, <2>1 DEF Fill
  <2>3. \A q \in Proc : Writing(q)' => Writing(q) /\ q # p /\ call'[q] = call[q]
    BY <2>2 DEF Writing
  <2>4. stored' = stored \cup {call[p].id} /\ UNCHANGED overlapped
    BY <1>9 DEF Fill
  <2>5. \A q \in Proc : Writing(q)' => stored' \ overlapped' \subseteq call'[q].loaded
    BY <2>1, <2>3, <2>4 DEF MemoryInv
  <2>6. LearningsSurvive'
    <3>1. stored' \ overlapped' \subseteq NewMemory(call[p])
      BY <2>1, <2>4 DEF MemoryInv, NewMemory
    <3> QED
      BY <1>9, <3>1 DEF Fill, LearningsSurvive, Readable
  <2>7. \A q, r \in Proc : Writing(q)' /\ Writing(r)' /\ q # r => call'[q].id \in overlapped'
    BY <2>3, <2>4 DEF MemoryInv
  <2> QED
    BY <2>5, <2>6, <2>7 DEF MemoryInv
<1>10. ASSUME NEW p \in Proc, NEW ok \in BOOLEAN, Handle(p, ok)
       PROVE  MemoryInv'
  <2>1. Busy(p)
    BY <1>10 DEF Handle, Busy
  <2> QED
    BY <1>10, <1>d, <2>1, MemoryKept DEF Handle
<1>11. ASSUME NEW m \in Submissions, NEW x \in BOOLEAN, NEW y \in BOOLEAN, Submit(m, x, y)
       PROVE  MemoryInv'
  BY <1>11 DEF Submit, MemoryInv, Writing, LearningsSurvive, Readable
<1>12. CASE UNCHANGED vars
  BY <1>12 DEF vars, MemoryInv, Writing, LearningsSurvive, Readable
<1> QED
  BY <1>1, <1>2, <1>3, <1>4, <1>5, <1>6, <1>7, <1>8, <1>9, <1>10, <1>11, <1>12 DEF Next

(* Whatever the processes, a learning whose save met no other stays.         *)
THEOREM GatewayLearningsSurvive == Spec => []LearningsSurvive
<1>1. Init => MemoryInv
  BY DEF Init, MemoryInv, Writing, Idle, LearningsSurvive, Readable
<1>2. Spec => [](TypeOK /\ Scripted)
  BY InitTyped, StepTyped, PTL DEF Spec
<1>3. Spec => []MemoryInv
  BY <1>1, <1>2, StepMemory, PTL DEF Spec
<1>4. MemoryInv => LearningsSurvive
  BY DEF MemoryInv
<1> QED
  BY <1>3, <1>4, PTL

-----------------------------------------------------------------------------
(* The ledger *)

(* A process is at a call or at none.                                        *)
LEMMA IdleOrCall ==
  ASSUME TypeOK, NEW p \in Proc
  PROVE  /\ Busy(p) => call[p] \in Call /\ call[p].id \in 1..MaxCalls
         /\ ~Busy(p) => call[p] = Idle
BY DEF TypeOK, Busy, Idle, Call, Phase

(* The events of the ledger are typed, and Stage is a number.                *)
LEMMA LedgerTyped ==
  ASSUME TypeOK
  PROVE  /\ Len(ledger) \in Nat /\ DOMAIN ledger = 1..Len(ledger)
         /\ \A i \in DOMAIN ledger : /\ ledger[i] \in Event /\ ledger[i].seq \in Nat
                                     /\ Stage(ledger[i]) \in 1..3
<1>1. Len(ledger) \in Nat /\ DOMAIN ledger = 1..Len(ledger)
  BY DEF TypeOK
<1>2. \A i \in DOMAIN ledger : ledger[i] \in Event /\ ledger[i].seq \in Nat
  <2>1. \A i \in 1..Len(ledger) : ledger[i] \in Event
    BY DEF TypeOK
  <2>2. \A e \in Event : e.seq \in Nat
    BY DEF Event
  <2> QED
    BY <1>1, <2>1, <2>2
<1>3. \A i \in DOMAIN ledger : Stage(ledger[i]) \in 1..3
  BY DEF Stage
<1> QED
  BY <1>1, <1>2, <1>3

(* A step that leaves the ledger alone and takes the call of one process     *)
(* further, or ends one that is not recorded or breaks off.                  *)
LEMMA QuietStep ==
  ASSUME TypeOK, EventInv, NEW p \in Proc, Busy(p),
         UNCHANGED <<ledger, calls>>, broken \subseteq broken',
         \A q \in Proc \ {p} : call'[q] = call[q],
         \/ /\ call'[p] = Idle
            /\ ~call[p].request.recorded \/ call[p].id \in broken'
         \/ /\ call'[p] \in Call
            /\ call'[p].id = call[p].id /\ call'[p].request = call[p].request
            /\ Limit(call[p]) \in Nat /\ Limit(call'[p]) \in Nat
            /\ Limit(call'[p]) >= Limit(call[p])
            /\ call'[p].phase = "append" => call'[p].seq = Len(ledger) + 1
            /\ Recording(call'[p]) => call[p].request.recorded
  PROVE  EventInv'
<1>t. Len(ledger) \in Nat /\ DOMAIN ledger = 1..Len(ledger)
  BY LedgerTyped
<1>l. \A i \in DOMAIN ledger : ledger[i].seq \in Nat /\ Stage(ledger[i]) \in 1..3
  BY LedgerTyped
<1>b. \A q \in Proc : Busy(q)' => Busy(q) /\ call'[q].id = call[q].id /\ call'[q].request = call[q].request
  BY DEF Busy, Idle
<1>1. DistinctCalls'
  BY <1>b DEF EventInv, DistinctCalls
<1>2. CountedNumbers'
  <2>1. \A i \in DOMAIN ledger' : ledger'[i].call # None => ledger'[i].seq <= i
    BY DEF EventInv, CountedNumbers
  <2>2. ASSUME NEW q \in Proc, call'[q].phase = "append" PROVE call'[q].seq <= Len(ledger') + 1
    <3>1. CASE q = p
      BY <1>t, <2>2, <3>1 DEF Idle
    <3>2. CASE q # p
      BY <2>2, <3>2 DEF EventInv, CountedNumbers
    <3> QED
      BY <3>1, <3>2
  <2> QED
    BY <2>1, <2>2 DEF CountedNumbers
<1>3. OwnEvents'
  <2> SUFFICES ASSUME NEW q \in Proc, NEW i \in DOMAIN ledger, Busy(q)', ledger[i].call = call'[q].id
               PROVE  /\ call'[q].request.recorded
                      /\ ledger[i].task = call'[q].request.task
                      /\ Stage(ledger[i]) < Limit(call'[q])
                      /\ call'[q].phase = "append" => ledger[i].seq < call'[q].seq
    BY DEF OwnEvents
  <2>1. /\ call[q].request.recorded /\ ledger[i].task = call[q].request.task
        /\ Stage(ledger[i]) < Limit(call[q])
        /\ call[q].phase = "append" => ledger[i].seq < call[q].seq
    BY <1>b DEF EventInv, OwnEvents
  <2>2. CASE q # p
    BY <2>1, <2>2
  <2>3. CASE q = p
    <3>1. Limit(call[p]) \in Nat /\ Limit(call'[p]) \in Nat /\ Limit(call'[p]) >= Limit(call[p])
      BY <2>3 DEF Busy, Idle
    <3>2. Stage(ledger[i]) \in Nat /\ Stage(ledger[i]) < Limit(call[p])
      BY <1>l, <2>1, <2>3
    <3>3. Stage(ledger[i]) < Limit(call'[p])
      BY <3>1, <3>2
    <3>4. ledger[i].seq <= i
      <4>1. ledger[i].call # None
        BY <2>3, <1>b, IdleOrCall, GatewayAssumption
      <4> QED
        BY <4>1 DEF EventInv, CountedNumbers
    <3>5. call'[p].phase = "append" => ledger[i].seq < call'[p].seq
      <4>1. call'[p].phase = "append" => call'[p].seq = Len(ledger) + 1
        BY DEF Idle
      <4> QED
        BY <1>t, <1>l, <3>4, <4>1
    <3> QED
      BY <1>b, <2>1, <2>3, <3>3, <3>5
  <2> QED
    BY <2>2, <2>3
<1>4. RecordsAsked'
  BY <1>b DEF EventInv, RecordsAsked, Busy, Idle
<1>5. SameTask'
  BY DEF EventInv, SameTask
<1>6. Followed'
  <2> SUFFICES ASSUME NEW i \in DOMAIN ledger, ledger[i].call # None, Stage(ledger[i]) # 3
               PROVE  \/ ledger[i].call \in broken'
                      \/ \E q \in Proc : Busy(q)' /\ call'[q].id = ledger[i].call
                      \/ \E j \in DOMAIN ledger : ledger[j].call = ledger[i].call /\ Stage(ledger[j]) = 3
    BY DEF Followed
  <2>2. ASSUME NEW q \in Proc, Busy(q), call[q].id = ledger[i].call
        PROVE  ledger[i].call \in broken' \/ (Busy(q)' /\ call'[q].id = ledger[i].call)
    <3>1. CASE q # p
      BY <2>2, <3>1 DEF Busy
    <3>2. CASE q = p
      <4>1. call[p].request.recorded
        BY <2>2, <3>2 DEF EventInv, OwnEvents
      <4> QED
        BY <2>2, <3>2, <4>1 DEF Busy, Call, Phase
    <3> QED
      BY <3>1, <3>2
  <2> QED
    BY <2>2 DEF EventInv, Followed
<1>7. ReplayKeepsCallOrder'
  BY DEF EventInv, ReplayKeepsCallOrder
<1> QED
  BY <1>1, <1>2, <1>3, <1>4, <1>5, <1>6, <1>7 DEF EventInv

(* The event of a call comes after all others of that call.                  *)
LEMMA AppendStep ==
  ASSUME TypeOK, Scripted, EventInv, NEW p \in Proc, AppendEvent(p)
  PROVE  EventInv'
<1> DEFINE c == call[p]
           e == EventOf(c)
           n == Len(ledger) + 1
<1>t. Len(ledger) \in Nat /\ DOMAIN ledger = 1..Len(ledger)
  BY LedgerTyped
<1>l. \A i \in DOMAIN ledger : ledger[i].seq \in Nat /\ Stage(ledger[i]) \in 1..3
  BY LedgerTyped
<1>c. Busy(p) /\ c \in Call /\ c.phase = "append" /\ c.todo \in Scripts /\ c.id \in 1..MaxCalls
  BY IdleOrCall DEF AppendEvent, Busy, Scripted, Recording
<1>e. /\ e \in Event /\ e.call = c.id /\ e.call # None /\ e.task = c.request.task
      /\ e.status = Head(c.todo) /\ e.seq = c.seq /\ c.seq \in Nat
  BY <1>c, EventTyped, GatewayAssumption DEF Call
<1>a. /\ ledger' = Append(ledger, e) /\ Len(ledger') = n /\ DOMAIN ledger' = 1..n
      /\ ledger'[n] = e /\ n \in DOMAIN ledger' /\ n \notin DOMAIN ledger
      /\ \A i \in DOMAIN ledger : i \in DOMAIN ledger' /\ ledger'[i] = ledger[i]
      /\ \A i \in DOMAIN ledger' : i \in DOMAIN ledger \/ i = n
      /\ calls' = calls /\ broken' = broken
  BY <1>t, <1>e DEF AppendEvent, TypeOK
<1>s. Limit(c) = Stage(e) /\ Stage(e) \in 1..3
  BY <1>c, <1>e DEF Limit, Recording, Stage
<1>q. \A q \in Proc \ {p} : call'[q] = call[q] /\ (Busy(q) => call[q].id # c.id)
  BY <1>c DEF AppendEvent, TypeOK, EventInv, DistinctCalls
<1>r. \/ /\ c.todo = <<"blocked", "failed">> /\ Stage(e) = 2
         /\ call'[p].phase = "number" /\ Limit(call'[p]) = 3
         /\ call'[p].id = c.id /\ call'[p].request = c.request
      \/ /\ c.todo = <<"active">> /\ Stage(e) = 1
         /\ call'[p].phase = "authorize" /\ Limit(call'[p]) = 2
         /\ call'[p].id = c.id /\ call'[p].request = c.request
      \/ e.status # "active" /\ Stage(e) = 3 /\ call'[p] = Idle
  <2>1. call'[p] = Recorded(c)
    BY DEF AppendEvent, TypeOK
  <2>2. CASE c.todo = <<"blocked", "failed">>
    <3>1. Stage(e) = 2
      BY <1>e, <2>2 DEF Stage
    <3>2. call'[p].phase = "number" /\ call'[p].todo = <<"failed">>
          /\ call'[p].id = c.id /\ call'[p].request = c.request
      BY <1>c, <2>1, <2>2, RecordedTyped
    <3>3. Limit(call'[p]) = 3
      BY <3>2 DEF Limit, Recording, Stage
    <3> QED
      BY <2>2, <3>1, <3>2, <3>3
  <2>3. CASE c.todo = <<"active">>
    <3>1. Stage(e) = 1
      BY <1>e, <2>3 DEF Stage
    <3>2. call'[p].phase = "authorize"
          /\ call'[p].id = c.id /\ call'[p].request = c.request
      BY <1>c, <2>1, <2>3, RecordedTyped
    <3>3. Limit(call'[p]) = 2
      BY <3>2 DEF Limit, Recording
    <3> QED
      BY <2>3, <3>1, <3>2, <3>3
  <2>4. CASE c.todo \in {<<"passed">>, <<"failed">>}
    <3>1. Head(c.todo) = "passed" \/ Head(c.todo) = "failed"
      BY <2>4
    <3>2. Stage(e) = 3 /\ e.status # "active"
      BY <1>e, <3>1 DEF Stage
    <3>3. call'[p] = Idle
      BY <1>c, <2>1, <2>4, RecordedTyped
    <3> QED
      BY <3>2, <3>3
  <2> QED
    BY <1>c, <2>2, <2>3, <2>4 DEF Scripts
<1>o. \A i \in DOMAIN ledger : ledger[i].call = c.id =>
        /\ c.request.recorded /\ ledger[i].task = c.request.task
        /\ Stage(ledger[i]) < Stage(e) /\ ledger[i].seq < e.seq
  BY <1>c, <1>e, <1>s DEF EventInv, OwnEvents
<1>d. c.request.recorded
  BY <1>c DEF EventInv, RecordsAsked, Recording
<1> HIDE DEF c, e
<1>b. \A q \in Proc : Busy(q)' => Busy(q) /\ call'[q].id = call[q].id /\ call'[q].request = call[q].request
  BY <1>c, <1>q, <1>r DEF Busy, Idle, c
<1>1. DistinctCalls'
  <2>1. \A i \in DOMAIN ledger' : ledger'[i].call # None => ledger'[i].call <= calls'
    BY <1>a, <1>c, <1>e DEF EventInv, DistinctCalls, c
  <2> QED
    BY <1>a, <1>b, <2>1 DEF EventInv, DistinctCalls
<1>2. CountedNumbers'
  <2>1. e.seq <= n
    BY <1>c, <1>e DEF EventInv, CountedNumbers, c
  <2>2. \A i \in DOMAIN ledger' : ledger'[i].call # None => ledger'[i].seq <= i
    BY <1>a, <2>1 DEF EventInv, CountedNumbers
  <2>3. ASSUME NEW q \in Proc, call'[q].phase = "append" PROVE call'[q].seq <= Len(ledger') + 1
    <3>1. q # p
      BY <1>r, <2>3 DEF Idle
    <3>2. call[q].phase = "append" /\ call'[q].seq = call[q].seq
      BY <1>q, <2>3, <3>1
    <3>3. call[q].seq \in Nat /\ call[q].seq <= n
      BY <3>2, IdleOrCall DEF Busy, Call, EventInv, CountedNumbers
    <3> QED
      BY <1>a, <1>t, <3>2, <3>3
  <2> QED
    BY <2>2, <2>3 DEF CountedNumbers
<1>3. OwnEvents'
  <2> SUFFICES ASSUME NEW q \in Proc, NEW i \in DOMAIN ledger', Busy(q)', ledger'[i].call = call'[q].id
               PROVE  /\ call'[q].request.recorded
                      /\ ledger'[i].task = call'[q].request.task
                      /\ Stage(ledger'[i]) < Limit(call'[q])
                      /\ call'[q].phase = "append" => ledger'[i].seq < call'[q].seq
    BY DEF OwnEvents
  <2>1. CASE q # p
    <3>1. i \in DOMAIN ledger
      BY <1>a, <1>b, <1>e, <1>q, <2>1
    <3> QED
      BY <1>a, <1>b, <1>q, <2>1, <3>1 DEF EventInv, OwnEvents
  <2>2. CASE q = p
    <3>1. call'[p].request = c.request /\ call'[p].id = c.id
          /\ call'[p].phase # "append" /\ Limit(call'[p]) \in Nat /\ Stage(e) < Limit(call'[p])
      BY <1>r, <2>2 DEF Busy, Idle
    <3>2. CASE i = n
      BY <1>a, <1>d, <1>e, <2>2, <3>1, <3>2
    <3>3. CASE i \in DOMAIN ledger
      <4>1. ledger[i].task = c.request.task /\ Stage(ledger[i]) < Stage(e)
        BY <1>a, <1>o, <2>2, <3>1, <3>3
      <4>2. Stage(ledger[i]) < Limit(call'[p])
        BY <1>l, <1>s, <3>1, <3>3, <4>1
      <4> QED
        BY <1>a, <1>d, <2>2, <3>1, <3>3, <4>1, <4>2
    <3> QED
      BY <1>a, <3>2, <3>3
  <2> QED
    BY <2>1, <2>2
<1>4. RecordsAsked'
  <2> SUFFICES ASSUME NEW q \in Proc, Busy(q)', Recording(call'[q])
               PROVE  call'[q].request.recorded
    BY DEF RecordsAsked
  <2>1. CASE q = p
    BY <1>b, <1>d, <2>1 DEF c
  <2>2. CASE q # p
    BY <1>b, <1>q, <2>2 DEF EventInv, RecordsAsked
  <2> QED
    BY <2>1, <2>2
<1>5. SameTask'
  BY <1>a, <1>e, <1>o DEF EventInv, SameTask
<1>6. Followed'
  <2> SUFFICES ASSUME NEW i \in DOMAIN ledger', ledger'[i].call # None, Stage(ledger'[i]) # 3
               PROVE  \/ ledger'[i].call \in broken'
                      \/ \E q \in Proc : Busy(q)' /\ call'[q].id = ledger'[i].call
                      \/ \E j \in DOMAIN ledger' : ledger'[j].call = ledger'[i].call /\ Stage(ledger'[j]) = 3
    BY DEF Followed
  <2>1. CASE i = n
    BY <1>a, <1>e, <1>r, <2>1 DEF Busy
  <2>2. CASE i \in DOMAIN ledger
    <3>1. ledger'[i] = ledger[i] /\ ledger[i].call # None /\ Stage(ledger[i]) # 3
      BY <1>a, <2>2
    <3>2. CASE ledger[i].call \in broken
      BY <1>a, <3>1, <3>2
    <3>3. ASSUME NEW q \in Proc, Busy(q), call[q].id = ledger[i].call
          PROVE  \/ \E r \in Proc : Busy(r)' /\ call'[r].id = ledger'[i].call
                 \/ \E j \in DOMAIN ledger' : ledger'[j].call = ledger'[i].call /\ Stage(ledger'[j]) = 3
      <4>1. CASE q # p
        BY <1>q, <3>1, <3>3, <4>1 DEF Busy
      <4>2. CASE q = p /\ call'[p] # Idle
        BY <1>r, <3>1, <3>3, <4>2 DEF Busy, c
      <4>3. CASE q = p /\ call'[p] = Idle
        <5>1. Stage(e) = 3
          BY <1>r, <4>3 DEF Idle
        <5> QED
          BY <1>a, <1>e, <3>1, <3>3, <4>3, <5>1 DEF c
      <4> QED
        BY <4>1, <4>2, <4>3
    <3>4. ASSUME NEW j \in DOMAIN ledger, ledger[j].call = ledger[i].call, Stage(ledger[j]) = 3
          PROVE  \E k \in DOMAIN ledger' : ledger'[k].call = ledger'[i].call /\ Stage(ledger'[k]) = 3
      BY <1>a, <3>1, <3>4
    <3> QED
      BY <2>2, <3>1, <3>2, <3>3, <3>4 DEF EventInv, Followed
  <2> QED
    BY <1>a, <2>1, <2>2
<1>7. ReplayKeepsCallOrder'
  <2> SUFFICES ASSUME NEW i \in DOMAIN ledger', NEW j \in DOMAIN ledger',
                      ledger'[i].call # None, ledger'[i].call = ledger'[j].call,
                      Stage(ledger'[i]) < Stage(ledger'[j])
               PROVE  ledger'[i].seq < ledger'[j].seq
    BY DEF ReplayKeepsCallOrder
  <2>1. CASE i \in DOMAIN ledger /\ j \in DOMAIN ledger
    BY <1>a, <2>1 DEF EventInv, ReplayKeepsCallOrder
  <2>2. CASE i \in DOMAIN ledger /\ j = n
    BY <1>a, <1>e, <1>o, <2>2
  <2>3. CASE i = n /\ j \in DOMAIN ledger
    BY <1>a, <1>e, <1>l, <1>o, <1>s, <2>3
  <2>4. CASE i = n /\ j = n
    BY <1>a, <1>s, <2>4
  <2> QED
    BY <1>a, <2>1, <2>2, <2>3, <2>4
<1> QED
  BY <1>1, <1>2, <1>3, <1>4, <1>5, <1>6, <1>7 DEF EventInv

(* A call under a new number has no events.                                  *)
LEMMA ReceiveStep ==
  ASSUME TypeOK, EventInv, NEW p \in Proc, NEW r \in Requests, Receive(p, r)
  PROVE  EventInv'
<1> DEFINE d == call'[p]
<1>a. /\ calls' = calls + 1 /\ calls \in Nat /\ UNCHANGED <<ledger, broken>> /\ ~Busy(p)
      /\ \A q \in Proc \ {p} : call'[q] = call[q]
  BY GatewayAssumption DEF Receive, TypeOK
<1>d. /\ d.id = calls + 1 /\ d.phase \in {"number", "authorize"}
      /\ Recording(d) => d.request.recorded
  BY DEF Receive, TypeOK, Recording
<1> HIDE DEF d
<1>n. calls + 1 \in 1..MaxCalls /\ calls + 1 # None
  BY GatewayAssumption DEF Receive, TypeOK
<1>e. \A i \in DOMAIN ledger : ledger[i].call # calls + 1
  <2> SUFFICES ASSUME NEW i \in DOMAIN ledger, ledger[i].call = calls + 1 PROVE FALSE
    OBVIOUS
  <2>1. ledger[i].call <= calls
    BY <1>n DEF EventInv, DistinctCalls
  <2> QED
    BY <1>a, <2>1
<1>q. \A q \in Proc \ {p} : Busy(q) => call[q].id \in Nat /\ call[q].id <= calls
  BY IdleOrCall DEF EventInv, DistinctCalls
<1>1. DistinctCalls'
  <2>1. \A q \in Proc : Busy(q)' => call'[q].id \in Nat /\ call'[q].id <= calls'
    <3> SUFFICES ASSUME NEW q \in Proc, Busy(q)' PROVE call'[q].id \in Nat /\ call'[q].id <= calls'
      OBVIOUS
    <3>1. CASE q = p
      BY <1>a, <1>d, <3>1 DEF d
    <3>2. CASE q # p
      BY <1>a, <1>q, <3>2 DEF Busy
    <3> QED
      BY <3>1, <3>2
  <2>2. \A q, s \in Proc : Busy(q)' /\ Busy(s)' /\ q # s => call'[q].id # call'[s].id
    <3> SUFFICES ASSUME NEW q \in Proc, NEW s \in Proc, Busy(q)', Busy(s)', q # s
                 PROVE  call'[q].id # call'[s].id
      OBVIOUS
    <3>1. CASE q = p
      BY <1>a, <1>d, <1>q, <3>1 DEF Busy, d
    <3>2. CASE s = p
      BY <1>a, <1>d, <1>q, <3>2 DEF Busy, d
    <3>3. CASE q # p /\ s # p
      BY <1>a, <3>3 DEF Busy, EventInv, DistinctCalls
    <3> QED
      BY <3>1, <3>2, <3>3
  <2>3. \A i \in DOMAIN ledger : ledger[i].call # None => ledger[i].call <= calls + 1
    <3> SUFFICES ASSUME NEW i \in DOMAIN ledger, ledger[i].call # None PROVE ledger[i].call <= calls + 1
      OBVIOUS
    <3>1. ledger[i].call \in Nat
      <4>1. ledger[i] \in Event
        BY LedgerTyped
      <4> QED
        BY <4>1 DEF Event
    <3>2. ledger[i].call <= calls
      BY DEF EventInv, DistinctCalls
    <3> QED
      BY <1>a, <3>1, <3>2
  <2> QED
    BY <1>a, <2>1, <2>2, <2>3 DEF DistinctCalls
<1>2. CountedNumbers'
  <2>1. ASSUME NEW q \in Proc, call'[q].phase = "append" PROVE call'[q].seq <= Len(ledger) + 1
    BY <1>a, <1>d, <2>1 DEF d, EventInv, CountedNumbers
  <2> QED
    BY <1>a, <2>1 DEF EventInv, CountedNumbers
<1>3. OwnEvents'
  BY <1>a, <1>d, <1>e DEF d, EventInv, OwnEvents, Busy
<1>4. RecordsAsked'
  BY <1>a, <1>d DEF d, EventInv, RecordsAsked, Busy
<1>5. SameTask' /\ ReplayKeepsCallOrder'
  BY <1>a DEF EventInv, SameTask, ReplayKeepsCallOrder
<1>6. Followed'
  <2>1. \A q \in Proc : Busy(q) => Busy(q)' /\ call'[q] = call[q]
    BY <1>a DEF Busy
  <2> QED
    BY <1>a, <2>1 DEF EventInv, Followed
<1> QED
  BY <1>1, <1>2, <1>3, <1>4, <1>5, <1>6 DEF EventInv

(* What a client submits belongs to no call.                                 *)
LEMMA SubmitStep ==
  ASSUME TypeOK, EventInv, NEW m \in Submissions, NEW x \in BOOLEAN, NEW y \in BOOLEAN, Submit(m, x, y)
  PROVE  EventInv'
<1> DEFINE e == [call |-> None, task |-> m.task, seq |-> m.seq,
                 status |-> IF x /\ ~y THEN "blocked" ELSE m.status]
           n == Len(ledger) + 1
<1>t. Len(ledger) \in Nat /\ DOMAIN ledger = 1..Len(ledger)
  BY LedgerTyped
<1>e. e.call = None
  OBVIOUS
<1>a. /\ ledger' = Append(ledger, e) /\ Len(ledger') = n /\ ledger'[n] = e
      /\ \A i \in DOMAIN ledger : i \in DOMAIN ledger' /\ ledger'[i] = ledger[i]
      /\ \A i \in DOMAIN ledger' : i \in DOMAIN ledger \/ i = n
      /\ UNCHANGED <<call, calls, broken>>
  BY <1>t DEF Submit, TypeOK
<1> HIDE DEF e
<1>i. \A p \in Proc : Busy(p) => call[p].id # None
  BY IdleOrCall, GatewayAssumption
<1>1. DistinctCalls'
  BY <1>a, <1>e DEF EventInv, DistinctCalls, Busy
<1>2. CountedNumbers'
  <2>1. ASSUME NEW q \in Proc, call[q].phase = "append" PROVE call[q].seq <= n + 1
    <3>1. call[q].seq \in Nat /\ call[q].seq <= n
      BY <2>1, IdleOrCall DEF Busy, Call, EventInv, CountedNumbers
    <3> QED
      BY <1>t, <3>1
  <2>2. \A i \in DOMAIN ledger' : ledger'[i].call # None => ledger'[i].seq <= i
    BY <1>a, <1>e DEF EventInv, CountedNumbers
  <2> QED
    BY <1>a, <2>1, <2>2 DEF CountedNumbers
<1>3. OwnEvents'
  BY <1>a, <1>e, <1>i DEF EventInv, OwnEvents, Busy
<1>4. RecordsAsked'
  BY <1>a DEF EventInv, RecordsAsked, Busy
<1>5. SameTask'
  BY <1>a, <1>e DEF EventInv, SameTask
<1>6. ReplayKeepsCallOrder'
  BY <1>a, <1>e DEF EventInv, ReplayKeepsCallOrder
<1>7. Followed'
  <2> SUFFICES ASSUME NEW i \in DOMAIN ledger', ledger'[i].call # None, Stage(ledger'[i]) # 3
               PROVE  \/ ledger'[i].call \in broken'
                      \/ \E q \in Proc : Busy(q)' /\ call'[q].id = ledger'[i].call
                      \/ \E j \in DOMAIN ledger' : ledger'[j].call = ledger'[i].call /\ Stage(ledger'[j]) = 3
    BY DEF Followed
  <2>1. i \in DOMAIN ledger /\ ledger'[i] = ledger[i]
    BY <1>a, <1>e
  <2> QED
    BY <1>a, <2>1 DEF EventInv, Followed, Busy
<1> QED
  BY <1>1, <1>2, <1>3, <1>4, <1>5, <1>6, <1>7 DEF EventInv

(* Each step of a call keeps its events in order.                            *)
LEMMA StepEvents == TypeOK /\ Scripted /\ EventInv /\ [Next]_vars => EventInv'
<1> SUFFICES ASSUME TypeOK, Scripted, EventInv, [Next]_vars PROVE EventInv'
  OBVIOUS
<1>c. \A p \in Proc : Busy(p) => call[p] \in Call
  BY IdleOrCall
(* A call that does not record can only be concluded.                        *)
<1>d. ASSUME NEW p \in Proc, Busy(p), ~Recording(call[p]), NEW ok \in BOOLEAN, Conclude(p, ok),
             UNCHANGED <<ledger, calls, broken>>
      PROVE  EventInv'
  <2> DEFINE d == Concluded(call[p], ok)
  <2>1. call'[p] = d /\ \A q \in Proc \ {p} : call'[q] = call[q]
    BY <1>d, ConcludeTyped
  <2>2. \/ /\ d \in Call /\ d.phase = "number" /\ call[p].request.recorded
            /\ d.id = call[p].id /\ d.request = call[p].request /\ d.todo \in Scripts
            /\ Stage([status |-> Head(d.todo)]) > 1
        \/ ~call[p].request.recorded /\ d = Idle
    BY <1>c, <1>d, ConcludedTyped
  <2> HIDE DEF d
  <2>3. Limit(call[p]) = 2
    BY <1>d DEF Limit
  <2>4. d.phase = "number" => Limit(d) = Stage([status |-> Head(d.todo)]) /\ Limit(d) \in 1..3
    BY DEF Limit, Recording, Stage
  <2>5. \/ /\ d \in Call /\ d.phase = "number" /\ call[p].request.recorded
            /\ d.id = call[p].id /\ d.request = call[p].request
            /\ Limit(d) \in Nat /\ Limit(d) >= 2
        \/ ~call[p].request.recorded /\ d = Idle
    BY <2>2, <2>4
  <2> QED
    BY <1>d, <2>1, <2>3, <2>5, QuietStep
(* A call that does not record goes on to another phase.                     *)
<1>g. ASSUME NEW p \in Proc, Busy(p), ~Recording(call[p]), ~Recording(call'[p]),
             call'[p] \in Call, call'[p].id = call[p].id, call'[p].request = call[p].request,
             \A q \in Proc \ {p} : call'[q] = call[q],
             UNCHANGED <<ledger, calls, broken>>
      PROVE  EventInv'
  <2>1. Limit(call[p]) = 2 /\ Limit(call'[p]) = 2 /\ call'[p].phase # "append"
    BY <1>g DEF Limit, Recording
  <2> QED
    BY <1>g, <2>1, QuietStep
<1>1. ASSUME NEW p \in Proc, NEW r \in Requests, Receive(p, r)
      PROVE  EventInv'
  BY <1>1, ReceiveStep
<1>2. ASSUME NEW p \in Proc, Number(p)
      PROVE  EventInv'
  <2> DEFINE n == Len(ledger) + 1
             d == [call[p] EXCEPT !.seq = n, !.phase = "append"]
  <2>1. Busy(p) /\ call[p] \in Call /\ call[p].phase = "number" /\ call[p].todo \in Scripts
    BY <1>2, <1>c DEF Number, Busy, Scripted, Recording
  <2>2. call'[p] = d /\ \A q \in Proc \ {p} : call'[q] = call[q]
    BY <1>2 DEF Number, TypeOK
  <2>3. n \in Nat
    BY LedgerTyped
  <2> HIDE DEF n
  <2>4. d \in Call /\ d.todo = call[p].todo /\ d.phase = "append" /\ d.seq = n
        /\ d.id = call[p].id /\ d.request = call[p].request
    BY <2>1, <2>3 DEF Call, Phase
  <2> HIDE DEF d
  <2>5. Limit(d) = Limit(call[p]) /\ Limit(d) \in Nat
    BY <2>1, <2>4 DEF Limit, Recording, Stage
  <2>6. call[p].request.recorded
    BY <2>1 DEF EventInv, RecordsAsked, Recording
  <2>7. UNCHANGED <<ledger, calls, broken>>
    BY <1>2 DEF Number
  <2> QED
    BY <2>1, <2>2, <2>4, <2>5, <2>6, <2>7, QuietStep DEF n
<1>3. ASSUME NEW p \in Proc, AppendEvent(p)
      PROVE  EventInv'
  BY <1>3, AppendStep
<1>4. ASSUME NEW p \in Proc, Authorize(p)
      PROVE  EventInv'
  <2>1. Busy(p) /\ call[p] \in Call /\ ~Recording(call[p])
    BY <1>4, <1>c DEF Authorize, Busy, Recording
  <2>2. CASE Visible(call[p].request)
    <3> DEFINE d == [call[p] EXCEPT !.phase = "handle"]
    <3>1. call'[p] = d /\ \A q \in Proc \ {p} : call'[q] = call[q]
      BY <1>4, <2>2 DEF Authorize, TypeOK
    <3>2. d \in Call /\ ~Recording(d) /\ d.id = call[p].id /\ d.request = call[p].request
      BY <2>1 DEF Call, Phase, Recording
    <3> HIDE DEF d
    <3> QED
      BY <1>4, <1>g, <2>1, <3>1, <3>2 DEF Authorize
  <2>3. CASE ~Visible(call[p].request)
    BY <1>4, <1>d, <2>1, <2>3 DEF Authorize
  <2> QED
    BY <2>2, <2>3
<1>5. ASSUME NEW p \in Proc, AuthorizeRaises(p) \/ HandlerRaises(p) \/ Die(p)
      PROVE  EventInv'
  <2>1. /\ Busy(p) /\ call'[p] = Idle /\ \A q \in Proc \ {p} : call'[q] = call[q]
        /\ broken' = broken \cup {call[p].id} /\ UNCHANGED <<ledger, calls>>
    BY <1>5, BrokenOff DEF BreakOff, TypeOK
  <2> QED
    BY <2>1, QuietStep
<1>6. ASSUME NEW p \in Proc, LoadMemory(p)
      PROVE  EventInv'
  <2>1. Busy(p) /\ call[p] \in Call /\ ~Recording(call[p])
    BY <1>6, <1>c DEF LoadMemory, Busy, Recording
  <2>2. CASE ~Loads(p) \/ call[p].request.tool \in MemoryReaders
    BY <1>6, <1>d, <2>1, <2>2 DEF LoadMemory, Loads
  <2>3. CASE ~(~Loads(p) \/ call[p].request.tool \in MemoryReaders)
    <3> DEFINE l == IF p \in Filed THEN memory ELSE {}
               d == [call[p] EXCEPT !.loaded = l, !.phase = "persist"]
    <3>1. call'[p] = d /\ \A q \in Proc \ {p} : call'[q] = call[q]
      BY <1>6, <2>3 DEF LoadMemory, TypeOK
    <3>2. l \subseteq 1..MaxCalls
      BY <2>3 DEF Loads, Readable, TypeOK
    <3>3. d \in Call /\ ~Recording(d) /\ d.id = call[p].id /\ d.request = call[p].request
      BY <2>1, <3>2 DEF Call, Phase, Recording
    <3> HIDE DEF d
    <3> QED
      BY <1>6, <1>g, <2>1, <3>1, <3>3 DEF LoadMemory
  <2> QED
    BY <2>2, <2>3
<1>7. ASSUME NEW p \in Proc, Oversized(p) \/ PersistNothing(p)
      PROVE  EventInv'
  BY <1>7, <1>d DEF Oversized, PersistNothing, Busy, Recording
<1>8. ASSUME NEW p \in Proc, Truncate(p)
      PROVE  EventInv'
  <2> DEFINE d == [call[p] EXCEPT !.phase = "fill"]
  <2>1. Busy(p) /\ call[p] \in Call /\ ~Recording(call[p])
    BY <1>8, <1>c DEF Truncate, Busy, Recording
  <2>2. call'[p] = d /\ \A q \in Proc \ {p} : call'[q] = call[q]
    BY <1>8 DEF Truncate, TypeOK
  <2>3. d \in Call /\ ~Recording(d) /\ d.id = call[p].id /\ d.request = call[p].request
    BY <2>1 DEF Call, Phase, Recording
  <2> HIDE DEF d
  <2> QED
    BY <1>8, <1>g, <2>1, <2>2, <2>3 DEF Truncate
<1>9. ASSUME NEW p \in Proc, Fill(p)
      PROVE  EventInv'
  BY <1>9, <1>d DEF Fill, Busy, Recording
<1>10. ASSUME NEW p \in Proc, NEW ok \in BOOLEAN, Handle(p, ok)
       PROVE  EventInv'
  BY <1>10, <1>d DEF Handle, Busy, Recording
<1>11. ASSUME NEW m \in Submissions, NEW x \in BOOLEAN, NEW y \in BOOLEAN, Submit(m, x, y)
       PROVE  EventInv'
  BY <1>11, SubmitStep
<1>12. CASE UNCHANGED vars
  BY <1>12 DEF vars, EventInv, DistinctCalls, CountedNumbers, OwnEvents, RecordsAsked, SameTask,
               Followed, ReplayKeepsCallOrder, Busy
<1> QED
  BY <1>1, <1>2, <1>3, <1>4, <1>5, <1>6, <1>7, <1>8, <1>9, <1>10, <1>11, <1>12 DEF Next

(* No call has been made.                                                    *)
LEMMA InitEvents == Init => EventInv
BY DEF Init, EventInv, DistinctCalls, CountedNumbers, OwnEvents, RecordsAsked, SameTask,
       Followed, ReplayKeepsCallOrder, Busy, Idle

(* The inductive invariant on the events of calls: each call owns its own,   *)
(* in the order it made them. (MCPGateway.call_tool)                         *)
THEOREM GatewayEventsHold == Spec => []EventInv
<1>1. Spec => [](TypeOK /\ Scripted)
  BY InitTyped, StepTyped, PTL DEF Spec
<1> QED
  BY <1>1, InitEvents, StepEvents, PTL DEF Spec

(* The events of a call are replayed in the order they were recorded.        *)
THEOREM GatewayReplayKeepsCallOrder == Spec => []ReplayKeepsCallOrder
<1>1. EventInv => ReplayKeepsCallOrder
  BY DEF EventInv
<1> QED
  BY <1>1, GatewayEventsHold, PTL

(* What the board shows of a call that has ended and did not break off is    *)
(* its finish: that is replayed after its start and its denial, whatever     *)
(* other calls and clients put under the same task.                          *)
THEOREM GatewayBoardSettles == Spec => []BoardSettles
<1>1. TypeOK /\ EventInv => BoardSettles
  <2> SUFFICES ASSUME TypeOK, EventInv,
                      NEW i \in DOMAIN ledger, Shown(i), ledger[i].call # None,
                      Stage(ledger[i]) # 3, ledger[i].call \notin broken,
                      ~\E p \in Proc : Busy(p) /\ call[p].id = ledger[i].call
               PROVE  FALSE
    BY DEF BoardSettles
  <2>1. PICK j \in DOMAIN ledger : ledger[j].call = ledger[i].call /\ Stage(ledger[j]) = 3
    BY DEF EventInv, Followed
  <2>2. Stage(ledger[i]) \in {1, 2} /\ Stage(ledger[i]) < Stage(ledger[j])
    BY <2>1, LedgerTyped
  <2>3. ledger[i].seq < ledger[j].seq
    BY <2>1, <2>2 DEF EventInv, ReplayKeepsCallOrder
  <2>4. ledger[j].seq <= ledger[i].seq
    BY <2>1 DEF EventInv, SameTask, Shown
  <2>5. ledger[i].seq \in Nat /\ ledger[j].seq \in Nat
    BY LedgerTyped
  <2> QED
    BY <2>3, <2>4, <2>5
<1> QED
  BY <1>1, GatewayTypeCorrect, GatewayEventsHold, PTL

=============================================================================
