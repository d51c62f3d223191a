------------------------ MODULE HardhatProviderProofs ------------------------
(***************************************************************************)
(* The mutex of the provider, for any number of clients and any number of  *)
(* changes of the timer.                                                   *)
(***************************************************************************)
EXTENDS HardhatProvider, FiniteSetTheorems, SequenceTheorems, TLAPS

Requests == [from : Clients, op : Ops] \cup [from : TimerIds, op : {"mine"}]
Timers == [running : BOOLEAN, enabled : BOOLEAN, last : BOOLEAN, others : Nat, mining : Nat, mined : Nat]

ProviderTypeOK ==
  /\ tasks \in Seq(Requests)
  /\ scheds \in Nat
  /\ serving \in Requests \cup {None}
  /\ waiting \subseteq Clients
  /\ timers \in [TimerIds -> Timers]
  /\ made \in Nat

(* A timer that was not made has no loop.                                   *)
NotMadeYet == \A t \in TimerIds : t > made => timers[t] = NoTimer

ProviderInv == ProviderTypeOK /\ NotMadeYet /\ MutexOK
------------------------------------------------------------------------------
(* How often a request of a client, or of the loop of a timer, is in line.  *)
Places(line, from, ops) ==
  {i \in DOMAIN line : line[i].op \in ops /\ line[i].from = from}
InLine(line, from, ops) == Cardinality(Places(line, from, ops))
Counts(r, from, ops) == IF r.op \in ops /\ r.from = from THEN 1 ELSE 0

LEMMA PlacesFinite ==
  ASSUME NEW line \in Seq(Requests), NEW from, NEW ops
  PROVE  /\ IsFiniteSet(Places(line, from, ops))
         /\ InLine(line, from, ops) \in Nat
<1>1. DOMAIN line = 1 .. Len(line) /\ Len(line) \in Nat
  BY LenProperties
<1>2. IsFiniteSet(1 .. Len(line))
  BY <1>1, FS_Interval
<1>3. IsFiniteSet(Places(line, from, ops))
  BY <1>1, <1>2, FS_Subset DEF Places
<1> QED
  BY <1>3, FS_CardinalityType DEF InLine

LEMMA InLineEmpty ==
  ASSUME NEW from, NEW ops
  PROVE  InLine(<<>>, from, ops) = 0
<1>1. Places(<<>>, from, ops) = {}
  BY DEF Places
<1> QED
  BY <1>1, FS_EmptySet DEF InLine

LEMMA InLineAppend ==
  ASSUME NEW line \in Seq(Requests), NEW r \in Requests, NEW from, NEW ops
  PROVE  InLine(Append(line, r), from, ops) = InLine(line, from, ops) + Counts(r, from, ops)
<1> DEFINE n == Len(line) + 1
           old == Places(line, from, ops)
           new == Places(Append(line, r), from, ops)
<1>1. /\ DOMAIN line = 1 .. Len(line) /\ Len(line) \in Nat
      /\ DOMAIN Append(line, r) = 1 .. n
      /\ Append(line, r)[n] = r
      /\ \A i \in 1 .. Len(line) : Append(line, r)[i] = line[i]
  BY LenProperties
<1>2. IsFiniteSet(old) /\ Cardinality(old) \in Nat
  BY PlacesFinite DEF InLine
<1>3. n \notin old
  BY <1>1 DEF Places
<1>4. CASE r.op \in ops /\ r.from = from
  <2>1. new = old \cup {n}
    BY <1>1, <1>4 DEF Places
  <2>2. Cardinality(new) = Cardinality(old) + 1
    BY <2>1, <1>2, <1>3, FS_AddElement
  <2> QED
    BY <2>2, <1>4 DEF InLine, Counts
<1>5. CASE ~(r.op \in ops /\ r.from = from)
  <2>1. new = old
    BY <1>1, <1>5 DEF Places
  <2> QED
    BY <2>1, <1>2, <1>5 DEF InLine, Counts
<1> QED
  BY <1>4, <1>5

LEMMA InLineTail ==
  ASSUME NEW line \in Seq(Requests), line # <<>>, NEW from, NEW ops
  PROVE  InLine(line, from, ops) = InLine(Tail(line), from, ops) + Counts(Head(line), from, ops)
<1> DEFINE all == Places(line, from, ops)
           rest == Places(Tail(line), from, ops)
           shift == [i \in rest |-> i + 1]
<1>1. /\ Len(line) \in Nat /\ Len(line) > 0 /\ DOMAIN line = 1 .. Len(line)
      /\ Tail(line) \in Seq(Requests)
      /\ DOMAIN Tail(line) = 1 .. Len(line) - 1
      /\ \A i \in 1 .. Len(line) - 1 : Tail(line)[i] = line[i + 1]
      /\ Head(line) = line[1]
  BY LenProperties, HeadTailProperties, EmptySeq
<1>2. /\ IsFiniteSet(all) /\ IsFiniteSet(rest)
      /\ Cardinality(all) \in Nat /\ Cardinality(rest) \in Nat
  BY <1>1, PlacesFinite DEF InLine
<1>3. \A i \in rest : i \in 1 .. Len(line) - 1
  BY <1>1 DEF Places
<1>4. \A i \in rest : i + 1 \in all \ {1}
  BY <1>1 DEF Places
<1>5. \A j \in all \ {1} : j - 1 \in rest /\ (j - 1) + 1 = j
  BY <1>1 DEF Places
<1> HIDE DEF all, rest
<1>6. shift \in Bijection(rest, all \ {1})
  <2>1. shift \in [rest -> all \ {1}]
    BY <1>4
  <2>2. \A i, j \in rest : shift[i] = shift[j] => i = j
    BY <1>1, <1>3
  <2>3. \A j \in all \ {1} : \E i \in rest : shift[i] = j
    BY <1>5
  <2> HIDE DEF shift
  <2> QED
    BY <2>1, <2>2, <2>3 DEF Bijection, Injection, IsInjective, Surjection
<1>7. Cardinality(all \ {1}) = Cardinality(rest)
  BY <1>2, <1>6, FS_Bijection DEF ExistsBijection
<1>8. Cardinality(all \ {1}) = IF 1 \in all THEN Cardinality(all) - 1 ELSE Cardinality(all)
  BY <1>2, FS_RemoveElement
<1>9. 1 \in all <=> (Head(line).op \in ops /\ Head(line).from = from)
  BY <1>1 DEF all, Places
<1> QED
  BY <1>2, <1>7, <1>8, <1>9 DEF InLine, Counts, all, rest
------------------------------------------------------------------------------
(* What the invariant says of the requests, once more in terms of the line: *)
(* each request without an answer is in line or is being served, once.      *)
Answering(from, ops) == IF serving # None THEN Counts(serving, from, ops) ELSE 0

LEMMA UnderWayInLine ==
  ASSUME NEW from, NEW ops
  PROVE  UnderWay(from, ops) = InLine(tasks, from, ops) + Answering(from, ops)
BY DEF UnderWay, InLine, Places, Answering, Counts

LEMMA UnderWayInLineNext ==
  ASSUME NEW from, NEW ops
  PROVE  UnderWay(from, ops)' = InLine(tasks', from, ops) + Answering(from, ops)'
BY DEF UnderWay, InLine, Places, Answering, Counts

LEMMA CountsType == \A r, from, ops : Counts(r, from, ops) \in {0, 1}
BY DEF Counts, Ops, Changing

(* Whoever asks gets in line, once more.                                    *)
LEMMA AcquireCounts ==
  ASSUME ProviderTypeOK, NEW r \in Requests, Acquire(r)
  PROVE  /\ tasks' \in Seq(Requests) /\ scheds' \in Nat /\ scheds' > 0
         /\ UNCHANGED <<count, serving>>
         /\ \A from, ops : UnderWay(from, ops)' = UnderWay(from, ops) + Counts(r, from, ops)
<1>1. tasks' = Append(tasks, r) /\ scheds' = scheds + 1 /\ UNCHANGED <<count, serving>>
  BY DEF Acquire
<1>2. \A from, ops : InLine(tasks', from, ops) = InLine(tasks, from, ops) + Counts(r, from, ops)
  BY <1>1, InLineAppend DEF ProviderTypeOK
<1>3. \A from, ops : Answering(from, ops)' = Answering(from, ops)
  BY <1>1 DEF Answering
<1>4. \A from, ops : InLine(tasks, from, ops) \in Nat /\ Answering(from, ops) \in Nat
  BY PlacesFinite, CountsType DEF ProviderTypeOK, Answering
<1>5. \A from, ops : UnderWay(from, ops)' = UnderWay(from, ops) + Counts(r, from, ops)
  BY <1>2, <1>3, <1>4, CountsType, UnderWayInLine, UnderWayInLineNext
<1> QED
  BY <1>1, <1>5 DEF ProviderTypeOK

(* Giving the free mutex to the first in line forgets nobody: what is under *)
(* way after it was in line before.                                         *)
LEMMA TakenCounts ==
  ASSUME ProviderTypeOK, Taken(1)
  PROVE  /\ tasks' \in Seq(Requests) /\ serving' \in Requests \cup {None}
         /\ count' \in {0, 1}
         /\ serving' # None => count' = 0
         /\ count' = 0 => serving' # None
         /\ count' = 1 => tasks' = <<>>
         /\ \A from, ops : UnderWay(from, ops)' = InLine(tasks, from, ops)
<1>1. \A r \in Requests : r # None
  <2>1. \A r \in Requests : r.op # "none"
    BY DEF Requests, Ops, Changing
  <2>2. None.op = "none"
    BY DEF None
  <2> QED
    BY <2>1, <2>2
<1>2. \A from, ops : UnderWay(from, ops)' = InLine(tasks', from, ops) + Answering(from, ops)'
  BY UnderWayInLineNext
<1>3. CASE tasks # <<>>
  <2>1. count' = 0 /\ serving' = Head(tasks) /\ tasks' = Tail(tasks)
    BY <1>3 DEF Taken
  <2>2. Head(tasks) \in Requests /\ Tail(tasks) \in Seq(Requests)
    BY <1>3, HeadTailProperties DEF ProviderTypeOK
  <2>3. \A from, ops : Answering(from, ops)' = Counts(Head(tasks), from, ops)
    BY <2>1, <2>2, <1>1 DEF Answering
  <2>4. \A from, ops : InLine(tasks, from, ops)
                         = InLine(Tail(tasks), from, ops) + Counts(Head(tasks), from, ops)
    BY <1>3, InLineTail DEF ProviderTypeOK
  <2> QED
    BY <2>1, <2>2, <2>3, <2>4, <1>1, <1>2
<1>4. CASE tasks = <<>>
  <2>1. count' = 1 /\ serving' = None /\ tasks' = <<>>
    BY <1>4 DEF Taken
  <2>2. \A from, ops : Answering(from, ops)' = 0 /\ InLine(tasks', from, ops) = 0
    BY <2>1, InLineEmpty DEF Answering
  <2> QED
    BY <2>1, <2>2, <1>2, <1>4 DEF ProviderTypeOK
<1> QED
  BY <1>3, <1>4

(* A call that is due wakes the first in line; the others stay.             *)
LEMMA SchedStep == ASSUME ProviderInv, Sched PROVE ProviderInv'
<1>1. /\ ProviderTypeOK /\ NotMadeYet /\ MutexOK
      /\ UNCHANGED <<waiting, timers, made, refused>> /\ scheds' \in Nat
  BY DEF ProviderInv, Sched, nodeVars, ProviderTypeOK
<1>2. CASE count > 0
  <2>1. count = 1 /\ serving = None
    BY <1>1, <1>2 DEF MutexOK
  <2>2. Taken(1)
    BY <1>2, <2>1 DEF Sched
  <2>3. \A from, ops : UnderWay(from, ops)' = UnderWay(from, ops)
    <3>1. \A from, ops : /\ UnderWay(from, ops)' = InLine(tasks, from, ops)
                          /\ Answering(from, ops) = 0
                          /\ InLine(tasks, from, ops) \in Nat
      BY <1>1, <2>1, <2>2, TakenCounts, PlacesFinite DEF Answering, ProviderTypeOK
    <3> QED
      BY <3>1, UnderWayInLine
  <2>4. ProviderTypeOK' /\ NotMadeYet'
    BY <1>1, <2>2, TakenCounts DEF ProviderTypeOK, NotMadeYet
  <2>5. MutexOK'
    BY <1>1, <2>2, <2>3, TakenCounts DEF MutexOK
  <2> QED
    BY <2>4, <2>5 DEF ProviderInv
<1>3. CASE ~(count > 0)
  <2>1. count = 0 /\ UNCHANGED <<tasks, count, serving>>
    BY <1>1, <1>3 DEF Sched, MutexOK
  <2>2. \A from, ops : UnderWay(from, ops)' = UnderWay(from, ops)
    BY <2>1 DEF UnderWay
  <2>3. ProviderTypeOK' /\ NotMadeYet'
    BY <1>1, <2>1 DEF ProviderTypeOK, NotMadeYet
  <2>4. MutexOK'
    <3>1. /\ count' \in {0, 1} /\ count' # 1 /\ (serving' # None => count' = 0)
          /\ (count' = 0 /\ serving' = None => refused')
      BY <1>1, <2>1 DEF MutexOK
    <3>2. /\ \A c \in Clients : UnderWay(c, Ops)' = IF c \in waiting' THEN 1 ELSE 0
          /\ \A t \in TimerIds : UnderWay(t, {"mine"})' = timers'[t].mining
      BY <1>1, <2>2 DEF MutexOK
    <3> QED
      BY <3>1, <3>2 DEF MutexOK
  <2> QED
    BY <2>3, <2>4 DEF ProviderInv
<1> QED
  BY <1>2, <1>3

(* A request that is refused is answered too; the mutex stays taken.        *)
LEMMA RefuseStep == ASSUME ProviderInv, Refuse PROVE ProviderInv'
<1>1. /\ ProviderTypeOK /\ NotMadeYet /\ MutexOK
      /\ serving.op = "object params" /\ serving' = None /\ refused' = TRUE
      /\ waiting' = waiting \ {serving.from}
      /\ UNCHANGED <<tasks, scheds, count, timers, made>>
  BY DEF ProviderInv, Refuse, nodeVars
<1>2. serving # None /\ serving \in Requests /\ serving.from \in Clients /\ serving.op \in Ops
  <2>1. None.op # "object params"
    BY DEF None
  <2>2. serving # None /\ serving \in Requests
    BY <1>1, <2>1 DEF ProviderTypeOK
  <2> QED
    BY <1>1, <2>2 DEF Requests, Ops
<1>3. count = 0
  BY <1>1, <1>2 DEF MutexOK
<1>4. \A from, ops : /\ UnderWay(from, ops) = InLine(tasks, from, ops) + Counts(serving, from, ops)
                      /\ UnderWay(from, ops)' = InLine(tasks, from, ops) + 0
                      /\ InLine(tasks, from, ops) \in Nat
  BY <1>1, <1>2, UnderWayInLine, UnderWayInLineNext, PlacesFinite DEF Answering, ProviderTypeOK
<1>5. \A c \in Clients : UnderWay(c, Ops)' = IF c \in waiting' THEN 1 ELSE 0
  <2> SUFFICES ASSUME NEW c \in Clients
               PROVE  UnderWay(c, Ops)' = IF c \in waiting' THEN 1 ELSE 0
    OBVIOUS
  <2>1. UnderWay(c, Ops) = IF c \in waiting THEN 1 ELSE 0
    BY <1>1 DEF MutexOK
  <2>2. Counts(serving, c, Ops) = IF serving.from = c THEN 1 ELSE 0
    BY <1>2 DEF Counts
  <2>3. /\ UnderWay(c, Ops) = UnderWay(c, Ops)' + Counts(serving, c, Ops)
        /\ UnderWay(c, Ops)' \in Nat
    BY <1>4
  <2>4. c \in waiting' <=> c \in waiting /\ c # serving.from
    BY <1>1
  <2> QED
    BY <2>1, <2>2, <2>3, <2>4
<1>6. \A t \in TimerIds : UnderWay(t, {"mine"})' = timers'[t].mining
  <2> SUFFICES ASSUME NEW t \in TimerIds
               PROVE  UnderWay(t, {"mine"})' = timers'[t].mining
    OBVIOUS
  <2>1. UnderWay(t, {"mine"}) = timers[t].mining
    BY <1>1 DEF MutexOK
  <2>2. Counts(serving, t, {"mine"}) = 0
    BY <1>1 DEF Counts, Ops, Changing
  <2> QED
    BY <2>1, <2>2, <1>1, <1>4
<1>7. MutexOK'
  BY <1>1, <1>3, <1>5, <1>6 DEF MutexOK
<1>8. ProviderTypeOK' /\ NotMadeYet'
  BY <1>1 DEF ProviderTypeOK, NotMadeYet
<1> QED
  BY <1>7, <1>8 DEF ProviderInv

(* An answer takes one request off and gives the mutex on, whatever it does *)
(* to the timers without touching the loops that wait for a block.          *)
LEMMA ReplyStep ==
  ASSUME ProviderInv, serving \in Requests, NEW ts, ts \in [TimerIds -> Timers], NEW n \in Nat, NEW asked,
         n >= made,
         \A t \in TimerIds : ts[t].mining = timers[t].mining,
         \A t \in TimerIds : t > n => ts[t] = NoTimer,
         Reply(ts, n, asked)
  PROVE  ProviderInv'
<1>1. /\ ProviderTypeOK /\ NotMadeYet /\ MutexOK
      /\ Release /\ Answered(ts) /\ made' = n /\ UNCHANGED <<scheds, refused>>
  BY DEF ProviderInv, Reply, Release
<1>2. serving # None
  <2>1. serving.op # "none"
    BY DEF Requests, Ops, Changing
  <2> QED
    BY <2>1 DEF None
<1>3. count + 1 = 1
  BY <1>1, <1>2 DEF MutexOK
<1>4. Taken(1)
  BY <1>1, <1>3 DEF Release
<1>5. \A from, ops : /\ UnderWay(from, ops) = InLine(tasks, from, ops) + Counts(serving, from, ops)
                      /\ UnderWay(from, ops)' = InLine(tasks, from, ops)
                      /\ InLine(tasks, from, ops) \in Nat
  BY <1>1, <1>2, <1>4, UnderWayInLine, TakenCounts, PlacesFinite DEF Answering, ProviderTypeOK
<1>6. /\ \A c \in Clients : UnderWay(c, Ops) = IF c \in waiting THEN 1 ELSE 0
      /\ \A t \in TimerIds : UnderWay(t, {"mine"}) = ts[t].mining /\ ts[t].mining \in Nat
  BY <1>1 DEF MutexOK, ProviderTypeOK, Timers
<1>7. SUFFICES /\ waiting' \subseteq Clients
               /\ timers' \in [TimerIds -> Timers]
               /\ \A t \in TimerIds : t > n => timers'[t] = NoTimer
               /\ \A c \in Clients : UnderWay(c, Ops)' = IF c \in waiting' THEN 1 ELSE 0
               /\ \A t \in TimerIds : UnderWay(t, {"mine"})' = timers'[t].mining
  <2>1. /\ tasks' \in Seq(Requests) /\ serving' \in Requests \cup {None}
        /\ count' \in {0, 1}
        /\ serving' # None => count' = 0
        /\ count' = 0 => serving' # None
        /\ count' = 1 => tasks' = <<>>
    BY <1>1, <1>4, TakenCounts
  <2>2. ASSUME /\ waiting' \subseteq Clients
               /\ timers' \in [TimerIds -> Timers]
               /\ \A t \in TimerIds : t > n => timers'[t] = NoTimer
               /\ \A c \in Clients : UnderWay(c, Ops)' = IF c \in waiting' THEN 1 ELSE 0
               /\ \A t \in TimerIds : UnderWay(t, {"mine"})' = timers'[t].mining
        PROVE  ProviderTypeOK' /\ NotMadeYet' /\ MutexOK'
    <3>1. ProviderTypeOK' /\ NotMadeYet'
      BY <1>1, <2>1, <2>2 DEF ProviderTypeOK, NotMadeYet
    <3>2. MutexOK'
      BY <2>1, <2>2 DEF MutexOK
    <3> QED
      BY <3>1, <3>2
  <2> QED
    BY <2>2 DEF ProviderInv
<1>8. CASE serving.op = "mine"
  <2>1. PICK loop \in TimerIds : loop = serving.from
    BY <1>8 DEF Requests, Ops, Changing
  <2>2. /\ \A t \in TimerIds : Counts(serving, t, {"mine"}) = IF t = loop THEN 1 ELSE 0
        /\ \A c \in Clients : Counts(serving, c, Ops) = 0
    BY <1>8, <2>1 DEF Counts, Ops, Changing
  <2>3. /\ ts[loop].mining = InLine(tasks, loop, {"mine"}) + 1
        /\ InLine(tasks, loop, {"mine"}) \in Nat
        /\ UnderWay(loop, {"mine"})' = InLine(tasks, loop, {"mine"})
        /\ ts[loop] \in Timers
    BY <2>2, <1>5, <1>6
  <2>4. /\ timers' = [ts EXCEPT ![loop].mining = @ - 1, ![loop].mined = @ + 1]
        /\ waiting' = waiting
    BY <1>1, <1>8, <2>1 DEF Answered
  <2>5. /\ \A t \in TimerIds : t # loop => timers'[t] = ts[t]
        /\ timers'[loop] = [ts[loop] EXCEPT !.mining = @ - 1, !.mined = @ + 1]
        /\ timers' = [t \in TimerIds |-> timers'[t]]
    BY <2>4
  <2>6. /\ timers'[loop] \in Timers
        /\ timers'[loop].mining = InLine(tasks, loop, {"mine"})
    <3>1. ASSUME NEW r \in Timers, r.mining - 1 \in Nat
          PROVE  /\ [r EXCEPT !.mining = @ - 1, !.mined = @ + 1] \in Timers
                 /\ [r EXCEPT !.mining = @ - 1, !.mined = @ + 1].mining = r.mining - 1
      <4>1. r.mined + 1 \in Nat
        BY DEF Timers
      <4>2. ASSUME NEW m \in Nat, NEW d \in Nat
            PROVE  /\ [r EXCEPT !.mining = m, !.mined = d] \in Timers
                   /\ [r EXCEPT !.mining = m, !.mined = d].mining = m
        BY DEF Timers
      <4> QED
        BY <3>1, <4>1, <4>2
    <3>2. ts[loop].mining - 1 \in Nat /\ ts[loop].mining - 1 = InLine(tasks, loop, {"mine"})
      BY <2>3
    <3> QED
      BY <3>1, <3>2, <2>3, <2>5
  <2>7. timers' \in [TimerIds -> Timers]
    BY <2>5, <2>6
  <2>8. ~(loop > n)
    <3>1. NoTimer.mining = 0
      BY DEF NoTimer
    <3> QED
      BY <2>3, <3>1
  <2>9. \A t \in TimerIds : t > n => timers'[t] = NoTimer
    BY <2>5, <2>8
  <2>10. ASSUME NEW t \in TimerIds
         PROVE  UnderWay(t, {"mine"})' = timers'[t].mining
    <3>1. CASE t = loop
      BY <3>1, <2>3, <2>6
    <3>2. CASE t # loop
      <4>1. Counts(serving, t, {"mine"}) = 0 /\ timers'[t] = ts[t]
        BY <3>2, <2>2, <2>5
      <4> QED
        BY <4>1, <1>5, <1>6
    <3> QED
      BY <3>1, <3>2
  <2>11. ASSUME NEW c \in Clients
         PROVE  UnderWay(c, Ops)' = IF c \in waiting' THEN 1 ELSE 0
    <3>1. Counts(serving, c, Ops) = 0
      BY <2>2
    <3> QED
      BY <3>1, <2>4, <1>5, <1>6
  <2> QED
    BY <1>1, <2>4, <2>7, <2>9, <2>10, <2>11 DEF ProviderTypeOK
<1>9. CASE serving.op # "mine"
  <2>1. serving.from \in Clients /\ serving.op \in Ops
    BY <1>9 DEF Requests
  <2>2. /\ \A t \in TimerIds : Counts(serving, t, {"mine"}) = 0
        /\ \A c \in Clients : Counts(serving, c, Ops) = IF serving.from = c THEN 1 ELSE 0
    BY <1>9, <2>1 DEF Counts
  <2>3. timers' = ts /\ waiting' = waiting \ {serving.from}
    BY <1>1, <1>9 DEF Answered
  <2>4. ASSUME NEW c \in Clients
        PROVE  UnderWay(c, Ops)' = IF c \in waiting' THEN 1 ELSE 0
    <3>1. /\ UnderWay(c, Ops) = IF c \in waiting THEN 1 ELSE 0
          /\ UnderWay(c, Ops) = UnderWay(c, Ops)' + Counts(serving, c, Ops)
          /\ UnderWay(c, Ops)' \in Nat
      BY <1>5, <1>6
    <3>2. Counts(serving, c, Ops) = IF serving.from = c THEN 1 ELSE 0
      BY <2>2
    <3>3. c \in waiting' <=> c \in waiting /\ c # serving.from
      BY <2>3
    <3> QED
      BY <3>1, <3>2, <3>3
  <2>5. ASSUME NEW t \in TimerIds
        PROVE  UnderWay(t, {"mine"})' = timers'[t].mining
    <3>1. Counts(serving, t, {"mine"}) = 0
      BY <2>2
    <3> QED
      BY <3>1, <2>3, <1>5, <1>6
  <2> QED
    BY <1>1, <2>3, <2>4, <2>5 DEF ProviderTypeOK
<1> QED
  BY <1>8, <1>9
------------------------------------------------------------------------------
(* The timers: what requests do to them leaves the loops that mine alone.   *)
LEMMA TimerTypes ==
  /\ NoTimer \in Timers /\ NoTimer.mining = 0
  /\ \A t \in Timers : /\ WithTimeout(t) \in Timers /\ WithTimeout(t).mining = t.mining
                       /\ Start(t) \in Timers /\ Start(t).mining = t.mining
                       /\ Stop(t) \in Timers /\ Stop(t).mining = t.mining
<1>1. NoTimer \in Timers /\ NoTimer.mining = 0
  BY DEF NoTimer, Timers
<1>2. ASSUME NEW t \in Timers
      PROVE  WithTimeout(t) \in Timers /\ WithTimeout(t).mining = t.mining
  <2>1. Timeouts(t) \in Nat
    BY DEF Timeouts, Timers
  <2> QED
    BY <2>1 DEF WithTimeout, Timers
<1>3. ASSUME NEW t \in Timers
      PROVE  Start(t) \in Timers /\ Start(t).mining = t.mining
  <2>1. /\ [t EXCEPT !.running = TRUE] \in Timers
        /\ [t EXCEPT !.running = TRUE].mining = t.mining
    BY DEF Timers
  <2> QED
    BY <2>1, <1>2 DEF Start
<1>4. ASSUME NEW t \in Timers
      PROVE  Stop(t) \in Timers /\ Stop(t).mining = t.mining
  BY DEF Stop, Timers
<1> QED
  BY <1>1, <1>2, <1>3, <1>4

LEMMA SetBlockTimeType ==
  ASSUME NEW t \in Timers, NEW positive
  PROVE  SetBlockTime(t, positive) \in Timers /\ SetBlockTime(t, positive).mining = t.mining
<1>1. [t EXCEPT !.enabled = TRUE] \in Timers /\ [t EXCEPT !.enabled = TRUE].mining = t.mining
  BY DEF Timers
<1> QED
  BY <1>1, TimerTypes DEF SetBlockTime

LEMMA NewTimerType == NewTimer \in Timers /\ NewTimer.mining = 0
<1>1. /\ [NoTimer EXCEPT !.enabled = IntervalConfigured] \in Timers
      /\ [NoTimer EXCEPT !.enabled = IntervalConfigured].mining = 0
  BY TimerTypes, ProviderAssumption DEF Timers
<1> QED
  BY <1>1, TimerTypes DEF NewTimer

(* Timers that may follow: those before the last one mine as they did.      *)
Follow(ts, n) ==
  /\ ts \in [TimerIds -> Timers]
  /\ n \in Nat /\ n >= made
  /\ \A t \in TimerIds : ts[t].mining = timers[t].mining
  /\ \A t \in TimerIds : t > n => ts[t] = NoTimer

LEMMA SameFollow == ProviderInv => Follow(timers, made)
BY DEF ProviderInv, ProviderTypeOK, NotMadeYet, Follow

(* Changing the last one, if there is one, without its loops.               *)
LEMMA ChangedFollow ==
  ASSUME NEW ts, NEW n, Follow(ts, n), NEW x,
         n \in TimerIds => x \in Timers /\ x.mining = ts[n].mining
  PROVE  Follow([ts EXCEPT ![n] = x], n)
<1>1. CASE n \in TimerIds
  BY <1>1 DEF Follow, TimerIds
<1>2. CASE n \notin TimerIds
  <2>1. [ts EXCEPT ![n] = x] = ts
    BY <1>2 DEF Follow
  <2> QED
    BY <2>1
<1> QED
  BY <1>1, <1>2

(* Making the next.                                                         *)
LEMMA NewFollow ==
  ASSUME NEW ts, NEW n, Follow(ts, n), ProviderTypeOK
  PROVE  Follow([ts EXCEPT ![n + 1] = NewTimer], n + 1)
<1> DEFINE new == [ts EXCEPT ![n + 1] = NewTimer]
<1>1. /\ ts \in [TimerIds -> Timers] /\ n \in Nat /\ n >= made /\ made \in Nat
      /\ \A t \in TimerIds : ts[t].mining = timers[t].mining
      /\ \A t \in TimerIds : t > n => ts[t] = NoTimer
      /\ TimerIds \subseteq Nat
  BY ProviderAssumption DEF Follow, ProviderTypeOK, TimerIds
<1>2. new \in [TimerIds -> Timers]
  BY <1>1, NewTimerType
<1>3. \A t \in TimerIds : new[t] = IF t = n + 1 THEN NewTimer ELSE ts[t]
  BY <1>1
<1>4. ASSUME NEW t \in TimerIds
      PROVE  new[t].mining = timers[t].mining /\ (t > n + 1 => new[t] = NoTimer)
  <2>1. CASE t = n + 1
    <3>1. t > n /\ ts[t].mining = 0
      BY <2>1, <1>1, TimerTypes
    <3> QED
      BY <2>1, <3>1, <1>1, <1>3, NewTimerType
  <2>2. CASE t # n + 1
    <3>1. new[t] = ts[t] /\ (t > n + 1 => t > n)
      BY <2>2, <1>1, <1>3
    <3> QED
      BY <3>1, <1>1
  <2> QED
    BY <2>1, <2>2
<1>5. n + 1 \in Nat /\ n + 1 >= made
  BY <1>1
<1> HIDE DEF new
<1>6. Follow(new, n + 1)
  BY <1>2, <1>4, <1>5 DEF Follow
<1> QED
  BY <1>6 DEF new

LEMMA InitialisedFollow ==
  ProviderInv => Follow(Initialised.timers, Initialised.made)
<1> SUFFICES ASSUME ProviderInv PROVE Follow(Initialised.timers, Initialised.made)
  OBVIOUS
<1>1. Follow(timers, made) /\ ProviderTypeOK
  BY SameFollow DEF ProviderInv
<1>2. CASE node
  BY <1>1, <1>2 DEF Initialised
<1>3. CASE ~node
  <2>1. Follow([timers EXCEPT ![made + 1] = NewTimer], made + 1)
    BY <1>1, NewFollow
  <2> QED
    BY <2>1, <1>3 DEF Initialised
<1> QED
  BY <1>2, <1>3

LEMMA FollowReply ==
  ASSUME ProviderInv, serving.op \in Ops \cup {"mine"}, NEW ts, NEW n, Follow(ts, n), NEW asked,
         Reply(ts, n, asked)
  PROVE  ProviderInv'
<1>1. serving \in Requests
  <2>1. None.op \notin Ops \cup {"mine"}
    BY DEF None, Ops, Changing
  <2> QED
    BY <2>1 DEF ProviderInv, ProviderTypeOK
<1> QED
  BY <1>1, ReplyStep DEF Follow

LEMMA AnswerStep == ASSUME ProviderInv, Answer PROVE ProviderInv'
<1>1. ProviderTypeOK /\ Follow(timers, made) /\ Follow(Initialised.timers, Initialised.made)
  BY SameFollow, InitialisedFollow DEF ProviderInv
<1>2. CASE Serve
  <2>1. /\ serving.op \in Ops \cup {"mine"}
        /\ Reply(Initialised.timers, Initialised.made, Initialised.interval)
    BY <1>2 DEF Serve, Ops
  <2> QED
    BY <2>1, <1>1, FollowReply
<1>3. CASE SetInterval
  <2> DEFINE ts == Initialised.timers
             n == Initialised.made
             positive == serving.op = "set interval"
             x == SetBlockTime(ts[n], positive)
  <2>1. /\ serving.op \in Ops \cup {"mine"}
        /\ Reply([ts EXCEPT ![n] = SetBlockTime(@, positive)], n, positive)
    BY <1>3 DEF SetInterval, Ops, Changing
  <2> HIDE DEF ts, n
  <2>2. n \in TimerIds => x \in Timers /\ x.mining = ts[n].mining
    BY <1>1, SetBlockTimeType DEF Follow, ts, n
  <2>3. Follow([ts EXCEPT ![n] = x], n)
    BY <2>2, <1>1, ChangedFollow DEF ts, n
  <2> QED
    BY <2>1, <2>3, FollowReply
<1> DEFINE first == Initialised.timers
           n == Initialised.made
           stopped == [first EXCEPT ![n] = Stop(@)]
<1>4. Follow(stopped, n)
  <2> HIDE DEF first, n
  <2>1. n \in TimerIds => Stop(first[n]) \in Timers /\ Stop(first[n]).mining = first[n].mining
    BY <1>1, TimerTypes DEF Follow, first, n
  <2> QED
    BY <2>1, <1>1, ChangedFollow DEF first, n
<1>5. CASE Reset
  <2> DEFINE ts == [stopped EXCEPT ![n + 1] = NewTimer]
  <2>1. serving.op \in Ops \cup {"mine"} /\ Reply(ts, n + 1, IntervalConfigured)
    BY <1>5 DEF Reset, Ops, Changing
  <2>2. Follow(ts, n + 1)
    <3> HIDE DEF stopped, n
    <3> QED
      BY <1>1, <1>4, NewFollow
  <2> HIDE DEF ts
  <2> QED
    BY <2>1, <2>2, FollowReply
<1>6. CASE FailReset
  <2>1. serving.op \in Ops \cup {"mine"} /\ Reply(stopped, n, FALSE)
    BY <1>6 DEF FailReset, Ops, Changing
  <2> HIDE DEF stopped
  <2> QED
    BY <2>1, <1>4, FollowReply
<1>7. CASE FailInit
  <2>1. serving.op \in Ops \cup {"mine"} /\ Reply(timers, made, FALSE)
    BY <1>7 DEF FailInit, Ops
  <2> QED
    BY <2>1, <1>1, FollowReply
<1> QED
  BY <1>2, <1>3, <1>5, <1>6, <1>7 DEF Answer
------------------------------------------------------------------------------
(* A client asks once until it is answered.                                 *)
LEMMA AskStep ==
  ASSUME ProviderInv, NEW c \in Clients, NEW op \in Ops, Ask(c, op)
  PROVE  ProviderInv'
<1> DEFINE r == Request(c, op)
<1>1. r \in Requests /\ r.op = op /\ r.from = c
  BY DEF Request, Requests
<1> HIDE DEF r
<1>2. /\ ProviderTypeOK /\ NotMadeYet /\ MutexOK
      /\ c \notin waiting /\ waiting' = waiting \cup {c} /\ Acquire(r)
      /\ UNCHANGED <<timers, made, refused>>
  BY DEF ProviderInv, Ask, nodeVars, r
<1>3. /\ tasks' \in Seq(Requests) /\ scheds' \in Nat /\ scheds' > 0
      /\ UNCHANGED <<count, serving>>
      /\ \A from, ops : UnderWay(from, ops)' = UnderWay(from, ops) + Counts(r, from, ops)
  BY <1>1, <1>2, AcquireCounts
<1>4. ASSUME NEW d \in Clients
      PROVE  UnderWay(d, Ops)' = IF d \in waiting' THEN 1 ELSE 0
  <2>1. UnderWay(d, Ops) = IF d \in waiting THEN 1 ELSE 0
    BY <1>2 DEF MutexOK
  <2>2. Counts(r, d, Ops) = IF d = c THEN 1 ELSE 0
    BY <1>1 DEF Counts
  <2> QED
    BY <2>1, <2>2, <1>2, <1>3
<1>5. ASSUME NEW t \in TimerIds
      PROVE  UnderWay(t, {"mine"})' = timers'[t].mining
  <2>1. Counts(r, t, {"mine"}) = 0
    BY <1>1 DEF Counts, Ops, Changing
  <2>2. UnderWay(t, {"mine"}) = timers[t].mining /\ timers[t].mining \in Nat
    BY <1>2 DEF MutexOK, ProviderTypeOK, Timers
  <2> QED
    BY <2>1, <2>2, <1>2, <1>3
<1>6. ProviderTypeOK' /\ NotMadeYet'
  BY <1>2, <1>3 DEF ProviderTypeOK, NotMadeYet
<1>7. MutexOK'
  BY <1>2, <1>3, <1>4, <1>5 DEF MutexOK
<1> QED
  BY <1>6, <1>7 DEF ProviderInv

(* A loop whose timeout is over asks once for a block.                      *)
LEMMA TimeoutStep ==
  ASSUME ProviderInv, NEW t \in TimerIds, Timeout(t)
  PROVE  ProviderInv'
<1>1. /\ ProviderTypeOK /\ NotMadeYet /\ MutexOK
      /\ timers[t] \in Timers /\ UNCHANGED <<waiting, made, refused>>
  BY DEF ProviderInv, ProviderTypeOK, Timeout
<1>2. PICK t2 \in {[timers[t] EXCEPT !.last = FALSE], [timers[t] EXCEPT !.others = @ - 1]} :
        /\ t2 # timers[t] /\ t2.others >= 0
        /\ timers' = [timers EXCEPT ![t] = [t2 EXCEPT !.mining = IF t2.running THEN @ + 1 ELSE @]]
  BY DEF Timeout
<1>3. /\ t2 \in Timers /\ t2.running = timers[t].running /\ t2.mining = timers[t].mining
      /\ t2.running \in BOOLEAN /\ t2.mining \in Nat
  <2>1. CASE t2 = [timers[t] EXCEPT !.last = FALSE]
    BY <2>1, <1>1 DEF Timers
  <2>2. CASE t2 = [timers[t] EXCEPT !.others = @ - 1]
    <3>1. t2.others = timers[t].others - 1 /\ timers[t].others \in Nat
      BY <2>2, <1>1 DEF Timers
    <3>2. timers[t].others - 1 \in Nat
      BY <3>1, <1>2
    <3>3. ASSUME NEW r \in Timers, NEW m \in Nat
          PROVE  /\ [r EXCEPT !.others = m] \in Timers
                 /\ [r EXCEPT !.others = m].running = r.running
                 /\ [r EXCEPT !.others = m].mining = r.mining
      BY DEF Timers
    <3> QED
      BY <2>2, <3>2, <3>3, <1>1 DEF Timers
  <2> QED
    BY <2>1, <2>2, <1>2
<1>4. t <= made
  <2> SUFFICES ASSUME timers[t] = NoTimer
               PROVE  FALSE
    BY <1>1, ProviderAssumption DEF NotMadeYet, ProviderTypeOK, TimerIds
  <2>1. timers[t].last = FALSE /\ timers[t].others = 0
    BY DEF NoTimer
  <2>2. [timers[t] EXCEPT !.last = FALSE] = timers[t]
    <3>1. ASSUME NEW r \in Timers, r.last = FALSE
          PROVE  [r EXCEPT !.last = FALSE] = r
      BY <3>1 DEF Timers
    <3> QED
      BY <3>1, <2>1, <1>1
  <2>3. ~([timers[t] EXCEPT !.others = @ - 1].others >= 0)
    <3>1. [timers[t] EXCEPT !.others = @ - 1].others = timers[t].others - 1
      BY <1>1 DEF Timers
    <3> QED
      BY <3>1, <2>1
  <2> QED
    BY <2>2, <2>3, <1>2
<1> DEFINE new == [t2 EXCEPT !.mining = IF t2.running THEN @ + 1 ELSE @]
<1>5. new \in Timers /\ new.mining = timers[t].mining + IF t2.running THEN 1 ELSE 0
  <2>1. ASSUME NEW m \in Nat
        PROVE  [t2 EXCEPT !.mining = m] \in Timers /\ [t2 EXCEPT !.mining = m].mining = m
    BY <1>3 DEF Timers
  <2>2. t2.mining + 1 \in Nat
    BY <1>3
  <2> QED
    BY <2>1, <2>2, <1>3
<1>6. timers' = [timers EXCEPT ![t] = new]
  BY <1>2
<1> HIDE DEF new
<1>7. /\ timers' \in [TimerIds -> Timers]
      /\ timers'[t] = new
      /\ \A u \in TimerIds : u # t => timers'[u] = timers[u]
  BY <1>1, <1>5, <1>6 DEF ProviderTypeOK
<1>8. NotMadeYet'
  BY <1>1, <1>4, <1>7, ProviderAssumption DEF NotMadeYet, ProviderTypeOK, TimerIds
<1>9. CASE t2.running
  <2> DEFINE r == Request(t, "mine")
  <2>1. r \in Requests /\ r.op = "mine" /\ r.from = t
    BY DEF Request, Requests
  <2>2. Acquire(r)
    BY <1>3, <1>9 DEF Timeout
  <2> HIDE DEF r
  <2>3. /\ tasks' \in Seq(Requests) /\ scheds' \in Nat /\ scheds' > 0
        /\ UNCHANGED <<count, serving>>
        /\ \A from, ops : UnderWay(from, ops)' = UnderWay(from, ops) + Counts(r, from, ops)
    BY <2>1, <2>2, <1>1, AcquireCounts
  <2>4. ASSUME NEW c \in Clients
        PROVE  UnderWay(c, Ops)' = IF c \in waiting' THEN 1 ELSE 0
    <3>1. Counts(r, c, Ops) = 0
      BY <2>1 DEF Counts, Ops, Changing
    <3>2. UnderWay(c, Ops) = IF c \in waiting THEN 1 ELSE 0
      BY <1>1 DEF MutexOK
    <3> QED
      BY <3>1, <3>2, <2>3, <1>1
  <2>5. ASSUME NEW u \in TimerIds
        PROVE  UnderWay(u, {"mine"})' = timers'[u].mining
    <3>1. Counts(r, u, {"mine"}) = IF u = t THEN 1 ELSE 0
      BY <2>1 DEF Counts
    <3>2. UnderWay(u, {"mine"}) = timers[u].mining /\ timers[u].mining \in Nat
      BY <1>1 DEF MutexOK, ProviderTypeOK, Timers
    <3> QED
      BY <3>1, <3>2, <2>3, <1>5, <1>7, <1>9
  <2>6. ProviderTypeOK'
    BY <2>3, <1>1, <1>7 DEF ProviderTypeOK
  <2>7. MutexOK'
    BY <2>3, <2>4, <2>5, <1>1 DEF MutexOK
  <2> QED
    BY <2>6, <2>7, <1>8 DEF ProviderInv
<1>10. CASE ~t2.running
  <2>1. UNCHANGED <<tasks, scheds, count, serving>>
    BY <1>3, <1>10 DEF Timeout, mutexVars
  <2>2. \A from, ops : UnderWay(from, ops)' = UnderWay(from, ops)
    BY <2>1 DEF UnderWay
  <2>3. ASSUME NEW u \in TimerIds
        PROVE  UnderWay(u, {"mine"})' = timers'[u].mining
    <3>1. UnderWay(u, {"mine"}) = timers[u].mining /\ timers[u].mining \in Nat
      BY <1>1 DEF MutexOK, ProviderTypeOK, Timers
    <3> QED
      BY <3>1, <2>2, <1>5, <1>7, <1>10
  <2>4. ProviderTypeOK'
    BY <2>1, <1>1, <1>7 DEF ProviderTypeOK
  <2>5. /\ count' \in {0, 1} /\ (serving' # None => count' = 0)
        /\ (count' = 0 /\ serving' = None => refused')
        /\ (count' = 1 /\ tasks' # <<>> => scheds' > 0)
    BY <2>1, <1>1 DEF MutexOK
  <2>6. \A c \in Clients : UnderWay(c, Ops)' = IF c \in waiting' THEN 1 ELSE 0
    BY <2>2, <1>1 DEF MutexOK
  <2>7. MutexOK'
    BY <2>3, <2>5, <2>6 DEF MutexOK
  <2> QED
    BY <2>4, <2>7, <1>8 DEF ProviderInv
<1> QED
  BY <1>9, <1>10

LEMMA LoopAgainStep ==
  ASSUME ProviderInv, NEW t \in TimerIds, LoopAgain(t)
  PROVE  ProviderInv'
<1>1. /\ ProviderTypeOK /\ NotMadeYet /\ MutexOK
      /\ timers[t] \in Timers /\ timers[t].mined > 0
      /\ timers' = [timers EXCEPT ![t] = [WithTimeout(timers[t]) EXCEPT !.mined = timers[t].mined - 1]]
      /\ UNCHANGED <<tasks, scheds, count, serving, waiting, made, refused>>
  BY DEF ProviderInv, ProviderTypeOK, LoopAgain, mutexVars
<1> DEFINE w == WithTimeout(timers[t])
           new == [w EXCEPT !.mined = timers[t].mined - 1]
<1>2. w \in Timers /\ w.mining = timers[t].mining /\ w.mined = timers[t].mined
  BY <1>1, TimerTypes DEF WithTimeout, Timers
<1>3. new \in Timers /\ new.mining = timers[t].mining
  <2> HIDE DEF w
  <2>1. ASSUME NEW m \in Nat
        PROVE  [w EXCEPT !.mined = m] \in Timers /\ [w EXCEPT !.mined = m].mining = w.mining
    BY <1>2 DEF Timers
  <2>2. timers[t].mined - 1 \in Nat
    BY <1>1, <1>2 DEF Timers
  <2> QED
    BY <2>1, <2>2, <1>2
<1>4. timers' = [timers EXCEPT ![t] = new]
  BY <1>1
<1>5. t <= made
  <2>1. NoTimer.mined = 0
    BY DEF NoTimer
  <2> QED
    BY <2>1, <1>1, ProviderAssumption DEF NotMadeYet, ProviderTypeOK, TimerIds
<1> HIDE DEF new, w
<1>6. /\ timers' \in [TimerIds -> Timers]
      /\ timers'[t] = new
      /\ \A u \in TimerIds : u # t => timers'[u] = timers[u]
  BY <1>1, <1>3, <1>4 DEF ProviderTypeOK
<1>7. \A from, ops : UnderWay(from, ops)' = UnderWay(from, ops)
  BY <1>1 DEF UnderWay
<1>8. \A u \in TimerIds : UnderWay(u, {"mine"})' = timers'[u].mining
  BY <1>1, <1>3, <1>6, <1>7 DEF MutexOK
<1>9. \A c \in Clients : UnderWay(c, Ops)' = IF c \in waiting' THEN 1 ELSE 0
  BY <1>1, <1>7 DEF MutexOK
<1>10. /\ count' \in {0, 1} /\ (serving' # None => count' = 0)
       /\ (count' = 0 /\ serving' = None => refused')
       /\ (count' = 1 /\ tasks' # <<>> => scheds' > 0)
  BY <1>1 DEF MutexOK
<1>11. NotMadeYet'
  BY <1>1, <1>5, <1>6, ProviderAssumption DEF NotMadeYet, ProviderTypeOK, TimerIds
<1>12. ProviderTypeOK'
  BY <1>1, <1>6 DEF ProviderTypeOK
<1>13. MutexOK'
  BY <1>8, <1>9, <1>10 DEF MutexOK
<1> QED
  BY <1>11, <1>12, <1>13 DEF ProviderInv

LEMMA ProviderInvInit == ProviderInit => ProviderInv
<1> SUFFICES ASSUME ProviderInit PROVE ProviderInv
  OBVIOUS
<1>1. /\ tasks = <<>> /\ scheds = 0 /\ count = 1 /\ serving = None /\ waiting = {} /\ made = 0
      /\ timers = [t \in TimerIds |-> NoTimer]
  BY DEF ProviderInit
<1>2. \A from, ops : UnderWay(from, ops) = 0
  <2>1. \A from, ops : InLine(tasks, from, ops) = 0 /\ Answering(from, ops) = 0
    BY <1>1, InLineEmpty DEF Answering
  <2> QED
    BY <2>1, UnderWayInLine
<1>3. ProviderTypeOK
  BY <1>1, TimerTypes DEF ProviderTypeOK
<1>4. \A t \in TimerIds : timers[t] = NoTimer /\ timers[t].mining = 0
  BY <1>1, TimerTypes
<1>5. MutexOK
  BY <1>1, <1>2, <1>4 DEF MutexOK
<1> QED
  BY <1>3, <1>4, <1>5 DEF ProviderInv, NotMadeYet

LEMMA ProviderInvStep == ProviderInv /\ [Next]_providerVars => ProviderInv'
<1> SUFFICES ASSUME ProviderInv, [Next]_providerVars PROVE ProviderInv'
  OBVIOUS
<1>1. CASE UNCHANGED providerVars
  <2>1. UNCHANGED <<tasks, scheds, count, serving, waiting, timers, made, refused>>
    BY <1>1 DEF providerVars, mutexVars, nodeVars
  <2>2. \A from, ops : UnderWay(from, ops)' = UnderWay(from, ops)
    BY <2>1 DEF UnderWay
  <2>3. MutexOK'
    BY <2>1, <2>2 DEF ProviderInv, MutexOK
  <2> QED
    BY <2>1, <2>3 DEF ProviderInv, ProviderTypeOK, NotMadeYet
<1>2. CASE Sched
  BY <1>2, SchedStep
<1>3. CASE Refuse
  BY <1>3, RefuseStep
<1>4. CASE Answer
  BY <1>4, AnswerStep
<1>5. ASSUME NEW t \in TimerIds, Timeout(t) PROVE ProviderInv'
  BY <1>5, TimeoutStep
<1>6. ASSUME NEW t \in TimerIds, LoopAgain(t) PROVE ProviderInv'
  BY <1>6, LoopAgainStep
<1>7. ASSUME NEW c \in Clients, NEW op \in Ops, Ask(c, op) PROVE ProviderInv'
  BY <1>7, AskStep
<1> QED
  BY <1>1, <1>2, <1>3, <1>4, <1>5, <1>6, <1>7 DEF Next

(* No request is lost or served twice, and the mutex is only ever left      *)
(* taken by a request that was refused, whatever clients and timers there   *)
(* are.                                                                     *)
THEOREM MutexStaysOK == ProviderSpec => []MutexOK
<1>1. ProviderInit => ProviderInv
  BY ProviderInvInit
<1>2. ProviderInv /\ [Next]_providerVars => ProviderInv'
  BY ProviderInvStep
<1>3. ProviderInv => MutexOK
  BY DEF ProviderInv
<1> QED
  BY <1>1, <1>2, <1>3, PTL DEF ProviderSpec
=============================================================================
