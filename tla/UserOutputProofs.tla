------------------------- MODULE UserOutputProofs -------------------------
(***************************************************************************)
(* Proofs about UserOutput, for any number of threads that print, any      *)
(* limit and any lengths; and about JsonTranslation, for any heap and any  *)
(* limits on items and depth.                                              *)
(***************************************************************************)
EXTENDS UserOutput, NumberInduction, FiniteSetTheorems, SequenceTheorems, TLAPS

Destinations == 0 .. (MaxExecutions + 1)
Phases == {"idle", "body", "cell", "text", "flag", "omitted", "refresh"}
Pens == [at : {"rest"}]
        \cup [at : {"append"}, to : Destinations, length : Lengths]
        \cup [at : {"count"}, to : Executions, kept : Nat]
        \cup [at : {"store"}, to : Executions, sum : Nat]
Sinks == [held : Nat, retained : Nat, total : Nat, displays : Nat, displaysCut : BOOLEAN,
          own : Nat, cut : BOOLEAN, gap : BOOLEAN, overlapped : BOOLEAN, crossed : BOOLEAN]
Responses == [text : Nat, truncated : BOOLEAN, omitted : Int, written : Nat]

TypeOK ==
    /\ phase \in Phases
    /\ stdout \in Destinations
    /\ saved \in Seq(Destinations)
    /\ execution \in 0 .. MaxExecutions
    /\ sink \in [Executions -> Sinks]
    /\ pen \in [Threads -> Pens]
    /\ showing \in [Threads -> Seq(Executions)]
    /\ response \in [Executions -> Responses]
    /\ prints \in Nat

-----------------------------------------------------------------------------
(***************************************************************************)
(* Which stream is in force.                                               *)
(***************************************************************************)
\* The redirections are nested as the phases are.
Nested ==
    /\ phase = "idle" => stdout = Protocol /\ Len(saved) = 0
    /\ phase \notin {"idle", "cell"} =>
           stdout = Discard /\ Len(saved) = 1 /\ saved[1] = Protocol
    /\ phase = "cell" =>
           stdout = execution /\ Len(saved) = 2 /\ saved[1] = Protocol /\ saved[2] = Discard
    /\ phase \in {"cell", "text", "flag", "omitted"} => execution # 0

\* The owner's own prints go where sys.stdout points, and end with its phase.
MainDirect ==
    /\ pen[Main].at = "append" => pen[Main].to = stdout
    /\ phase \notin {"body", "cell", "refresh"} => pen[Main] = Resting

Streams == TypeOK /\ Nested /\ MainDirect

LEMMA LastTakenOff ==
    ASSUME NEW S, NEW q \in Seq(S), Len(q) # 0
    PROVE  /\ q[Len(q)] \in S
           /\ SubSeq(q, 1, Len(q) - 1) \in Seq(S)
           /\ Len(SubSeq(q, 1, Len(q) - 1)) = Len(q) - 1
           /\ \A i \in 1 .. Len(q) - 1 : SubSeq(q, 1, Len(q) - 1)[i] = q[i]
<1>1. Len(q) \in Nat /\ \A i \in 1 .. Len(q) : q[i] \in S
  OBVIOUS
<1>2. \A i \in 1 .. Len(q) - 1 : q[i] \in S
  BY <1>1
<1>3. SubSeq(q, 1, Len(q) - 1) \in Seq(S)
  BY <1>1, SubSeqProperties
<1>4. Len(SubSeq(q, 1, Len(q) - 1)) = Len(q) - 1
  <2>1. ASSUME NEW k \in Nat, \A i \in 1 .. k : q[i] \in S
        PROVE  Len(SubSeq(q, 1, k)) = k
    BY <2>1, SubSeqProperties
  <2>2. Len(q) - 1 \in Nat
    BY <1>1
  <2> QED BY ONLY <1>2, <2>1, <2>2
<1>5. \A i \in 1 .. Len(q) - 1 : SubSeq(q, 1, Len(q) - 1)[i] = q[i]
  BY <1>1, <1>2
<1> QED BY <1>1, <1>3, <1>4, <1>5

LEMMA PenMoves ==
    ASSUME NEW P, pen \in [Threads -> P], NEW t \in Threads, NEW p \in P,
           pen' = [pen EXCEPT ![t] = p]
    PROVE  pen' \in [Threads -> P]
OBVIOUS

LEMMA ShowingMoves ==
    ASSUME NEW S, showing \in [Threads -> S], NEW t \in Threads, NEW q \in S,
           showing' = [showing EXCEPT ![t] = q]
    PROVE  /\ showing' \in [Threads -> S]
           /\ showing'[t] = q
           /\ \A u \in Threads \ {t} : showing'[u] = showing[u]
OBVIOUS

LEMMA SinkMoves ==
    ASSUME NEW S, sink \in [Executions -> S], NEW n \in Executions, NEW s \in S,
           sink' = [sink EXCEPT ![n] = s]
    PROVE  sink' \in [Executions -> S]
OBVIOUS

LEMMA ResponseMoves ==
    ASSUME NEW S, response \in [Executions -> S], NEW n \in Executions, NEW s \in S,
           response' = [response EXCEPT ![n] = s]
    PROVE  response' \in [Executions -> S]
OBVIOUS

\* The values that a pen takes.
LEMMA PenValues ==
    /\ Resting \in Pens
    /\ \A n \in Destinations, k \in Lengths : [at |-> "append", to |-> n, length |-> k] \in Pens
    /\ \A n \in Executions, k \in Nat :
          /\ [at |-> "count", to |-> n, kept |-> k] \in Pens
          /\ [at |-> "store", to |-> n, sum |-> k] \in Pens
BY DEF Pens, Resting

LEMMA PenCases ==
    ASSUME NEW p \in Pens
    PROVE  /\ p.at \in {"rest", "append", "count", "store"}
           /\ p.at = "rest" => p = Resting
           /\ p.at = "append" => p.to \in Destinations /\ p.length \in Lengths
           /\ p.at = "count" => p.to \in Executions /\ p.kept \in Nat
           /\ p.at = "store" => p.to \in Executions /\ p.sum \in Nat
BY DEF Pens, Resting

LEMMA SinkFields ==
    ASSUME NEW s \in Sinks
    PROVE  /\ s.held \in Nat /\ s.retained \in Nat /\ s.total \in Nat /\ s.displays \in Nat
           /\ s.own \in Nat
           /\ s.cut \in BOOLEAN /\ s.gap \in BOOLEAN /\ s.overlapped \in BOOLEAN
           /\ s.crossed \in BOOLEAN
           /\ s.displaysCut \in BOOLEAN
BY DEF Sinks

LEMMA SinkUpdates ==
    ASSUME NEW s \in Sinks
    PROVE  /\ \A k \in Nat : [s EXCEPT !.retained = k] \in Sinks
           /\ \A k \in Nat : [s EXCEPT !.displays = k] \in Sinks
           /\ \A b \in BOOLEAN : [s EXCEPT !.overlapped = b] \in Sinks
           /\ \A b, c \in BOOLEAN : [s EXCEPT !.displaysCut = c, !.crossed = b] \in Sinks
BY DEF Sinks

LEMMA ResponseUpdates ==
    ASSUME NEW r \in Responses
    PROVE  /\ \A k, m \in Nat : [r EXCEPT !.text = k, !.written = m] \in Responses
           /\ \A b \in BOOLEAN : [r EXCEPT !.truncated = b] \in Responses
           /\ \A i \in Int : [r EXCEPT !.omitted = i] \in Responses
BY DEF Responses

\* What a write leaves is a sink, and keeps no more than was written.
LEMMA WrittenSink ==
    ASSUME NEW s \in Sinks, NEW t, NEW length \in Nat \ {0}, NEW o \in BOOLEAN
    PROVE  /\ Kept(length, Room(s)) \in 0 .. length
           /\ [Written(s, t, length, Kept(length, Room(s))) EXCEPT !.overlapped = o] \in Sinks
<1>1. Room(s) \in Nat
  BY OutputAssumption DEF Room, Sinks
<1>2. Kept(length, Room(s)) \in 0 .. length
  BY <1>1 DEF Kept
<1>3. ASSUME NEW k \in 0 .. length
      PROVE  [Written(s, t, length, k) EXCEPT !.overlapped = o] \in Sinks
  <2>1. ASSUME NEW x \in Nat, NEW y \in Nat, NEW z \in Nat, NEW c \in BOOLEAN, NEW g \in BOOLEAN
        PROVE  [[s EXCEPT !.total = x, !.held = y, !.own = z, !.cut = c, !.gap = g]
                   EXCEPT !.overlapped = o] \in Sinks
    BY <2>1 DEF Sinks
  <2>2. s.total + length \in Nat /\ s.held + k \in Nat
    BY SinkFields
  <2>3. s.own + (IF t = Main THEN length ELSE 0) \in Nat
    BY SinkFields
  <2>4. (s.cut \/ k < length) \in BOOLEAN /\ (s.gap \/ (s.cut /\ k > 0)) \in BOOLEAN
    OBVIOUS
  <2> QED BY <2>1, <2>2, <2>3, <2>4 DEF Written
<1> QED BY <1>2, <1>3

\* What the two halves of publish change.
DisplayStarted(t, full, met) ==
    /\ sink' = [sink EXCEPT ![execution] =
           [sink[execution] EXCEPT !.displaysCut = sink[execution].displaysCut \/ full,
                                   !.crossed = sink[execution].crossed \/ met]]
    /\ showing' = [showing EXCEPT ![t] = IF full THEN showing[t]
                                         ELSE Append(showing[t], execution)]
    /\ full <=> sink[execution].displays >= MaxDisplay
    /\ ~full /\ (\E u \in Threads : Displaying(u, execution)) => met
    /\ met => ~full

DisplayStored(t, n) ==
    /\ Len(showing[t]) # 0 /\ n = showing[t][Len(showing[t])]
    /\ showing' = [showing EXCEPT ![t] = SubSeq(showing[t], 1, Len(showing[t]) - 1)]
    /\ \/ sink' = [sink EXCEPT ![n] = [sink[n] EXCEPT !.displays = @ + 1]]
       \/ sink' = sink

LEMMA DisplayEffect ==
    ASSUME NEW t \in Threads, StartDisplay(t), showing \in [Threads -> Seq(Executions)],
           execution \in Executions, sink \in [Executions -> Sinks]
    PROVE  \E full \in BOOLEAN, met \in BOOLEAN : DisplayStarted(t, full, met)
<1> DEFINE full == sink[execution].displays >= MaxDisplay
           met  == ~full /\ \E u \in Threads : Displaying(u, execution)
<1>1. full \in BOOLEAN /\ met \in BOOLEAN
  OBVIOUS
<1>2. sink' = [sink EXCEPT ![execution] =
           [sink[execution] EXCEPT !.displaysCut = sink[execution].displaysCut \/ full,
                                   !.crossed = sink[execution].crossed \/ met]]
  BY Zenon DEF StartDisplay
<1>3. showing' = [showing EXCEPT ![t] = IF full THEN showing[t]
                                       ELSE Append(showing[t], execution)]
  BY Zenon DEF StartDisplay
<1>4. DisplayStarted(t, full, met)
  BY <1>2, <1>3, Zenon DEF DisplayStarted
<1> HIDE DEF full, met
<1> QED BY <1>1, <1>4

LEMMA ShowEffect ==
    ASSUME NEW t \in Threads, Show(t), showing \in [Threads -> Seq(Executions)],
           sink \in [Executions -> Sinks]
    PROVE  \E n \in Executions : DisplayStored(t, n)
<1>1. showing[t] \in Seq(Executions) /\ Len(showing[t]) # 0
  BY DEF Show
<1>2. PICK n \in Executions : n = showing[t][Len(showing[t])]
  BY <1>1, LastTakenOff
<1>3. showing' = [showing EXCEPT ![t] = SubSeq(showing[t], 1, Len(showing[t]) - 1)]
  BY Zenon DEF Show
<1>4. \/ sink' = [sink EXCEPT ![n] = [sink[n] EXCEPT !.displays = @ + 1]]
      \/ sink' = sink
  BY <1>2 DEF Show
<1> QED BY <1>1, <1>2, <1>3, <1>4 DEF DisplayStored

\* Every stream and every record of a print is what the code makes it.
LEMMA TypeStep ==
    ASSUME TypeOK, Nested, [Next]_vars
    PROVE  TypeOK'
<1> USE OutputAssumption DEF Protocol, Discard
<1>0. /\ sink \in [Executions -> Sinks] /\ pen \in [Threads -> Pens]
      /\ response \in [Executions -> Responses] /\ prints \in Nat
      /\ saved \in Seq(Destinations) /\ stdout \in Destinations /\ execution \in 0 .. MaxExecutions
      /\ Executions = 1 .. MaxExecutions /\ Destinations = 0 .. MaxExecutions + 1
      /\ Executions \subseteq Destinations
      /\ showing \in [Threads -> Seq(Executions)]
      /\ phase \in {"cell", "text", "flag", "omitted"} => execution \in Executions
      /\ phase \in {"cell", "body", "refresh"} => Len(saved) # 0
  BY DEF TypeOK, Nested, Executions, Destinations
<1>1. CASE BeginOperation
  BY <1>0, <1>1 DEF BeginOperation, Redirect, Phases, TypeOK
<1>2. CASE BeginCell
  BY <1>0, <1>2 DEF BeginCell, Redirect, Phases, TypeOK
<1>3. CASE EndCell
  <2>1. Len(saved) # 0
    BY <1>0, <1>3 DEF EndCell
  <2>2. stdout' \in Destinations /\ saved' \in Seq(Destinations)
    BY <1>0, <1>3, <2>1, LastTakenOff DEF EndCell, PutBack
  <2> QED BY <1>0, <1>3, <2>2 DEF EndCell, Phases, TypeOK
<1>4. CASE EndOperation
  <2>1. Len(saved) # 0
    BY <1>0, <1>4 DEF EndOperation
  <2>2. stdout' \in Destinations /\ saved' \in Seq(Destinations)
    BY <1>0, <1>4, <2>1, LastTakenOff DEF EndOperation, PutBack
  <2> QED BY <1>0, <1>4, <2>2 DEF EndOperation, Phases, TypeOK
<1>5. ASSUME NEW n \in Executions, NEW b \in BOOLEAN,
             sink' = [sink EXCEPT ![n].overlapped = @ \/ b]
      PROVE  sink' \in [Executions -> Sinks]
  <2>1. [sink[n] EXCEPT !.overlapped = @ \/ b] \in Sinks
    BY <1>0, SinkFields, SinkUpdates
  <2> QED BY <1>0, <1>5, <2>1
<1>6. CASE ReadText
  <2>1. execution \in Executions /\ Busy(execution) \in BOOLEAN
    BY <1>0, <1>6 DEF ReadText, Busy
  <2>2. [response[execution] EXCEPT !.text = sink[execution].held,
                                    !.written = sink[execution].total] \in Responses
    BY <1>0, <2>1, SinkFields DEF Responses
  <2>3. response' \in [Executions -> Responses]
    BY <1>0, <1>6, <2>1, <2>2, ResponseMoves DEF ReadText
  <2>4. sink' \in [Executions -> Sinks]
    BY <1>0, <1>5, <1>6, <2>1 DEF ReadText
  <2> QED BY <1>0, <1>6, <2>3, <2>4 DEF ReadText, Phases, TypeOK
<1>7. CASE ReadFlag
  <2>1. execution \in Executions /\ Busy(execution) \in BOOLEAN
    BY <1>0, <1>7 DEF ReadFlag, Read, Busy
  <2>2. [response[execution] EXCEPT !.truncated = Omitted(execution) > 0] \in Responses
    <3>1. (Omitted(execution) > 0) \in BOOLEAN
      OBVIOUS
    <3> QED BY <1>0, <2>1, <3>1, ResponseUpdates
  <2>3. response' \in [Executions -> Responses]
    BY <1>0, <1>7, <2>1, <2>2 DEF ReadFlag, Read
  <2>4. sink' \in [Executions -> Sinks]
    BY <1>0, <1>5, <1>7, <2>1 DEF ReadFlag, Read
  <2> QED BY <1>0, <1>7, <2>3, <2>4 DEF ReadFlag, Read, Phases, TypeOK
<1>16. CASE ReadOmitted
  <2>1. execution \in Executions /\ Busy(execution) \in BOOLEAN
    BY <1>0, <1>16 DEF ReadOmitted, Read, Busy
  <2>2. Omitted(execution) \in Int
    BY <1>0, <2>1, SinkFields DEF Omitted
  <2>5. [response[execution] EXCEPT !.omitted = Omitted(execution)] \in Responses
    BY <1>0, <2>1, <2>2, ResponseUpdates
  <2>3. response' \in [Executions -> Responses]
    BY <1>0, <1>16, <2>1, <2>5 DEF ReadOmitted, Read
  <2>4. sink' \in [Executions -> Sinks]
    BY <1>0, <1>5, <1>16, <2>1 DEF ReadOmitted, Read
  <2> QED BY <1>0, <1>16, <2>3, <2>4 DEF ReadOmitted, Read, Phases, TypeOK
<1>8. ASSUME NEW t \in Threads, StartPrint(t) PROVE TypeOK'
  BY <1>0, <1>8, PenMoves, PenValues DEF StartPrint, Begins, TypeOK
<1>9. ASSUME NEW t \in Threads, WriteElsewhere(t) PROVE TypeOK'
  BY <1>0, <1>9, PenMoves, PenValues DEF WriteElsewhere, TypeOK
<1>10. ASSUME NEW t \in Threads, Write(t) PROVE TypeOK'
  <2> DEFINE n    == pen[t].to
             kept == Kept(pen[t].length, Room(sink[n]))
             lap  == sink[n].overlapped \/ MeetsAnother(t, n)
                         \/ (n = execution /\ phase \in {"flag", "omitted"})
             s    == [Written(sink[n], t, pen[t].length, kept) EXCEPT !.overlapped = lap]
  <2>1. n \in Executions /\ pen[t].length \in Nat \ {0} /\ sink[n] \in Sinks
    BY <1>0, <1>10, PenCases DEF Write
  <2>2. lap \in BOOLEAN
    OBVIOUS
  <2>3. kept \in 0 .. pen[t].length /\ s \in Sinks
    BY <1>0, <2>1, <2>2, WrittenSink
  <2>4. pen' = [pen EXCEPT ![t] = IF kept = 0 THEN Resting
                                  ELSE [at |-> "count", to |-> n, kept |-> kept]]
    BY <1>10, Zenon DEF Write
  <2>5. pen' \in [Threads -> Pens]
    <3> HIDE DEF n, kept
    <3>1. (IF kept = 0 THEN Resting ELSE [at |-> "count", to |-> n, kept |-> kept]) \in Pens
      <4>1. kept \in Nat
        BY <1>0, <2>1, <2>3
      <4> QED BY <1>0, <2>1, <4>1, PenValues
    <3> QED BY <1>0, <2>4, <3>1, PenMoves
  <2>6. sink' = [sink EXCEPT ![n] = s]
    BY <1>10, Zenon DEF Write
  <2>7. sink' \in [Executions -> Sinks]
    <3> HIDE DEF n, s
    <3> QED BY <1>0, <2>1, <2>3, <2>6, SinkMoves
  <2> QED BY <1>0, <1>10, <2>5, <2>7 DEF Write, TypeOK
<1>11. ASSUME NEW t \in Threads, Load(t) PROVE TypeOK'
  <2>1. pen[t].to \in Executions /\ pen[t].kept \in Nat
    BY <1>0, <1>11, PenCases DEF Load
  <2>2. sink[pen[t].to].retained + pen[t].kept \in Nat
    BY <1>0, <2>1, SinkFields
  <2>3. pen' \in [Threads -> Pens]
    BY <1>0, <1>11, <2>1, <2>2, PenMoves, PenValues DEF Load
  <2> QED BY <1>0, <1>11, <2>3 DEF Load, TypeOK
<1>12. ASSUME NEW t \in Threads, Store(t) PROVE TypeOK'
  <2>1. pen[t].to \in Executions /\ pen[t].sum \in Nat
    BY <1>0, <1>12, PenCases DEF Store
  <2>2. [sink[pen[t].to] EXCEPT !.retained = pen[t].sum] \in Sinks
    BY <1>0, <2>1, SinkUpdates
  <2>3. sink' \in [Executions -> Sinks]
    BY <1>0, <1>12, <2>1, <2>2 DEF Store
  <2>4. pen' \in [Threads -> Pens]
    BY <1>0, <1>12, PenMoves, PenValues DEF Store
  <2> QED BY <1>0, <1>12, <2>3, <2>4 DEF Store, TypeOK
<1>13. ASSUME NEW t \in Threads, StartDisplay(t) PROVE TypeOK'
  <2>2. execution \in Executions
    BY <1>0, <1>13 DEF StartDisplay
  <2>1. PICK full \in BOOLEAN, met \in BOOLEAN : DisplayStarted(t, full, met)
    BY <1>0, <1>13, <2>2, DisplayEffect
  <2>3. [sink[execution] EXCEPT !.displaysCut = sink[execution].displaysCut \/ full,
                                !.crossed = sink[execution].crossed \/ met] \in Sinks
    <3>1. PICK c \in BOOLEAN : c = (sink[execution].displaysCut \/ full)
      OBVIOUS
    <3>2. PICK b \in BOOLEAN : b = (sink[execution].crossed \/ met)
      OBVIOUS
    <3> QED BY <1>0, <2>2, <3>1, <3>2, SinkUpdates
  <2>4. sink' \in [Executions -> Sinks]
    BY <1>0, <2>1, <2>2, <2>3, SinkMoves DEF DisplayStarted
  <2>5. showing' \in [Threads -> Seq(Executions)]
    <3>1. Append(showing[t], execution) \in Seq(Executions)
      BY <1>0, <2>2, AppendProperties
    <3> QED BY <1>0, <2>1, <3>1, ShowingMoves DEF DisplayStarted
  <2>6. pen' \in [Threads -> Pens] /\ prints' \in Nat
    BY <1>0, <1>13, PenMoves, PenValues DEF StartDisplay, Begins
  <2> QED BY <1>0, <1>13, <2>4, <2>5, <2>6 DEF StartDisplay, TypeOK
<1>14. ASSUME NEW t \in Threads, Show(t) PROVE TypeOK'
  <2>1. PICK n \in Executions : DisplayStored(t, n)
    BY <1>0, <1>14, ShowEffect
  <2>2. [sink[n] EXCEPT !.displays = @ + 1] \in Sinks
    <3>1. sink[n] \in Sinks /\ sink[n].displays + 1 \in Nat
      BY <1>0, SinkFields
    <3> QED BY <3>1, SinkUpdates
  <2>3. sink' \in [Executions -> Sinks]
    BY <1>0, <2>1, <2>2, SinkMoves DEF DisplayStored
  <2>4. showing' \in [Threads -> Seq(Executions)]
    <3>1. SubSeq(showing[t], 1, Len(showing[t]) - 1) \in Seq(Executions)
      BY <1>0, <2>1, LastTakenOff DEF DisplayStored
    <3> QED BY <1>0, <2>1, <3>1, ShowingMoves DEF DisplayStored
  <2> QED BY <1>0, <1>14, <2>3, <2>4 DEF Show, TypeOK
<1>15. CASE UNCHANGED vars
  BY <1>15 DEF vars, TypeOK
<1> QED
  BY <1>0, <1>1, <1>2, <1>3, <1>4, <1>6, <1>7, <1>8, <1>9, <1>10, <1>11, <1>12,
     <1>13, <1>14, <1>15, <1>16 DEF Next

\* Every redirection is undone in order, whatever the threads print.
LEMMA NestedStep ==
    ASSUME TypeOK, Nested, [Next]_vars
    PROVE  Nested'
<1>0. stdout \in Destinations /\ saved \in Seq(Destinations) /\ execution \in 0 .. MaxExecutions
  BY DEF TypeOK
<1>1. CASE BeginOperation
  <2>1. phase = "idle" /\ stdout = Protocol /\ Len(saved) = 0
    BY <1>1 DEF BeginOperation, Nested
  <2>2. Len(saved') = 1 /\ saved'[1] = Protocol
    BY <1>0, <1>1, <2>1 DEF BeginOperation, Redirect
  <2> QED BY <1>1, <2>2 DEF BeginOperation, Redirect, Nested
<1>2. CASE BeginCell
  <2>1. phase = "body" /\ stdout = Discard /\ Len(saved) = 1 /\ saved[1] = Protocol
    BY <1>2 DEF BeginCell, Nested
  <2>2. Len(saved') = 2 /\ saved'[1] = Protocol /\ saved'[2] = Discard
    <3>1. saved' = Append(saved, Discard)
      BY <1>2, <2>1 DEF BeginCell, Redirect
    <3>2. Discard \in Destinations
      BY OutputAssumption DEF Discard, Destinations
    <3>3. /\ Len(Append(saved, Discard)) = Len(saved) + 1
          /\ \A i \in 1 .. Len(saved) : Append(saved, Discard)[i] = saved[i]
          /\ Append(saved, Discard)[Len(saved) + 1] = Discard
      BY <1>0, <3>2, AppendProperties
    <3> QED BY <2>1, <3>1, <3>3
  <2>3. execution' = execution + 1 /\ execution' # 0
    BY <1>0, <1>2 DEF BeginCell
  <2> QED BY <1>2, <2>2, <2>3 DEF BeginCell, Redirect, Nested
<1>3. CASE EndCell
  <2>1. Len(saved) = 2 /\ saved[1] = Protocol /\ saved[2] = Discard /\ execution # 0
    BY <1>3 DEF EndCell, Nested
  <2>2. Len(saved') = 1 /\ saved'[1] = Protocol /\ stdout' = Discard
    <3>1. /\ Len(SubSeq(saved, 1, Len(saved) - 1)) = 1
          /\ SubSeq(saved, 1, Len(saved) - 1)[1] = saved[1]
      BY <1>0, <2>1, LastTakenOff
    <3> QED BY <1>3, <2>1, <3>1 DEF EndCell, PutBack
  <2> QED BY <1>3, <2>1, <2>2 DEF EndCell, Nested
<1>4. CASE EndOperation
  <2>1. Len(saved) = 1 /\ saved[1] = Protocol
    BY <1>4 DEF EndOperation, Nested
  <2>2. Len(saved') = 0 /\ stdout' = Protocol
    <3>1. Len(SubSeq(saved, 1, Len(saved) - 1)) = 0
      BY <1>0, <2>1, LastTakenOff
    <3> QED BY <1>4, <2>1, <3>1 DEF EndOperation, PutBack
  <2> QED BY <1>4, <2>2 DEF EndOperation, Nested
<1>5. CASE ReadText \/ ReadFlag \/ ReadOmitted
  BY <1>5 DEF ReadText, ReadFlag, ReadOmitted, Read, Nested
<1>6. CASE \E t \in Threads :
              \/ StartPrint(t) \/ WriteElsewhere(t) \/ Write(t) \/ Load(t) \/ Store(t)
              \/ StartDisplay(t) \/ Show(t)
  BY <1>6 DEF StartPrint, WriteElsewhere, Write, Load, Store, StartDisplay, Show, Nested
<1>7. CASE UNCHANGED vars
  BY <1>7 DEF vars, Nested
<1> QED BY <1>1, <1>2, <1>3, <1>4, <1>5, <1>6, <1>7 DEF Next

LEMMA MainDirectStep ==
    ASSUME TypeOK, Nested, MainDirect, [Next]_vars
    PROVE  MainDirect'
<1>0. pen \in [Threads -> Pens] /\ Main \in Threads /\ Resting.at = "rest"
  BY OutputAssumption DEF TypeOK, Resting
<1>1. CASE BeginOperation
  BY <1>0, <1>1 DEF BeginOperation, MainDirect
<1>2. CASE BeginCell \/ EndCell \/ EndOperation
  BY <1>0, <1>2 DEF BeginCell, EndCell, EndOperation, MainDirect
<1>3. CASE ReadText \/ ReadFlag \/ ReadOmitted
  BY <1>0, <1>3 DEF ReadText, ReadFlag, ReadOmitted, Read, MainDirect
<1>4. ASSUME NEW t \in Threads, StartPrint(t) \/ StartDisplay(t)
      PROVE  MainDirect'
  <2>1. CASE t = Main
    <3>1. phase \in {"body", "cell", "refresh"} /\ UNCHANGED <<phase, stdout>>
      BY <1>4, <2>1 DEF StartPrint, StartDisplay, Begins, Runs
    <3>2. pen'[Main].at = "append" => pen'[Main].to = stdout
      BY <1>0, <1>4, <2>1 DEF StartPrint, StartDisplay, Begins
    <3> QED BY <3>1, <3>2 DEF MainDirect
  <2>2. CASE t # Main
    <3>1. pen'[Main] = pen[Main] /\ UNCHANGED <<phase, stdout>>
      BY <1>0, <1>4, <2>2 DEF StartPrint, StartDisplay, Begins
    <3> QED BY <3>1 DEF MainDirect
  <2> QED BY <2>1, <2>2
<1>5. ASSUME NEW t \in Threads,
             WriteElsewhere(t) \/ Write(t) \/ Load(t) \/ Store(t)
      PROVE  MainDirect'
  <2>1. UNCHANGED <<phase, stdout>>
    BY <1>5 DEF WriteElsewhere, Write, Load, Store
  <2>2. pen[t] # Resting
    BY <1>0, <1>5 DEF WriteElsewhere, Write, Load, Store
  <2>3. t # Main => pen'[Main] = pen[Main]
    BY <1>0, <1>5 DEF WriteElsewhere, Write, Load, Store
  <2>4. pen'[t].at # "append"
    BY <1>0, <1>5 DEF WriteElsewhere, Write, Load, Store
  <2> QED BY <2>1, <2>2, <2>3, <2>4 DEF MainDirect
<1>6. CASE UNCHANGED vars
  BY <1>6 DEF vars, MainDirect
<1>7. ASSUME NEW t \in Threads, Show(t) PROVE MainDirect'
  BY <1>7 DEF Show, MainDirect
<1> QED BY <1>1, <1>2, <1>3, <1>4, <1>5, <1>6, <1>7 DEF Next

LEMMA StreamsInitially == Init => Streams
<1> SUFFICES ASSUME Init PROVE Streams
  OBVIOUS
<1> USE OutputAssumption DEF Init
<1>1. NewSink \in Sinks /\ NoResponse \in Responses
  BY DEF NewSink, NoResponse, Sinks, Responses
<1>2. TypeOK
  BY <1>1, PenValues DEF TypeOK, Phases, Destinations, Protocol, Executions
<1>3. Nested
  BY DEF Nested
<1>4. MainDirect
  BY DEF MainDirect, Resting
<1> QED BY <1>2, <1>3, <1>4 DEF Streams

\* At all times the redirections in force are those of the phase, and the owner
\* thread prints to the stream in force.
THEOREM StreamsNested == Spec => []Streams
<1>1. Streams /\ [Next]_vars => Streams'
  BY TypeStep, NestedStep, MainDirectStep DEF Streams
<1> QED BY <1>1, StreamsInitially, PTL DEF Spec

\* While an operation runs, no print of any thread goes to the stream of the
\* protocol.
THEOREM ProtocolAlwaysKept == Spec => ProtocolKept
<1>1. ASSUME Streams, [Next]_vars, NEW t \in Threads,
             pen[t] = Resting, pen'[t].at = "append", phase # "idle"
      PROVE  pen'[t].to # Protocol
  <2> USE OutputAssumption
  <2>1. pen \in [Threads -> Pens] /\ execution \in 0 .. MaxExecutions /\ phase \in Phases
    BY <1>1 DEF Streams, TypeOK
  <2>2. stdout # Protocol
    BY <1>1, <2>1 DEF Streams, Nested, Protocol, Discard, Phases
  <2>3. StartPrint(t)
    <3>1. pen' # pen
      BY <1>1 DEF Resting
    <3>2. ASSUME NEW u \in Threads, StartPrint(u) PROVE u = t
      BY <1>1, <2>1, <3>2 DEF StartPrint, Begins, Resting
    <3>3. ASSUME NEW u \in Threads, WriteElsewhere(u) \/ Write(u) \/ Load(u) \/ Store(u)
                                    \/ StartDisplay(u) \/ Show(u)
          PROVE  FALSE
      <4>1. pen'[u].at # "append" /\ (t # u => pen'[t] = pen[t])
        <5>1. CASE WriteElsewhere(u) \/ Load(u) \/ Store(u) \/ Show(u)
          BY <2>1, <5>1 DEF WriteElsewhere, Load, Store, Show, Resting
        <5>2. CASE Write(u)
          BY <2>1, <5>2 DEF Write, Resting
        <5>3. CASE StartDisplay(u)
          BY <2>1, <5>3 DEF StartDisplay, Begins, Resting
        <5> QED BY <3>3, <5>1, <5>2, <5>3
      <4> QED BY <1>1, <4>1 DEF Resting
    <3> QED
      BY <1>1, <3>1, <3>2, <3>3 DEF Next, vars, BeginOperation, BeginCell, EndCell,
         ReadText, ReadFlag, ReadOmitted, Read, EndOperation
  <2>4. pen'[t].to = stdout
    BY <2>1, <2>3 DEF StartPrint, Begins
  <2> QED BY <2>2, <2>4
<1>2. Streams /\ [Next]_vars =>
         [\A t \in Threads : pen[t] = Resting /\ pen'[t].at = "append" /\ phase # "idle"
                                 => pen'[t].to # Protocol]_vars
  BY <1>1
<1> QED BY <1>2, StreamsNested, PTL DEF Spec, ProtocolKept

-----------------------------------------------------------------------------
(***************************************************************************)
(* What a step does to one sink.                                           *)
(***************************************************************************)
Counting(t, n) == pen[t].at = "count" /\ pen[t].to = n
Storing(t, n) == pen[t].at = "store" /\ pen[t].to = n

\* How much of the response of the execution n there is.
TextTaken(n) == n \in Answered \/ (n = execution /\ phase \in {"flag", "omitted"})
FlagTaken(n) == n \in Answered \/ (n = execution /\ phase = "omitted")

\* The response is taken in the order of the three reads, from the sink of the
\* execution, and no part of it is taken twice.
LEMMA ResponseStep ==
    ASSUME Streams, [Next]_vars, NEW n \in Executions
    PROVE  /\ n \in Answered => FlagTaken(n)
           /\ FlagTaken(n) => TextTaken(n)
           /\ TextTaken(n)' /\ ~TextTaken(n) =>
                  /\ ReadText /\ n = execution
                  /\ response'[n].text = sink[n].held /\ response'[n].written = sink[n].total
           /\ FlagTaken(n)' /\ ~FlagTaken(n) =>
                  /\ ReadFlag /\ n = execution
                  /\ response'[n].truncated = (Omitted(n) > 0)
           /\ n \in Answered' /\ n \notin Answered =>
                  /\ ReadOmitted /\ n = execution
                  /\ response'[n].omitted = Omitted(n)
           /\ TextTaken(n) => /\ TextTaken(n)'
                              /\ response'[n].text = response[n].text
                              /\ response'[n].written = response[n].written
           /\ FlagTaken(n) => FlagTaken(n)' /\ response'[n].truncated = response[n].truncated
           /\ n \in Answered => n \in Answered' /\ response'[n].omitted = response[n].omitted
<1> USE OutputAssumption DEF Executions, TextTaken, FlagTaken, Answered
<1>0. /\ execution \in 0 .. MaxExecutions /\ phase \in Phases
      /\ response \in [Executions -> Responses]
      /\ \A m \in Executions : response[m] \in Responses
      /\ phase \in {"cell", "text", "flag", "omitted"} => execution \in Executions
  BY DEF Streams, TypeOK, Nested
<1>1. CASE BeginOperation \/ EndCell \/ EndOperation
  BY <1>0, <1>1 DEF BeginOperation, EndCell, EndOperation
<1>2. CASE BeginCell
  BY <1>0, <1>2 DEF BeginCell
<1>3. CASE ReadText
  <2>1. /\ response'[execution].text = sink[execution].held
        /\ response'[execution].written = sink[execution].total
        /\ \A m \in Executions : m # execution => response'[m] = response[m]
    BY <1>0, <1>3 DEF ReadText, Responses
  <2> QED BY <1>0, <1>3, <2>1 DEF ReadText
<1>4. CASE ReadFlag
  <2>1. /\ response'[execution].truncated = (Omitted(execution) > 0)
        /\ response'[execution].text = response[execution].text
        /\ response'[execution].written = response[execution].written
        /\ \A m \in Executions : m # execution => response'[m] = response[m]
    BY <1>0, <1>4 DEF ReadFlag, Read, Responses
  <2> QED BY <1>0, <1>4, <2>1 DEF ReadFlag, Read
<1>5. CASE ReadOmitted
  <2>1. /\ response'[execution].omitted = Omitted(execution)
        /\ response'[execution].text = response[execution].text
        /\ response'[execution].written = response[execution].written
        /\ response'[execution].truncated = response[execution].truncated
        /\ \A m \in Executions : m # execution => response'[m] = response[m]
    BY <1>0, <1>5 DEF ReadOmitted, Read, Responses
  <2> QED BY <1>0, <1>5, <2>1 DEF ReadOmitted, Read
<1>6. CASE \E t \in Threads :
              \/ StartPrint(t) \/ WriteElsewhere(t) \/ Write(t) \/ Load(t) \/ Store(t)
              \/ StartDisplay(t) \/ Show(t)
  <2>1. UNCHANGED <<phase, execution, response>>
    BY <1>6 DEF StartPrint, WriteElsewhere, Write, Load, Store, StartDisplay, Show
  <2> QED BY <1>0, <2>1
<1>7. CASE UNCHANGED vars
  BY <1>0, <1>7 DEF vars
<1> QED BY <1>1, <1>2, <1>3, <1>4, <1>5, <1>6, <1>7 DEF Next

\* A write counts all of the text, and keeps what there is room for.
Wrote(t, n, kept) ==
    /\ n \in Executions /\ sink[n] \in Sinks
    /\ kept = Kept(pen[t].length, Room(sink[n]))
    /\ pen[t].length \in Nat \ {0} /\ kept \in 0 .. pen[t].length
    /\ sink'[n].held = sink[n].held + kept
    /\ sink'[n].retained = sink[n].retained
    /\ sink'[n].total = sink[n].total + pen[t].length
    /\ sink'[n].own = sink[n].own + (IF t = Main THEN pen[t].length ELSE 0)
    /\ sink'[n].cut <=> sink[n].cut \/ kept < pen[t].length
    /\ sink'[n].gap <=> sink[n].gap \/ (sink[n].cut /\ kept > 0)
    /\ sink'[n].displays = sink[n].displays /\ sink'[n].crossed = sink[n].crossed
    /\ sink'[n].overlapped <=> sink[n].overlapped \/ MeetsAnother(t, n)
                               \/ (n = execution /\ phase \in {"flag", "omitted"})
    /\ \A m \in Executions \ {n} : sink'[m] = sink[m]
    /\ pen'[t] = IF kept = 0 THEN Resting ELSE [at |-> "count", to |-> n, kept |-> kept]
    /\ \A u \in Threads \ {t} : pen'[u] = pen[u]

LEMMA WriteEffect ==
    ASSUME Streams, NEW t \in Threads, Write(t), NEW n, pen[t].to = n
    PROVE  \E kept : Wrote(t, n, kept)
<1>10. PICK kept : kept = Kept(pen[t].length, Room(sink[n]))
  OBVIOUS
<1>0. sink \in [Executions -> Sinks] /\ pen \in [Threads -> Pens]
  BY DEF Streams, TypeOK
<1>1. n \in Executions /\ pen[t].length \in Nat \ {0} /\ sink[n] \in Sinks
  BY <1>0, PenCases, OutputAssumption DEF Write
<1>2. kept \in 0 .. pen[t].length
  BY <1>1, <1>10, WrittenSink
<1> DEFINE lap == sink[n].overlapped \/ MeetsAnother(t, n)
                  \/ (n = execution /\ phase \in {"flag", "omitted"})
           w == Written(sink[n], t, pen[t].length, kept)
<1>3. /\ sink' = [sink EXCEPT ![n] = [w EXCEPT !.overlapped = lap]]
      /\ pen' = [pen EXCEPT ![t] = IF kept = 0 THEN Resting
                                   ELSE [at |-> "count", to |-> n, kept |-> kept]]
  BY <1>10, Zenon DEF Write
<1>4. sink'[n] = [w EXCEPT !.overlapped = lap]
  <2> HIDE DEF w, lap
  <2> QED BY <1>0, <1>1, <1>3
<1>5. /\ w.held = sink[n].held + kept /\ w.retained = sink[n].retained
      /\ w.total = sink[n].total + pen[t].length
      /\ w.own = sink[n].own + (IF t = Main THEN pen[t].length ELSE 0)
      /\ w.displays = sink[n].displays /\ w.crossed = sink[n].crossed
      /\ w.cut = (sink[n].cut \/ kept < pen[t].length)
      /\ w.gap = (sink[n].gap \/ (sink[n].cut /\ kept > 0))
      /\ DOMAIN w = DOMAIN sink[n]
  BY <1>1 DEF Written, Sinks
<1>6. /\ "held" \in DOMAIN w /\ "retained" \in DOMAIN w /\ "total" \in DOMAIN w
      /\ "own" \in DOMAIN w /\ "displays" \in DOMAIN w /\ "crossed" \in DOMAIN w /\ "cut" \in DOMAIN w
      /\ "gap" \in DOMAIN w /\ "overlapped" \in DOMAIN w
  BY <1>1, <1>5 DEF Sinks
<1>7. /\ sink'[n].held = w.held /\ sink'[n].retained = w.retained /\ sink'[n].total = w.total
      /\ sink'[n].own = w.own /\ sink'[n].displays = w.displays /\ sink'[n].crossed = w.crossed
      /\ sink'[n].cut = w.cut /\ sink'[n].gap = w.gap /\ sink'[n].overlapped = lap
  <2> HIDE DEF w, lap
  <2> QED BY <1>4, <1>6
<1>8. /\ \A m \in Executions \ {n} : sink'[m] = sink[m]
      /\ \A u \in Threads \ {t} : pen'[u] = pen[u]
      /\ pen'[t] = IF kept = 0 THEN Resting ELSE [at |-> "count", to |-> n, kept |-> kept]
  <2> HIDE DEF w, lap
  <2> QED BY <1>0, <1>1, <1>3
<1> HIDE DEF w
<1> QED BY <1>1, <1>2, <1>5, <1>7, <1>8, <1>10 DEF Wrote

\* Nothing that concerns the text of the sink n happens.
Undisturbed(n) ==
    /\ sink'[n].held = sink[n].held /\ sink'[n].retained = sink[n].retained
    /\ sink'[n].total = sink[n].total /\ sink'[n].own = sink[n].own
    /\ sink'[n].cut = sink[n].cut /\ sink'[n].gap = sink[n].gap
    /\ \A t \in Threads : (Inside(t, n)' <=> Inside(t, n))
                          /\ (Inside(t, n) => pen'[t] = pen[t])

LEMMA LoadEffect ==
    ASSUME Streams, NEW t \in Threads, Load(t), NEW n, pen[t].to = n
    PROVE  /\ n \in Executions /\ pen[t].kept \in Nat /\ sink' = sink
           /\ pen'[t] = [at |-> "store", to |-> n, sum |-> sink[n].retained + pen[t].kept]
           /\ \A u \in Threads \ {t} : pen'[u] = pen[u]
<1>0. sink \in [Executions -> Sinks] /\ pen \in [Threads -> Pens]
  BY DEF Streams, TypeOK
<1>1. n \in Executions /\ pen[t].kept \in Nat
  BY <1>0, PenCases DEF Load
<1> QED BY <1>0, <1>1 DEF Load

LEMMA StoreEffect ==
    ASSUME Streams, NEW t \in Threads, Store(t), NEW n, pen[t].to = n
    PROVE  /\ n \in Executions /\ pen[t].sum \in Nat
           /\ sink'[n] = [sink[n] EXCEPT !.retained = pen[t].sum]
           /\ \A m \in Executions \ {n} : sink'[m] = sink[m]
           /\ pen'[t] = Resting
           /\ \A u \in Threads \ {t} : pen'[u] = pen[u]
<1>0. sink \in [Executions -> Sinks] /\ pen \in [Threads -> Pens]
  BY DEF Streams, TypeOK
<1>1. n \in Executions /\ pen[t].sum \in Nat
  BY <1>0, PenCases DEF Store
<1> QED BY <1>0, <1>1 DEF Store

\* A thread that writes touches one sink and no other thread.
LEMMA WritersAlone ==
    ASSUME Streams, NEW t \in Threads, Write(t) \/ Load(t) \/ Store(t)
    PROVE  /\ \A u \in Threads \ {t} : pen'[u] = pen[u]
           /\ \A m \in Executions : m # pen[t].to => sink'[m] = sink[m]
           /\ pen'[t].at \in {"count", "store"} => pen'[t].to = pen[t].to
<1>1. PICK n : pen[t].to = n
  OBVIOUS
<1>3. CASE Write(t)
  <2>0. PICK kept : Wrote(t, n, kept)
    BY <1>1, <1>3, WriteEffect
  <2>1. /\ \A m \in Executions \ {n} : sink'[m] = sink[m]
        /\ pen'[t] = IF kept = 0 THEN Resting ELSE [at |-> "count", to |-> n, kept |-> kept]
        /\ \A u \in Threads \ {t} : pen'[u] = pen[u]
    BY <2>0 DEF Wrote
  <2> QED BY <1>1, <2>1 DEF Resting
<1>4. CASE Load(t)
  <2>1. /\ sink' = sink /\ \A u \in Threads \ {t} : pen'[u] = pen[u]
        /\ pen'[t] = [at |-> "store", to |-> n, sum |-> sink[n].retained + pen[t].kept]
    BY <1>1, <1>4, LoadEffect
  <2> QED BY <1>1, <2>1
<1>5. CASE Store(t)
  <2>1. /\ \A m \in Executions \ {n} : sink'[m] = sink[m]
        /\ pen'[t] = Resting /\ \A u \in Threads \ {t} : pen'[u] = pen[u]
    BY <1>1, <1>5, StoreEffect
  <2> QED BY <1>1, <2>1 DEF Resting
<1> QED BY <1>3, <1>4, <1>5

\* A display touches no field of a sink that a write does.
LEMMA DisplayFields ==
    ASSUME Streams, NEW t \in Threads, StartDisplay(t) \/ Show(t), NEW n \in Executions
    PROVE  /\ sink'[n].held = sink[n].held /\ sink'[n].retained = sink[n].retained
           /\ sink'[n].total = sink[n].total /\ sink'[n].own = sink[n].own
           /\ sink'[n].cut = sink[n].cut /\ sink'[n].gap = sink[n].gap
           /\ sink'[n].overlapped = sink[n].overlapped
<1>0. /\ sink \in [Executions -> Sinks] /\ showing \in [Threads -> Seq(Executions)]
      /\ sink[n] \in Sinks
      /\ phase = "cell" => execution \in Executions
  BY OutputAssumption DEF Streams, TypeOK, Nested, Executions
<1>1. CASE StartDisplay(t)
  <2>1. execution \in Executions
    BY <1>0, <1>1 DEF StartDisplay
  <2>2. PICK b, c : sink' = [sink EXCEPT ![execution] =
                        [sink[execution] EXCEPT !.displaysCut = b, !.crossed = c]]
    BY <1>0, <1>1, <2>1, DisplayEffect DEF DisplayStarted
  <2> QED BY <1>0, <2>1, <2>2 DEF Sinks
<1>2. CASE Show(t)
  <2>1. PICK m \in Executions : DisplayStored(t, m)
    BY <1>0, <1>2, ShowEffect
  <2>2. CASE sink' = [sink EXCEPT ![m] = [sink[m] EXCEPT !.displays = @ + 1]]
    BY <1>0, <2>2 DEF Sinks
  <2> QED BY <2>1, <2>2 DEF DisplayStored
<1> QED BY <1>1, <1>2

\* The text of a sink changes only by the three steps of a write to it.
LEMMA SinkStep ==
    ASSUME Streams, [Next]_vars, NEW n \in Executions
    PROVE  \/ \E t \in Threads : pen[t].to = n /\ (Write(t) \/ Load(t) \/ Store(t))
           \/ Undisturbed(n)
<1>0. /\ sink \in [Executions -> Sinks] /\ pen \in [Threads -> Pens] /\ sink[n] \in Sinks
      /\ phase \in {"cell", "text", "flag", "omitted"} => execution \in Executions
  BY OutputAssumption DEF Streams, TypeOK, Nested, Executions
<1>1. CASE BeginOperation \/ BeginCell \/ EndCell \/ EndOperation \/ UNCHANGED vars
  BY <1>1 DEF BeginOperation, BeginCell, EndCell, EndOperation, vars, Undisturbed, Inside
<1>2. CASE ReadText \/ ReadFlag \/ ReadOmitted
  <2>1. pen' = pen /\ \E b \in BOOLEAN : sink' = [sink EXCEPT ![execution].overlapped = b]
    <3>1. (sink[execution].overlapped \/ Busy(execution)) \in BOOLEAN
      OBVIOUS
    <3> QED BY <1>2, <3>1 DEF ReadText, ReadFlag, ReadOmitted, Read
  <2> QED BY <1>0, <2>1 DEF Undisturbed, Inside, Sinks
<1>3. ASSUME NEW t \in Threads, StartPrint(t) \/ WriteElsewhere(t)
      PROVE  Undisturbed(n)
  <2>1. /\ sink' = sink /\ \A u \in Threads \ {t} : pen'[u] = pen[u]
        /\ pen[t].at \in {"rest", "append"} /\ pen'[t].at \in {"rest", "append"}
    BY <1>0, <1>3 DEF StartPrint, WriteElsewhere, Begins, Resting
  <2> QED BY <2>1 DEF Undisturbed, Inside
<1>4. ASSUME NEW t \in Threads, Write(t) \/ Load(t) \/ Store(t), pen[t].to # n
      PROVE  Undisturbed(n)
  <2>1. sink'[n] = sink[n] /\ \A u \in Threads \ {t} : pen'[u] = pen[u]
    BY <1>4, WritersAlone
  <2>2. ~Inside(t, n)' /\ ~Inside(t, n)
    BY <1>4, WritersAlone DEF Inside
  <2> QED BY <2>1, <2>2 DEF Undisturbed, Inside
<1>5. ASSUME NEW t \in Threads, StartDisplay(t) \/ Show(t)
      PROVE  Undisturbed(n)
  <2>1. \A u \in Threads : (~Inside(u, n) /\ ~Inside(u, n)') \/ pen'[u] = pen[u]
    BY <1>0, <1>5 DEF StartDisplay, Begins, Show, Inside, Resting
  <2>2. /\ sink'[n].held = sink[n].held /\ sink'[n].retained = sink[n].retained
        /\ sink'[n].total = sink[n].total /\ sink'[n].own = sink[n].own
        /\ sink'[n].cut = sink[n].cut /\ sink'[n].gap = sink[n].gap
    BY <1>0, <1>5, DisplayFields
  <2> QED BY <2>1, <2>2 DEF Undisturbed, Inside
<1> QED BY <1>1, <1>2, <1>3, <1>4, <1>5 DEF Next

-----------------------------------------------------------------------------
(***************************************************************************)
(* No character is unaccounted for.                                        *)
(*                                                                         *)
(* Threads that load retained_characters before others store it make it    *)
(* too small.  It is never too large: each character held is claimed by    *)
(* the thread that has still to count it, or is settled, and what is       *)
(* stored counts settled characters only.                                  *)
(***************************************************************************)
IsAccount(n, mine, settled) ==
    /\ settled \subseteq 1 .. sink[n].held
    /\ sink[n].retained <= Cardinality(settled)
    /\ \A t \in Threads :
         /\ Counting(t, n) => /\ mine[t] \subseteq 1 .. sink[n].held
                              /\ mine[t] \cap settled = {}
                              /\ Cardinality(mine[t]) = pen[t].kept
         /\ Storing(t, n) => pen[t].sum <= Cardinality(settled)
    /\ \A t, u \in Threads :
         Counting(t, n) /\ Counting(u, n) /\ t # u => mine[t] \cap mine[u] = {}

Accounted(n) ==
    \E settled \in SUBSET Nat, mine \in [Threads -> SUBSET Nat] : IsAccount(n, mine, settled)

LEMMA NextOnes ==
    ASSUME NEW h \in Nat, NEW k \in Nat
    PROVE  Cardinality(h + 1 .. h + k) = k
<1>1. \A a, b \in Int : Cardinality(a .. b) = IF a > b THEN 0 ELSE b - a + 1
  BY FS_Interval
<1>2. h + 1 \in Int /\ h + k \in Int
  OBVIOUS
<1>3. Cardinality(h + 1 .. h + k) = IF h + 1 > h + k THEN 0 ELSE h + k - (h + 1) + 1
  BY <1>1, <1>2
<1> QED BY <1>3

LEMMA AccountedStep ==
    ASSUME Streams, [Next]_vars, NEW n \in Executions, Accounted(n)
    PROVE  Accounted(n)'
<1>0. /\ sink \in [Executions -> Sinks] /\ pen \in [Threads -> Pens]
      /\ sink[n].held \in Nat /\ sink[n].retained \in Nat
  BY SinkFields DEF Streams, TypeOK
<1>1. PICK settled \in SUBSET Nat, mine \in [Threads -> SUBSET Nat] : IsAccount(n, mine, settled)
  BY DEF Accounted
<1>2. CASE Undisturbed(n)
  <2>1. IsAccount(n, mine, settled)'
    BY <1>1, <1>2 DEF IsAccount, Undisturbed, Inside, Counting, Storing
  <2> QED BY <2>1 DEF Accounted
<1>3. IsFiniteSet(settled) /\ Cardinality(settled) \in Nat
  <2>1. IsFiniteSet(1 .. sink[n].held)
    BY <1>0, FS_Interval
  <2>2. IsFiniteSet(settled)
    BY <1>1, <2>1, FS_Subset DEF IsAccount
  <2> QED BY <2>2, FS_CardinalityType
<1>4. ASSUME NEW t \in Threads, Write(t), pen[t].to = n
      PROVE  Accounted(n)'
  <2>10. PICK kept : Wrote(t, n, kept)
    BY <1>4, WriteEffect
  <2>11. PICK new : new = sink[n].held + 1 .. sink[n].held + kept
    OBVIOUS
  <2> DEFINE mine2 == [mine EXCEPT ![t] = new]
  <2>0. kept \in Nat
    <3>1. kept \in 0 .. pen[t].length /\ pen[t].length \in Nat
      BY <2>10 DEF Wrote
    <3> QED BY <3>1
  <2>1. /\ sink'[n].held = sink[n].held + kept /\ sink'[n].retained = sink[n].retained
        /\ pen'[t] = IF kept = 0 THEN Resting ELSE [at |-> "count", to |-> n, kept |-> kept]
        /\ \A u \in Threads \ {t} : pen'[u] = pen[u]
    BY <2>10 DEF Wrote
  <2>2. new \subseteq 1 .. sink'[n].held /\ Cardinality(new) = kept
        /\ new \cap 1 .. sink[n].held = {} /\ new \in SUBSET Nat
    <3>2. Cardinality(new) = kept
      BY <1>0, <2>0, <2>11, NextOnes
    <3> QED BY <1>0, <2>0, <2>1, <2>11, <3>2
  <2>3. 1 .. sink[n].held \subseteq 1 .. sink'[n].held
    BY <1>0, <2>0, <2>1
  <2>4. mine2 \in [Threads -> SUBSET Nat]
        /\ mine2[t] = new /\ \A u \in Threads \ {t} : mine2[u] = mine[u]
    BY <2>2
  <2> HIDE DEF mine2
  <2>5. ~Storing(t, n)' /\ (Counting(t, n)' => pen'[t].kept = kept)
    BY <2>1 DEF Storing, Counting, Resting
  <2>6. \A u \in Threads \ {t} : (Counting(u, n)' <=> Counting(u, n))
                                 /\ (Storing(u, n)' <=> Storing(u, n)) /\ pen'[u] = pen[u]
    BY <2>1 DEF Counting, Storing
  <2>7. IsAccount(n, mine2, settled)'
    <3>1. \A u \in Threads :
             /\ Counting(u, n)' => /\ mine2[u] \subseteq 1 .. sink'[n].held
                                   /\ mine2[u] \cap settled = {}
                                   /\ Cardinality(mine2[u]) = pen'[u].kept
             /\ Storing(u, n)' => pen'[u].sum <= Cardinality(settled)
      BY <1>1, <2>2, <2>3, <2>4, <2>5, <2>6 DEF IsAccount
    <3>2. \A u, v \in Threads :
             Counting(u, n)' /\ Counting(v, n)' /\ u # v => mine2[u] \cap mine2[v] = {}
      BY <1>1, <2>2, <2>4, <2>6 DEF IsAccount
    <3>3. settled \subseteq 1 .. sink'[n].held /\ sink'[n].retained <= Cardinality(settled)
      BY <1>1, <2>1, <2>3 DEF IsAccount
    <3> QED BY <3>1, <3>2, <3>3 DEF IsAccount
  <2> QED BY <2>4, <2>7 DEF Accounted
<1>5. ASSUME NEW t \in Threads, Load(t), pen[t].to = n
      PROVE  Accounted(n)'
  <2> DEFINE settled2 == settled \cup mine[t]
  <2>1. /\ sink' = sink /\ \A u \in Threads \ {t} : pen'[u] = pen[u]
        /\ pen'[t] = [at |-> "store", to |-> n, sum |-> sink[n].retained + pen[t].kept]
        /\ pen[t].kept \in Nat
    BY <1>5, LoadEffect
  <2>2. /\ mine[t] \subseteq 1 .. sink[n].held /\ mine[t] \cap settled = {}
        /\ Cardinality(mine[t]) = pen[t].kept /\ Counting(t, n)
    BY <1>1, <1>5 DEF IsAccount, Load, Counting
  <2>3. IsFiniteSet(mine[t])
    <3>1. IsFiniteSet(1 .. sink[n].held)
      BY <1>0, FS_Interval
    <3> QED BY <2>2, <3>1, FS_Subset
  <2>4. Cardinality(settled2) = Cardinality(settled) + pen[t].kept
    <3>1. Cardinality(settled \cap mine[t]) = 0
      BY <2>2, FS_EmptySet
    <3>2. Cardinality(settled2) = Cardinality(settled) + Cardinality(mine[t])
                                    - Cardinality(settled \cap mine[t])
      BY <1>3, <2>3, FS_Union
    <3> QED BY <1>3, <2>1, <2>2, <3>1, <3>2
  <2>5. settled2 \in SUBSET Nat /\ settled2 \subseteq 1 .. sink[n].held
    BY <1>1, <2>2 DEF IsAccount
  <2> HIDE DEF settled2
  <2>6. ~Counting(t, n)' /\ pen'[t].sum = sink[n].retained + pen[t].kept
    BY <2>1 DEF Counting
  <2>7. \A u \in Threads \ {t} : (Counting(u, n)' <=> Counting(u, n))
                                 /\ (Storing(u, n)' <=> Storing(u, n)) /\ pen'[u] = pen[u]
    BY <2>1 DEF Counting, Storing
  <2>8. IsAccount(n, mine, settled2)'
    <3>1. sink[n].retained + pen[t].kept <= Cardinality(settled2)
          /\ sink[n].retained <= Cardinality(settled2)
      BY <1>0, <1>1, <1>3, <2>1, <2>4 DEF IsAccount
    <3>2. ASSUME NEW u \in Threads, Counting(u, n)'
          PROVE  /\ mine[u] \subseteq 1 .. sink[n].held /\ mine[u] \cap settled2 = {}
                 /\ Cardinality(mine[u]) = pen'[u].kept
      <4>1. u # t /\ Counting(u, n)
        BY <2>6, <2>7, <3>2
      <4>2. mine[u] \cap settled = {} /\ mine[u] \cap mine[t] = {}
        BY <1>1, <2>2, <4>1 DEF IsAccount
      <4> QED BY <1>1, <2>7, <4>1, <4>2 DEF IsAccount, settled2
    <3>3. ASSUME NEW u \in Threads, Storing(u, n)'
          PROVE  pen'[u].sum <= Cardinality(settled2)
      <4>1. CASE u = t
        BY <2>6, <3>1, <4>1
      <4>2. CASE u # t
        <5>1. pen[u].sum <= Cardinality(settled) /\ pen[u].sum \in Nat /\ pen'[u] = pen[u]
          BY <1>0, <1>1, <2>7, <3>3, <4>2, PenCases DEF IsAccount, Storing
        <5> QED BY <1>3, <2>1, <2>4, <5>1
      <4> QED BY <4>1, <4>2
    <3>4. \A u, v \in Threads :
             Counting(u, n)' /\ Counting(v, n)' /\ u # v => mine[u] \cap mine[v] = {}
      BY <1>1, <2>6, <2>7 DEF IsAccount
    <3> QED BY <2>1, <2>5, <3>1, <3>2, <3>3, <3>4 DEF IsAccount
  <2> QED BY <2>5, <2>8 DEF Accounted
<1>6. ASSUME NEW t \in Threads, Store(t), pen[t].to = n
      PROVE  Accounted(n)'
  <2>1. /\ sink'[n] = [sink[n] EXCEPT !.retained = pen[t].sum] /\ pen'[t] = Resting
        /\ \A u \in Threads \ {t} : pen'[u] = pen[u]
    BY <1>6, StoreEffect
  <2>2. sink'[n].held = sink[n].held /\ sink'[n].retained = pen[t].sum
    BY <1>0, <2>1 DEF Sinks
  <2>3. pen[t].sum <= Cardinality(settled)
    BY <1>1, <1>6 DEF IsAccount, Store, Storing
  <2>4. ~Counting(t, n)' /\ ~Storing(t, n)'
    BY <2>1 DEF Counting, Storing, Resting
  <2>5. \A u \in Threads \ {t} : (Counting(u, n)' <=> Counting(u, n))
                                 /\ (Storing(u, n)' <=> Storing(u, n)) /\ pen'[u] = pen[u]
    BY <2>1 DEF Counting, Storing
  <2>6. IsAccount(n, mine, settled)'
    BY <1>1, <2>2, <2>3, <2>4, <2>5 DEF IsAccount
  <2> QED BY <2>6 DEF Accounted
<1> QED BY <1>2, <1>4, <1>5, <1>6, SinkStep

LEMMA RetainedHeld ==
    ASSUME Streams, NEW n \in Executions, Accounted(n)
    PROVE  sink[n].retained <= sink[n].held
<1>1. sink[n].held \in Nat /\ sink[n].retained \in Nat
  BY SinkFields DEF Streams, TypeOK
<1>2. PICK settled \in SUBSET Nat : /\ settled \subseteq 1 .. sink[n].held
                                    /\ sink[n].retained <= Cardinality(settled)
  BY DEF Accounted, IsAccount
<1>3. IsFiniteSet(1 .. sink[n].held) /\ Cardinality(1 .. sink[n].held) = sink[n].held
  <2>1. \A a, b \in Int : IsFiniteSet(a .. b)
                          /\ Cardinality(a .. b) = IF a > b THEN 0 ELSE b - a + 1
    BY FS_Interval
  <2>2. IsFiniteSet(1 .. sink[n].held)
        /\ Cardinality(1 .. sink[n].held) = IF 1 > sink[n].held THEN 0 ELSE sink[n].held - 1 + 1
    <3>1. 1 \in Int /\ sink[n].held \in Int
      BY <1>1
    <3> QED BY <2>1, <3>1, Zenon
  <2> QED BY <1>1, <2>2
<1>4. Cardinality(settled) <= sink[n].held /\ IsFiniteSet(settled)
  BY <1>2, <1>3, FS_Subset
<1>5. Cardinality(settled) \in Nat
  BY <1>4, FS_CardinalityType
<1> QED BY <1>1, <1>2, <1>4, <1>5

\* What a response says of the execution n, as far as it is taken, against what
\* its sink holds.
Counted(n) ==
    /\ sink[n].held <= sink[n].total
    /\ sink[n].own <= sink[n].total
    /\ TextTaken(n) => /\ response[n].text <= response[n].written
                       /\ sink[n].own <= response[n].written
                       /\ response[n].written + sink[n].held <= sink[n].total + response[n].text
    /\ FlagTaken(n) => (response[n].text < response[n].written => response[n].truncated)
    /\ n \in Answered => response[n].written <= response[n].text + response[n].omitted

\* What is dropped only grows; the owner prints nothing to a sink whose text was
\* taken.
LEMMA TotalsStep ==
    ASSUME Streams, [Next]_vars, NEW n \in Executions
    PROVE  /\ sink[n].held <= sink[n].total => sink'[n].held <= sink'[n].total
           /\ sink[n].own <= sink[n].total => sink'[n].own <= sink'[n].total
           /\ sink[n].total + sink'[n].held <= sink'[n].total + sink[n].held
           /\ TextTaken(n) => sink'[n].own = sink[n].own
           /\ ReadText \/ ReadFlag \/ ReadOmitted =>
                  /\ sink'[n].own = sink[n].own /\ sink'[n].total = sink[n].total
                  /\ sink'[n].held = sink[n].held
<1>0. /\ sink \in [Executions -> Sinks] /\ sink[n] \in Sinks
      /\ sink[n].held \in Nat /\ sink[n].total \in Nat /\ sink[n].own \in Nat
      /\ phase \in {"cell", "text", "flag", "omitted"} => execution \in Executions
      /\ execution \in 0 .. MaxExecutions /\ phase \in Phases
  BY OutputAssumption, SinkFields DEF Streams, TypeOK, Nested, Executions
<1>1. CASE Undisturbed(n)
  BY <1>0, <1>1 DEF Undisturbed
<1>2. ASSUME NEW t \in Threads, pen[t].to = n, Write(t) \/ Load(t) \/ Store(t)
      PROVE  ~(ReadText \/ ReadFlag \/ ReadOmitted)
  <2>1. pen'[t] # pen[t]
    <3>1. CASE Write(t)
      <4>1. PICK kept : Wrote(t, n, kept)
        BY <1>2, <3>1, WriteEffect
      <4>2. pen'[t] = IF kept = 0 THEN Resting ELSE [at |-> "count", to |-> n, kept |-> kept]
        BY <4>1 DEF Wrote
      <4> QED BY <3>1, <4>2 DEF Write, Resting
    <3>2. CASE Load(t)
      <4>1. pen'[t] = [at |-> "store", to |-> n, sum |-> sink[n].retained + pen[t].kept]
        BY <1>2, <3>2, LoadEffect
      <4> QED BY <3>2, <4>1 DEF Load
    <3>3. CASE Store(t)
      <4>1. pen'[t] = Resting
        BY <1>2, <3>3, StoreEffect
      <4> QED BY <3>3, <4>1 DEF Store, Resting
    <3> QED BY <1>2, <3>1, <3>2, <3>3
  <2> QED BY <2>1 DEF ReadText, ReadFlag, ReadOmitted, Read
<1>3. ASSUME NEW t \in Threads, pen[t].to = n, Write(t)
      PROVE  /\ sink[n].held <= sink[n].total => sink'[n].held <= sink'[n].total
             /\ sink[n].own <= sink[n].total => sink'[n].own <= sink'[n].total
             /\ sink[n].total + sink'[n].held <= sink'[n].total + sink[n].held
             /\ TextTaken(n) => sink'[n].own = sink[n].own
  <2>1. PICK kept : Wrote(t, n, kept)
    BY <1>3, WriteEffect
  <2>2. /\ pen[t].length \in Nat \ {0} /\ kept \in 0 .. pen[t].length
        /\ sink'[n].held = sink[n].held + kept
        /\ sink'[n].total = sink[n].total + pen[t].length
        /\ sink'[n].own = sink[n].own + (IF t = Main THEN pen[t].length ELSE 0)
    BY <2>1 DEF Wrote
  <2>3. t = Main => ~TextTaken(n)
    <3> SUFFICES ASSUME t = Main PROVE ~TextTaken(n)
      OBVIOUS
    <3>1. pen[Main].at = "append" /\ n = stdout
      BY <1>3 DEF Write, Streams, MainDirect
    <3>2. phase \in {"body", "cell", "refresh"}
      BY <3>1 DEF Streams, MainDirect, Resting
    <3>3. phase = "cell" /\ n = execution
      BY <1>0, <3>1, <3>2, OutputAssumption DEF Streams, Nested, Discard, Executions
    <3> QED BY <1>0, <3>3 DEF TextTaken, Answered
  <2> QED BY <1>0, <2>2, <2>3
<1>4. ASSUME NEW t \in Threads, pen[t].to = n, Load(t) \/ Store(t)
      PROVE  /\ sink'[n].held = sink[n].held /\ sink'[n].total = sink[n].total
             /\ sink'[n].own = sink[n].own
  <2>1. CASE Load(t)
    BY <1>4, <2>1, LoadEffect
  <2>2. CASE Store(t)
    <3>1. sink'[n] = [sink[n] EXCEPT !.retained = pen[t].sum]
      BY <1>4, <2>2, StoreEffect
    <3> QED BY <1>0, <3>1 DEF Sinks
  <2> QED BY <1>4, <2>1, <2>2
<1> QED
  <2>1. CASE \E t \in Threads : pen[t].to = n /\ Write(t)
    BY <1>2, <1>3, <2>1
  <2>2. CASE \E t \in Threads : pen[t].to = n /\ (Load(t) \/ Store(t))
    BY <1>0, <1>2, <1>4, <2>2
  <2> QED BY <1>1, <2>1, <2>2, SinkStep

LEMMA CountedStep ==
    ASSUME Streams, [Next]_vars, NEW n \in Executions, Accounted(n), Counted(n)
    PROVE  Counted(n)'
<1>0. /\ sink[n].held \in Nat /\ sink[n].total \in Nat /\ sink[n].own \in Nat
      /\ sink[n].retained \in Nat /\ sink[n].retained <= sink[n].held
      /\ response[n].text \in Nat /\ response[n].written \in Nat /\ response[n].omitted \in Int
  BY SinkFields, RetainedHeld DEF Streams, TypeOK, Responses
<1>1. sink'[n].held \in Nat /\ sink'[n].total \in Nat /\ sink'[n].own \in Nat
  <2>1. sink'[n] \in Sinks
    BY TypeStep DEF Streams, TypeOK
  <2> QED BY <2>1, SinkFields
<1>2. sink'[n].held <= sink'[n].total /\ sink'[n].own <= sink'[n].total
  BY TotalsStep DEF Counted
<1>3. ASSUME TextTaken(n)'
      PROVE  /\ response'[n].text <= response'[n].written
             /\ sink'[n].own <= response'[n].written
             /\ response'[n].written + sink'[n].held <= sink'[n].total + response'[n].text
  <2>1. CASE TextTaken(n)
    <3>1. /\ response'[n].text = response[n].text /\ response'[n].written = response[n].written
          /\ sink'[n].own = sink[n].own
          /\ sink[n].total + sink'[n].held <= sink'[n].total + sink[n].held
      BY <2>1, ResponseStep, TotalsStep
    <3>2. /\ response[n].text <= response[n].written /\ sink[n].own <= response[n].written
          /\ response[n].written + sink[n].held <= sink[n].total + response[n].text
      BY <2>1 DEF Counted
    <3> QED BY <1>0, <1>1, <3>1, <3>2
  <2>2. CASE ~TextTaken(n)
    <3>1. /\ response'[n].text = sink[n].held /\ response'[n].written = sink[n].total
          /\ sink'[n].own = sink[n].own /\ sink'[n].total = sink[n].total
          /\ sink'[n].held = sink[n].held
      BY <1>3, <2>2, ResponseStep, TotalsStep
    <3> QED BY <1>0, <3>1 DEF Counted
  <2> QED BY <2>1, <2>2
<1>4. ASSUME TextTaken(n) PROVE response[n].written - response[n].text <= Omitted(n)
  BY <1>0, <1>4 DEF Counted, Omitted
<1>5. ASSUME FlagTaken(n)', response'[n].text < response'[n].written
      PROVE  response'[n].truncated
  <2>1. CASE FlagTaken(n)
    BY <1>5, <2>1, ResponseStep DEF Counted
  <2>2. CASE ~FlagTaken(n)
    <3>1. ReadFlag /\ n = execution /\ response'[n].truncated = (Omitted(n) > 0)
      BY <1>5, <2>2, ResponseStep
    <3>2. TextTaken(n)
      BY <3>1 DEF ReadFlag, Read, TextTaken
    <3>3. response'[n].text = response[n].text /\ response'[n].written = response[n].written
      BY <3>2, ResponseStep
    <3>4. Omitted(n) > 0
      BY <1>0, <1>4, <1>5, <3>2, <3>3 DEF Omitted
    <3> QED BY <3>1, <3>4
  <2> QED BY <2>1, <2>2
<1>6. ASSUME n \in Answered'
      PROVE  response'[n].written <= response'[n].text + response'[n].omitted
  <2>1. CASE n \in Answered
    BY <2>1, ResponseStep DEF Counted
  <2>2. CASE n \notin Answered
    <3>1. ReadOmitted /\ n = execution /\ response'[n].omitted = Omitted(n)
      BY <1>6, <2>2, ResponseStep
    <3>2. TextTaken(n)
      BY <3>1 DEF ReadOmitted, Read, TextTaken
    <3>3. response'[n].text = response[n].text /\ response'[n].written = response[n].written
      BY <3>2, ResponseStep
    <3> QED BY <1>0, <1>4, <3>1, <3>2, <3>3 DEF Omitted
  <2> QED BY <2>1, <2>2
<1> QED BY <1>2, <1>3, <1>5, <1>6 DEF Counted

Accounts == \A n \in Executions : Accounted(n) /\ Counted(n)

LEMMA AccountsInitially == Init => Accounts
<1> SUFFICES ASSUME Init, NEW n \in Executions PROVE Accounted(n) /\ Counted(n)
  BY DEF Accounts
<1>1. sink[n] = NewSink /\ \A t \in Threads : pen[t].at = "rest"
  BY DEF Init, Resting
<1>2. IsAccount(n, [t \in Threads |-> {}], {})
  BY <1>1, FS_EmptySet DEF IsAccount, NewSink, Counting, Storing
<1>3. Accounted(n)
  BY <1>2 DEF Accounted
<1>4. ~TextTaken(n) /\ ~FlagTaken(n) /\ n \notin Answered
  BY OutputAssumption DEF Init, TextTaken, FlagTaken, Answered, Executions
<1> QED BY <1>1, <1>3, <1>4 DEF Counted, NewSink

THEOREM AccountsInvariant == Spec => [](Streams /\ Accounts)
<1>1. Streams /\ Accounts /\ [Next]_vars => Accounts'
  <2> SUFFICES ASSUME Streams, Accounts, [Next]_vars, NEW n \in Executions
               PROVE  Accounted(n)' /\ Counted(n)'
    BY DEF Accounts
  <2> QED BY AccountedStep, CountedStep DEF Accounts
<1> QED BY <1>1, AccountsInitially, StreamsNested, PTL DEF Spec

\* Whatever the threads do to each other, every character that was printed
\* before the text of an execution was taken is in its response or counted as
\* omitted, what the cell itself printed included, and a shortened text is
\* flagged.
THEOREM NothingGoesUnaccounted == Spec => []NothingUnaccounted
<1>1. Streams /\ Accounts => NothingUnaccounted
  <2> SUFFICES ASSUME Streams, Accounts, NEW n \in Answered
               PROVE  /\ response[n].text + response[n].omitted >= response[n].written
                      /\ response[n].written >= sink[n].own
                      /\ response[n].text < response[n].written =>
                             response[n].truncated /\ response[n].omitted > 0
    BY DEF NothingUnaccounted
  <2>1. n \in Executions /\ TextTaken(n) /\ FlagTaken(n)
    BY OutputAssumption DEF Streams, TypeOK, Nested, Answered, Executions, TextTaken, FlagTaken
  <2>2. /\ response[n].text \in Nat /\ response[n].written \in Nat /\ response[n].omitted \in Int
        /\ sink[n].own \in Nat
    BY <2>1, SinkFields DEF Streams, TypeOK, Responses
  <2> QED BY <2>1, <2>2 DEF Accounts, Counted
<1> QED BY <1>1, AccountsInvariant, PTL

-----------------------------------------------------------------------------
(***************************************************************************)
(* Exactness, when no two writes meet in a sink, and no two displays.      *)
(***************************************************************************)
Least(a, b) == IF a < b THEN a ELSE b

\* Who is in the sink is alone, and what he still has to count is what is held
\* beyond the count.  The sink holds what was printed, up to the limit.
Alone(n) ==
    /\ \A t, u \in Threads : Inside(t, n) /\ Inside(u, n) => t = u
    /\ (\A t \in Threads : ~Inside(t, n)) => sink[n].retained = sink[n].held
    /\ \A t \in Threads :
          /\ Counting(t, n) => sink[n].retained + pen[t].kept = sink[n].held
          /\ Storing(t, n) => pen[t].sum = sink[n].held
    /\ sink[n].held = Least(sink[n].total, Limit)
    /\ sink[n].cut => sink[n].held = Limit
    /\ ~sink[n].gap

\* At most one display has passed the limit and is yet to be stored.
Orderly(n) ==
    /\ sink[n].displays <= MaxDisplay
    /\ \A t \in Threads : \A i \in 1 .. Len(showing[t]) : showing[t][i] = n =>
          /\ sink[n].displays < MaxDisplay
          /\ \A u \in Threads : \A j \in 1 .. Len(showing[u]) :
                 showing[u][j] = n => u = t /\ j = i

Told(n) ==
    /\ TextTaken(n) => response[n].text = Least(response[n].written, Limit)
    /\ n = execution /\ phase \in {"flag", "omitted"} =>
          /\ \A t \in Threads : ~Inside(t, n)
          /\ sink[n].total = response[n].written
    /\ FlagTaken(n) => (response[n].truncated <=> response[n].text < response[n].written)
    /\ n \in Answered => response[n].omitted = response[n].written - response[n].text

Undivided(n) ==
    /\ ~sink[n].overlapped => Alone(n) /\ Told(n)
    /\ ~sink[n].crossed => Orderly(n)

\* Once writes have met in a sink this is not forgotten, and who writes or reads
\* where another is, is noticed.
LEMMA OverlapStep ==
    ASSUME Streams, [Next]_vars, NEW n \in Executions, ~sink'[n].overlapped
    PROVE  /\ ~sink[n].overlapped
           /\ ReadText \/ ReadFlag \/ ReadOmitted => (n = execution => ~Busy(n))
           /\ \A t \in Threads : Write(t) /\ pen[t].to = n =>
                  /\ ~MeetsAnother(t, n)
                  /\ ~(n = execution /\ phase \in {"flag", "omitted"})
<1>0. /\ sink \in [Executions -> Sinks] /\ pen \in [Threads -> Pens] /\ sink[n] \in Sinks
      /\ phase \in {"cell", "text", "flag", "omitted"} => execution \in Executions
  BY OutputAssumption DEF Streams, TypeOK, Nested, Executions
<1>1. ASSUME ReadText \/ ReadFlag \/ ReadOmitted
      PROVE  ~sink[n].overlapped /\ (n = execution => ~Busy(n))
  <2>1. sink' = [sink EXCEPT ![execution].overlapped = sink[execution].overlapped \/ Busy(execution)]
    BY <1>1 DEF ReadText, ReadFlag, ReadOmitted, Read
  <2>2. CASE n = execution
    <3>1. sink'[n].overlapped <=> sink[n].overlapped \/ Busy(n)
      BY <1>0, <2>1, <2>2 DEF Sinks
    <3> QED BY <3>1
  <2>3. CASE n # execution
    BY <1>0, <2>1, <2>3
  <2> QED BY <2>2, <2>3
<1>2. ASSUME NEW t \in Threads, Write(t)
      PROVE  /\ ~sink[n].overlapped
             /\ pen[t].to = n => /\ ~MeetsAnother(t, n)
                                 /\ ~(n = execution /\ phase \in {"flag", "omitted"})
  <2>1. CASE pen[t].to = n
    <3>1. PICK kept : Wrote(t, n, kept)
      BY <1>2, <2>1, WriteEffect
    <3> QED BY <3>1 DEF Wrote
  <2>2. CASE pen[t].to # n
    BY <1>2, <2>2, WritersAlone
  <2> QED BY <2>1, <2>2
<1>3. ASSUME NEW t \in Threads, StartDisplay(t) \/ Show(t)
      PROVE  ~sink[n].overlapped
  BY <1>3, DisplayFields
<1>4. ASSUME NEW t \in Threads, Store(t) \/ Load(t) \/ StartPrint(t) \/ WriteElsewhere(t)
      PROVE  ~sink[n].overlapped
  <2>1. CASE Store(t)
    BY <1>0, <2>1 DEF Store, Sinks
  <2>2. CASE Load(t) \/ StartPrint(t) \/ WriteElsewhere(t)
    BY <2>2 DEF Load, StartPrint, WriteElsewhere
  <2> QED BY <1>4, <2>1, <2>2
<1>5. ASSUME BeginOperation \/ BeginCell \/ EndCell \/ EndOperation \/ UNCHANGED vars
      PROVE  ~sink[n].overlapped
  BY <1>5 DEF BeginOperation, BeginCell, EndCell, EndOperation, vars
<1>6. ~sink[n].overlapped
  BY <1>1, <1>2, <1>3, <1>4, <1>5 DEF Next
<1> QED BY <1>1, <1>2, <1>6

\* What a lone writer keeps fills the sink up to the limit.
LEMMA KeptFills ==
    ASSUME NEW s \in Sinks, NEW length \in Nat \ {0}, NEW kept,
           kept = Kept(length, Room(s)), s.retained = s.held, s.held = Least(s.total, Limit)
    PROVE  /\ s.held + kept = Least(s.total + length, Limit)
           /\ kept < length => s.held + kept = Limit
           /\ s.held = Limit => kept = 0
BY SinkFields, OutputAssumption DEF Kept, Room, Least

LEMMA AloneStep ==
    ASSUME Streams, [Next]_vars, NEW n \in Executions, Alone(n), ~sink'[n].overlapped
    PROVE  Alone(n)'
<1>0. /\ sink \in [Executions -> Sinks] /\ pen \in [Threads -> Pens] /\ sink[n] \in Sinks
      /\ sink[n].held \in Nat /\ sink[n].retained \in Nat /\ sink[n].total \in Nat
  BY SinkFields DEF Streams, TypeOK
<1>1. CASE Undisturbed(n)
  <2>1. \A t \in Threads : /\ Inside(t, n)' <=> Inside(t, n)
                           /\ Counting(t, n)' => Counting(t, n) /\ pen'[t] = pen[t]
                           /\ Storing(t, n)' => Storing(t, n) /\ pen'[t] = pen[t]
    BY <1>1 DEF Undisturbed, Inside, Counting, Storing
  <2> QED BY <1>1, <2>1 DEF Undisturbed, Alone
<1>2. ASSUME NEW t \in Threads, Write(t), pen[t].to = n
      PROVE  Alone(n)'
  <2>1. PICK kept : Wrote(t, n, kept)
    BY <1>2, WriteEffect
  <2>2. \A u \in Threads : ~Inside(u, n)
    BY <1>2, OverlapStep DEF MeetsAnother, Inside, Write
  <2>3. sink[n].retained = sink[n].held /\ sink[n].held = Least(sink[n].total, Limit)
    BY <2>2 DEF Alone
  <2>4. /\ kept \in Nat
        /\ sink[n].held + kept = Least(sink[n].total + pen[t].length, Limit)
        /\ kept < pen[t].length => sink[n].held + kept = Limit
        /\ sink[n].held = Limit => kept = 0
    BY <2>1, <2>3, KeptFills DEF Wrote
  <2>5. /\ sink'[n].held = sink[n].held + kept /\ sink'[n].retained = sink[n].retained
        /\ sink'[n].total = sink[n].total + pen[t].length
        /\ sink'[n].cut <=> sink[n].cut \/ kept < pen[t].length
        /\ sink'[n].gap <=> sink[n].gap \/ (sink[n].cut /\ kept > 0)
    BY <2>1 DEF Wrote
  <2>6. /\ \A u \in Threads \ {t} : ~Inside(u, n)'
        /\ ~Storing(t, n)'
        /\ Counting(t, n)' => pen'[t].kept = kept
        /\ ~Inside(t, n)' => kept = 0
    BY <2>1, <2>2 DEF Wrote, Inside, Storing, Counting, Resting
  <2>7. \A u \in Threads : Counting(u, n)' \/ Storing(u, n)' => u = t
    BY <2>6 DEF Inside, Counting, Storing
  <2>8. /\ sink'[n].held = Least(sink'[n].total, Limit)
        /\ sink'[n].cut => sink'[n].held = Limit
        /\ ~sink'[n].gap
    <3>1. sink[n].cut => sink[n].held = Limit /\ kept = 0
      BY <2>4 DEF Alone
    <3>2. ~sink[n].gap
      BY DEF Alone
    <3>3. sink[n].cut => sink[n].held + kept = Limit
      BY <1>0, <2>4, <3>1
    <3>4. ~sink'[n].gap
      BY <2>5, <3>1, <3>2
    <3> QED BY <2>4, <2>5, <3>3, <3>4
  <2>9. /\ \A u, v \in Threads : Inside(u, n)' /\ Inside(v, n)' => u = v
        /\ (\A u \in Threads : ~Inside(u, n)') => sink'[n].retained = sink'[n].held
    BY <1>0, <2>3, <2>4, <2>5, <2>6
  <2>10. \A u \in Threads :
            /\ Counting(u, n)' => sink'[n].retained + pen'[u].kept = sink'[n].held
            /\ Storing(u, n)' => pen'[u].sum = sink'[n].held
    BY <2>3, <2>5, <2>6, <2>7
  <2> QED BY <2>8, <2>9, <2>10 DEF Alone
<1>3. ASSUME NEW t \in Threads, Load(t), pen[t].to = n
      PROVE  Alone(n)'
  <2>1. /\ sink' = sink /\ \A u \in Threads \ {t} : pen'[u] = pen[u]
        /\ pen'[t] = [at |-> "store", to |-> n, sum |-> sink[n].retained + pen[t].kept]
    BY <1>3, LoadEffect
  <2>2. Inside(t, n) /\ Counting(t, n)
    BY <1>3 DEF Load, Inside, Counting
  <2>3. \A u \in Threads \ {t} : ~Inside(u, n)
    BY <2>2 DEF Alone
  <2>4. /\ \A u \in Threads \ {t} : ~Inside(u, n)' /\ ~Counting(u, n)' /\ ~Storing(u, n)'
        /\ Inside(t, n)' /\ ~Counting(t, n)' /\ pen'[t].sum = sink[n].held
    BY <2>1, <2>2, <2>3 DEF Alone, Inside, Counting, Storing
  <2> QED BY <2>1, <2>4 DEF Alone
<1>4. ASSUME NEW t \in Threads, Store(t), pen[t].to = n
      PROVE  Alone(n)'
  <2>1. /\ sink'[n] = [sink[n] EXCEPT !.retained = pen[t].sum] /\ pen'[t] = Resting
        /\ \A u \in Threads \ {t} : pen'[u] = pen[u]
    BY <1>4, StoreEffect
  <2>2. Inside(t, n) /\ Storing(t, n)
    BY <1>4 DEF Store, Inside, Storing
  <2>3. \A u \in Threads \ {t} : ~Inside(u, n)
    BY <2>2 DEF Alone
  <2>4. \A u \in Threads : ~Inside(u, n)' /\ ~Counting(u, n)' /\ ~Storing(u, n)'
    BY <2>1, <2>3 DEF Inside, Counting, Storing, Resting
  <2>5. /\ sink'[n].held = sink[n].held /\ sink'[n].retained = sink[n].held
        /\ sink'[n].total = sink[n].total /\ sink'[n].cut = sink[n].cut
        /\ sink'[n].gap = sink[n].gap
    BY <1>0, <2>1, <2>2 DEF Sinks, Alone
  <2> QED BY <2>4, <2>5 DEF Alone
<1> QED BY <1>1, <1>2, <1>3, <1>4, SinkStep

\* The displays of an execution change only in publish.
LEMMA DisplaysStep ==
    ASSUME Streams, [Next]_vars, NEW n \in Executions
    PROVE  \/ /\ showing' = showing
              /\ sink'[n].displays = sink[n].displays /\ sink'[n].crossed = sink[n].crossed
           \/ execution \in Executions /\ \E t \in Threads, full, met \in BOOLEAN :
                                               DisplayStarted(t, full, met)
           \/ \E t \in Threads, m \in Executions : DisplayStored(t, m)
<1>0. /\ sink \in [Executions -> Sinks] /\ showing \in [Threads -> Seq(Executions)]
      /\ pen \in [Threads -> Pens]
      /\ phase \in {"cell", "text", "flag", "omitted"} => execution \in Executions
  BY OutputAssumption DEF Streams, TypeOK, Nested, Executions
<1>1. CASE BeginOperation \/ BeginCell \/ EndCell \/ EndOperation \/ UNCHANGED vars
  BY <1>1 DEF BeginOperation, BeginCell, EndCell, EndOperation, vars
<1>2. CASE ReadText \/ ReadFlag \/ ReadOmitted
  <2>1. /\ showing' = showing
        /\ \E b : sink' = [sink EXCEPT ![execution].overlapped = b]
    BY <1>2 DEF ReadText, ReadFlag, ReadOmitted, Read
  <2> QED BY <1>0, <2>1 DEF Sinks
<1>3. ASSUME NEW t \in Threads, StartPrint(t) \/ WriteElsewhere(t) \/ Load(t)
      PROVE  showing' = showing /\ sink' = sink
  BY <1>3 DEF StartPrint, WriteElsewhere, Load
<1>4. ASSUME NEW t \in Threads, Write(t)
      PROVE  /\ showing' = showing
             /\ sink'[n].displays = sink[n].displays /\ sink'[n].crossed = sink[n].crossed
  <2>1. showing' = showing
    BY <1>4 DEF Write
  <2>2. CASE pen[t].to # n
    BY <1>4, <2>1, <2>2, WritersAlone
  <2>3. CASE pen[t].to = n
    <3>1. PICK kept : Wrote(t, n, kept)
      BY <1>4, <2>3, WriteEffect
    <3> QED BY <2>1, <3>1 DEF Wrote
  <2> QED BY <2>2, <2>3
<1>5. ASSUME NEW t \in Threads, Store(t)
      PROVE  /\ showing' = showing
             /\ sink'[n].displays = sink[n].displays /\ sink'[n].crossed = sink[n].crossed
  BY <1>0, <1>5 DEF Store, Sinks
<1>6. ASSUME NEW t \in Threads, StartDisplay(t)
      PROVE  execution \in Executions /\ \E full, met \in BOOLEAN : DisplayStarted(t, full, met)
  <2>1. execution \in Executions
    BY <1>0, <1>6 DEF StartDisplay
  <2> QED BY <1>0, <1>6, <2>1, DisplayEffect
<1>7. ASSUME NEW t \in Threads, Show(t)
      PROVE  \E m \in Executions : DisplayStored(t, m)
  BY <1>0, <1>7, ShowEffect
<1> QED BY <1>1, <1>2, <1>3, <1>4, <1>5, <1>6, <1>7 DEF Next

LEMMA OrderlyStep ==
    ASSUME Streams, [Next]_vars, NEW n \in Executions,
           ~sink[n].crossed => Orderly(n), ~sink'[n].crossed
    PROVE  Orderly(n)'
<1>0. /\ sink \in [Executions -> Sinks] /\ showing \in [Threads -> Seq(Executions)]
      /\ sink[n] \in Sinks /\ sink[n].displays \in Nat /\ MaxDisplay \in Nat
  BY OutputAssumption, SinkFields DEF Streams, TypeOK
<1>1. CASE /\ showing' = showing
           /\ sink'[n].displays = sink[n].displays /\ sink'[n].crossed = sink[n].crossed
  BY <1>1 DEF Orderly
<1>2. ASSUME NEW t \in Threads, NEW full \in BOOLEAN, NEW met \in BOOLEAN,
             execution \in Executions, DisplayStarted(t, full, met)
      PROVE  Orderly(n)'
  <2>1. /\ sink'[n].displays = sink[n].displays
        /\ n # execution => sink'[n].crossed = sink[n].crossed
        /\ n = execution => (sink'[n].crossed <=> sink[n].crossed \/ met)
    BY <1>0, <1>2 DEF DisplayStarted, Sinks
  <2>2. Orderly(n) /\ (n = execution => ~met)
    BY <2>1
  <2>3. CASE full
    <3>1. showing' = showing
      BY <1>0, <1>2, <2>3 DEF DisplayStarted
    <3> QED BY <2>1, <2>2, <3>1 DEF Orderly
  <2>4. CASE ~full
    <3>1. /\ showing[t] \in Seq(Executions)
          /\ showing'[t] = Append(showing[t], execution)
          /\ \A u \in Threads \ {t} : showing'[u] = showing[u]
      BY <1>0, <1>2, <2>4 DEF DisplayStarted
    <3>2. /\ Len(showing[t]) \in Nat /\ Len(showing'[t]) = Len(showing[t]) + 1
          /\ showing'[t][Len(showing[t]) + 1] = execution
          /\ \A i \in 1 .. Len(showing[t]) : showing'[t][i] = showing[t][i]
      BY <1>2, <3>1, AppendProperties
    <3>3. CASE n # execution
      <4>1. \A u \in Threads : \A i \in 1 .. Len(showing'[u]) : showing'[u][i] = n =>
                i \in 1 .. Len(showing[u]) /\ showing[u][i] = n
        BY <3>1, <3>2, <3>3
      <4> QED BY <2>1, <2>2, <4>1 DEF Orderly
    <3>4. CASE n = execution
      <4>1. \A u \in Threads : \A i \in 1 .. Len(showing[u]) : showing[u][i] # n
        BY <1>0, <1>2, <2>2, <2>4, <3>4 DEF DisplayStarted, Displaying
      <4>2. \A u \in Threads : \A i \in 1 .. Len(showing'[u]) : showing'[u][i] = n =>
                u = t /\ i = Len(showing[t]) + 1
        BY <3>1, <3>2, <4>1
      <4>3. sink'[n].displays < MaxDisplay
        BY <1>0, <1>2, <2>1, <2>4, <3>4 DEF DisplayStarted
      <4> QED BY <1>0, <2>1, <4>2, <4>3 DEF Orderly
    <3> QED BY <3>3, <3>4
  <2> QED BY <2>3, <2>4
<1>3. ASSUME NEW t \in Threads, NEW m \in Executions, DisplayStored(t, m)
      PROVE  Orderly(n)'
  <2>1. /\ showing[t] \in Seq(Executions) /\ Len(showing[t]) \in Nat /\ Len(showing[t]) # 0
        /\ showing'[t] = SubSeq(showing[t], 1, Len(showing[t]) - 1)
        /\ \A u \in Threads \ {t} : showing'[u] = showing[u]
        /\ showing[t][Len(showing[t])] = m
    BY <1>0, <1>3 DEF DisplayStored
  <2>2. /\ Len(showing'[t]) = Len(showing[t]) - 1
        /\ \A i \in 1 .. Len(showing[t]) - 1 : showing'[t][i] = showing[t][i]
    BY <2>1, LastTakenOff
  <2>3. \A u \in Threads : \A i \in 1 .. Len(showing'[u]) :
            /\ i \in 1 .. Len(showing[u]) /\ showing'[u][i] = showing[u][i]
            /\ u = t => i # Len(showing[t])
    BY <2>1, <2>2
  <2>4. /\ sink'[n].crossed = sink[n].crossed
        /\ n # m => sink'[n].displays = sink[n].displays
        /\ sink'[n].displays \in {sink[n].displays, sink[n].displays + 1}
    <3>1. CASE sink' = sink
      BY <3>1
    <3>2. CASE sink' = [sink EXCEPT ![m] = [sink[m] EXCEPT !.displays = @ + 1]]
      <4>1. n # m => sink'[n] = sink[n]
        BY <1>0, <3>2
      <4>2. n = m => sink'[n] = [sink[n] EXCEPT !.displays = @ + 1]
        BY <1>0, <3>2
      <4>3. n = m => /\ sink'[n].crossed = sink[n].crossed
                     /\ sink'[n].displays = sink[n].displays + 1
        BY <1>0, <4>2 DEF Sinks
      <4> QED BY <4>1, <4>3
    <3> QED BY <1>3, <3>1, <3>2 DEF DisplayStored
  <2>5. Orderly(n)
    BY <2>4
  <2>6. CASE n # m
    <3>1. sink'[n].displays = sink[n].displays
      BY <2>4, <2>6
    <3>2. ASSUME NEW u \in Threads, NEW i \in 1 .. Len(showing'[u]), showing'[u][i] = n
          PROVE  /\ sink'[n].displays < MaxDisplay
                 /\ \A w \in Threads : \A j \in 1 .. Len(showing'[w]) :
                        showing'[w][j] = n => w = u /\ j = i
      <4>1. i \in 1 .. Len(showing[u]) /\ showing[u][i] = n
        BY <2>3, <3>2
      <4>2. /\ sink[n].displays < MaxDisplay
            /\ \A w \in Threads : \A j \in 1 .. Len(showing[w]) :
                   showing[w][j] = n => w = u /\ j = i
        BY <2>5, <3>2, <4>1 DEF Orderly
      <4>3. ASSUME NEW w \in Threads, NEW j \in 1 .. Len(showing'[w]), showing'[w][j] = n
            PROVE  w = u /\ j = i
        <5>1. j \in 1 .. Len(showing[w]) /\ showing[w][j] = n
          BY <2>3, <4>3
        <5> QED BY <4>2, <4>3, <5>1
      <4> QED BY <3>1, <4>2, <4>3
    <3>3. sink'[n].displays <= MaxDisplay
      BY <2>5, <3>1 DEF Orderly
    <3> QED BY <3>2, <3>3 DEF Orderly
  <2>7. CASE n = m
    <3>1. Len(showing[t]) \in 1 .. Len(showing[t])
      BY <2>1
    <3>2. /\ sink[n].displays < MaxDisplay
          /\ \A u \in Threads : \A j \in 1 .. Len(showing[u]) :
                 showing[u][j] = n => u = t /\ j = Len(showing[t])
      BY <2>1, <2>5, <2>7, <3>1 DEF Orderly
    <3>3. \A u \in Threads : \A j \in 1 .. Len(showing'[u]) : showing'[u][j] # n
      BY <2>3, <3>2
    <3>4. sink'[n].displays <= MaxDisplay
      BY <1>0, <2>4, <3>2
    <3> QED BY <3>3, <3>4 DEF Orderly
  <2> QED BY <2>6, <2>7
<1> QED BY <1>1, <1>2, <1>3, DisplaysStep

LEMMA ToldStep ==
    ASSUME Streams, [Next]_vars, NEW n \in Executions, Alone(n), Told(n), ~sink'[n].overlapped
    PROVE  Told(n)'
<1>0. /\ sink[n].held \in Nat /\ sink[n].retained \in Nat /\ sink[n].total \in Nat
      /\ response[n].text \in Nat /\ response[n].written \in Nat /\ Limit \in Nat
      /\ phase \in {"cell", "text", "flag", "omitted"} => execution \in Executions
      /\ execution \in 0 .. MaxExecutions /\ phase \in Phases
  BY OutputAssumption, SinkFields DEF Streams, TypeOK, Responses, Nested, Executions
<1>1. ASSUME TextTaken(n)' PROVE response'[n].text = Least(response'[n].written, Limit)
  BY <1>1, ResponseStep DEF Told, Alone
<1>2. ASSUME ReadText \/ ReadFlag \/ ReadOmitted, n = execution
      PROVE  /\ \A t \in Threads : ~Inside(t, n) /\ ~Inside(t, n)'
             /\ sink[n].retained = sink[n].held
             /\ sink'[n].total = sink[n].total
  <2>1. ~Busy(n)
    BY <1>2, OverlapStep
  <2>2. pen' = pen
    BY <1>2 DEF ReadText, ReadFlag, ReadOmitted, Read
  <2>3. sink'[n].total = sink[n].total
    BY <1>2, TotalsStep
  <2> QED BY <2>1, <2>2, <2>3 DEF Busy, Inside, Alone
<1>3. ASSUME n = execution, phase \in {"flag", "omitted"}
      PROVE  /\ TextTaken(n)
             /\ \A t \in Threads : ~Inside(t, n) /\ ~Inside(t, n)'
             /\ sink[n].total = response[n].written /\ sink'[n].total = response'[n].written
             /\ sink[n].retained = response[n].text
  <2>1. TextTaken(n) /\ (\A t \in Threads : ~Inside(t, n)) /\ sink[n].total = response[n].written
    BY <1>3 DEF Told, TextTaken
  <2>2. Undisturbed(n)
    <3>1. ~\E t \in Threads : pen[t].to = n /\ Write(t)
      BY <1>3, OverlapStep
    <3>2. ~\E t \in Threads : pen[t].to = n /\ (Load(t) \/ Store(t))
      BY <2>1 DEF Load, Store, Inside
    <3> QED BY <3>1, <3>2, SinkStep
  <2>3. sink'[n].total = response'[n].written
    BY <2>1, <2>2, ResponseStep DEF Undisturbed
  <2>4. sink[n].retained = response[n].text
    BY <2>1 DEF Alone, Told
  <2> QED BY <2>1, <2>2, <2>3, <2>4 DEF Undisturbed
<1>4. ASSUME n = execution', phase' \in {"flag", "omitted"}
      PROVE  /\ \A t \in Threads : ~Inside(t, n)'
             /\ sink'[n].total = response'[n].written
  <2>1. \/ ReadText /\ n = execution
        \/ n = execution /\ phase \in {"flag", "omitted"}
    <3>1. CASE BeginOperation \/ BeginCell \/ EndCell \/ EndOperation
      BY <1>4, <3>1 DEF BeginOperation, BeginCell, EndCell, EndOperation
    <3>2. CASE ReadText \/ ReadFlag \/ ReadOmitted
      BY <1>4, <3>2 DEF ReadText, ReadFlag, ReadOmitted, Read
    <3>3. CASE \E t \in Threads :
              \/ StartPrint(t) \/ WriteElsewhere(t) \/ Write(t) \/ Load(t) \/ Store(t)
              \/ StartDisplay(t) \/ Show(t)
      BY <1>4, <3>3 DEF StartPrint, WriteElsewhere, Write, Load, Store, StartDisplay, Show
    <3>4. CASE UNCHANGED vars
      BY <1>4, <3>4 DEF vars
    <3> QED BY <3>1, <3>2, <3>3, <3>4 DEF Next
  <2>2. CASE ReadText /\ n = execution
    <3>1. TextTaken(n)' /\ ~TextTaken(n)
      BY <1>0, <1>4, <2>2 DEF ReadText, TextTaken, Answered
    <3> QED BY <1>2, <2>2, <3>1, ResponseStep
  <2>3. CASE n = execution /\ phase \in {"flag", "omitted"}
    BY <1>3, <2>3
  <2> QED BY <2>1, <2>2, <2>3
<1>5. ASSUME FlagTaken(n)'
      PROVE  response'[n].truncated <=> response'[n].text < response'[n].written
  <2>1. CASE FlagTaken(n)
    BY <2>1, ResponseStep DEF Told
  <2>2. CASE ~FlagTaken(n)
    <3>1. ReadFlag /\ n = execution /\ response'[n].truncated = (Omitted(n) > 0)
      BY <1>5, <2>2, ResponseStep
    <3>2. phase = "flag"
      BY <3>1 DEF ReadFlag, Read
    <3>3. /\ sink[n].total = response[n].written /\ sink[n].retained = response[n].text
          /\ response'[n].text = response[n].text /\ response'[n].written = response[n].written
      BY <1>3, <3>1, <3>2, ResponseStep
    <3>4. Omitted(n) > 0 <=> response[n].text < response[n].written
      BY <1>0, <3>3 DEF Omitted
    <3> QED BY <3>1, <3>3, <3>4
  <2> QED BY <2>1, <2>2
<1>6. ASSUME n \in Answered'
      PROVE  response'[n].omitted = response'[n].written - response'[n].text
  <2>1. CASE n \in Answered
    BY <2>1, ResponseStep DEF Told
  <2>2. CASE n \notin Answered
    <3>1. ReadOmitted /\ n = execution /\ response'[n].omitted = Omitted(n)
      BY <1>6, <2>2, ResponseStep
    <3>2. phase = "omitted"
      BY <3>1 DEF ReadOmitted, Read
    <3>3. /\ sink[n].total = response[n].written /\ sink[n].retained = response[n].text
          /\ response'[n].text = response[n].text /\ response'[n].written = response[n].written
      BY <1>3, <3>1, <3>2, ResponseStep
    <3> QED BY <3>1, <3>3 DEF Omitted
  <2> QED BY <2>1, <2>2
<1> QED BY <1>1, <1>4, <1>5, <1>6 DEF Told

LEMMA UndividedStep ==
    ASSUME Streams, [Next]_vars, NEW n \in Executions, Undivided(n)
    PROVE  Undivided(n)'
<1>1. ASSUME ~sink'[n].overlapped PROVE Alone(n)' /\ Told(n)'
  <2>1. Alone(n) /\ Told(n)
    BY <1>1, OverlapStep DEF Undivided
  <2> QED BY <1>1, <2>1, AloneStep, ToldStep
<1>2. ASSUME ~sink'[n].crossed PROVE Orderly(n)'
  BY <1>2, OrderlyStep DEF Undivided
<1> QED BY <1>1, <1>2 DEF Undivided

LEMMA UndividedInitially == Init => \A n \in Executions : Undivided(n)
<1> SUFFICES ASSUME Init, NEW n \in Executions PROVE Undivided(n)
  OBVIOUS
<1> USE OutputAssumption
<1>1. /\ sink[n] = NewSink
      /\ \A t \in Threads : pen[t].at = "rest" /\ Len(showing[t]) = 0
  BY DEF Init, Resting
<1>2. Alone(n)
  BY <1>1 DEF Alone, Inside, Counting, Storing, NewSink, Least
<1>3. Orderly(n)
  BY <1>1 DEF Orderly, NewSink
<1>4. ~TextTaken(n) /\ ~FlagTaken(n) /\ n \notin Answered /\ phase = "idle"
  BY DEF Init, TextTaken, FlagTaken, Answered, Executions
<1>5. Told(n)
  BY <1>4 DEF Told
<1> QED BY <1>2, <1>3, <1>5 DEF Undivided

\* The text in the response of an execution is exact when no two writes met in
\* its sink, and its displays are within their limit when none of them passed the
\* limit while another one, of any thread, was yet to be stored.
THEOREM ExactWhenUndivided == Spec => []ExactUnlessOverlapped
<1> DEFINE All == \A n \in Executions : Undivided(n)
<1>1. Streams /\ All /\ [Next]_vars => All'
  <2> SUFFICES ASSUME Streams, All, [Next]_vars, NEW n \in Executions PROVE Undivided(n)'
    OBVIOUS
  <2> QED BY UndividedStep
<1>2. Init => All
  BY UndividedInitially
<1>3. Streams /\ All => ExactUnlessOverlapped
  <2> SUFFICES ASSUME Streams, All, NEW n \in Answered
               PROVE  /\ ~sink[n].overlapped =>
                            /\ ~sink[n].gap
                            /\ response[n].text = IF response[n].written < Limit
                                                  THEN response[n].written ELSE Limit
                            /\ response[n].omitted = response[n].written - response[n].text
                            /\ response[n].truncated <=> response[n].omitted > 0
                      /\ ~sink[n].crossed => sink[n].displays <= MaxDisplay
    BY DEF ExactUnlessOverlapped
  <2>1. n \in Executions /\ TextTaken(n) /\ FlagTaken(n)
    BY OutputAssumption DEF Streams, TypeOK, Nested, Answered, Executions, TextTaken, FlagTaken
  <2>2. ~sink[n].crossed => sink[n].displays <= MaxDisplay
    BY <2>1 DEF Undivided, Orderly
  <2>3. ASSUME ~sink[n].overlapped
        PROVE  /\ ~sink[n].gap
               /\ response[n].text = IF response[n].written < Limit
                                     THEN response[n].written ELSE Limit
               /\ response[n].omitted = response[n].written - response[n].text
               /\ response[n].truncated <=> response[n].omitted > 0
    <3>1. Alone(n) /\ Told(n)
      BY <2>1, <2>3 DEF Undivided
    <3>2. /\ response[n].text = Least(response[n].written, Limit)
          /\ response[n].omitted = response[n].written - response[n].text
          /\ response[n].truncated <=> response[n].text < response[n].written
      BY <2>1, <3>1 DEF Told
    <3>3. response[n].text \in Nat /\ response[n].written \in Nat
      BY <2>1 DEF Streams, TypeOK, Responses
    <3>4. response[n].truncated <=> response[n].omitted > 0
      BY <3>2, <3>3
    <3> QED BY <3>1, <3>2, <3>4 DEF Alone, Least
  <2> QED BY <2>2, <2>3
<1> HIDE DEF All
<1> QED BY <1>1, <1>2, <1>3, StreamsNested, PTL DEF Spec

-----------------------------------------------------------------------------
(***************************************************************************)
(* The translation of a result.                                            *)
(***************************************************************************)
Deeper(heap, f) ==
    f = [depth \in 0 .. MaxDepth + 1 |-> [n \in DOMAIN heap |-> Translated(heap, n, depth, f)]]

SafeOf(heap) == CHOOSE f : Deeper(heap, f)

LEMMA JsonSafeIs ==
  ASSUME NEW heap
  PROVE  JsonSafe(heap) = SafeOf(heap)[0][Root]
BY DEF JsonSafe, SafeOf, Deeper

FirstItems(heap, n) == {j \in DOMAIN Items(heap, n) : j <= MaxItems}
Parts(heap, n, at, f) == [i \in FirstItems(heap, n) |-> f[at][Items(heap, n)[i]]]
Openable(heap, n) ==
    \/ Kind(heap, n) \in {"record", "mapping", "list"}
    \/ Kind(heap, n) = "oddMapping" /\ Items(heap, n) = <<>>
Whether(heap, n, depth) == depth + Weight(Kind(heap, n)) <= MaxDepth

\* _json_safe by the kind of the value.
LEMMA TranslatedCases ==
  ASSUME NEW heap \in Heaps, NEW n \in DOMAIN heap, NEW depth \in Nat, NEW f
  PROVE  /\ Kind(heap, n) \in Scalars =>
                Translated(heap, n, depth, f) = Leaf(n, Kind(heap, n) = "longText")
         /\ Kind(heap, n) = "nan" => Translated(heap, n, depth, f) = Refused
         /\ Kind(heap, n) \notin Scalars \cup {"nan"} /\ ~Whether(heap, n, depth) =>
                Translated(heap, n, depth, f) = TooDeepMarker
         /\ Kind(heap, n) = "opaque" /\ Whether(heap, n, depth) =>
                Translated(heap, n, depth, f) = Refused
         /\ Kind(heap, n) = "oddMapping" /\ Whether(heap, n, depth) /\ Items(heap, n) # <<>> =>
                Translated(heap, n, depth, f) = Refused
         /\ Openable(heap, n) /\ Whether(heap, n, depth) =>
                Translated(heap, n, depth, f)
                    = Collected(n, Parts(heap, n, depth + Weight(Kind(heap, n)), f),
                                Len(Items(heap, n)) > MaxItems)
<1> DEFINE k == Kind(heap, n)
           items == Items(heap, n)
           got == Translated(heap, n, depth, f)
           Open(at) == Collected(n, Parts(heap, n, at + 1, f), Len(items) > MaxItems)
<1>0. k \in Kinds /\ MaxDepth \in Nat
  BY HeapsAssumption, LimitsAssumption
<1>1. got = CASE k \in Scalars -> Leaf(n, k = "longText")
              [] k = "nan" -> Refused
              [] OTHER ->
                   IF TooDeep(depth) THEN TooDeepMarker
                   ELSE CASE k = "opaque" -> Refused
                          [] k = "record" -> IF TooDeep(depth + 1) THEN TooDeepMarker
                                             ELSE Open(depth + 1)
                          [] k = "oddMapping" -> IF items = <<>> THEN Open(depth) ELSE Refused
                          [] k \in {"mapping", "list"} -> Open(depth)
  BY DEF Translated, Parts, FirstItems
<1>2. /\ Whether(heap, n, depth) <=> depth + Weight(k) <= MaxDepth
      /\ k = "record" => Weight(k) = 2
      /\ k # "record" => Weight(k) = 1
  BY DEF Whether, Weight
<1>3. depth + 1 + 1 = depth + 2
  OBVIOUS
<1> HIDE DEF k, items, got
<1>4. /\ k \in Scalars => got = Leaf(n, k = "longText")
      /\ k = "nan" => got = Refused
  BY <1>0, <1>1 DEF Scalars
<1>5. k \notin Scalars \cup {"nan"} =>
          got = IF TooDeep(depth) THEN TooDeepMarker
                ELSE CASE k = "opaque" -> Refused
                       [] k = "record" -> IF TooDeep(depth + 1) THEN TooDeepMarker
                                          ELSE Open(depth + 1)
                       [] k = "oddMapping" -> IF items = <<>> THEN Open(depth) ELSE Refused
                       [] k \in {"mapping", "list"} -> Open(depth)
  BY <1>1
<1> HIDE DEF Open
<1>6. k \notin Scalars \cup {"nan"} /\ TooDeep(depth) => got = TooDeepMarker
  BY <1>5
<1>7. ~TooDeep(depth) =>
          /\ k = "opaque" => got = Refused
          /\ k = "record" => got = IF TooDeep(depth + 1) THEN TooDeepMarker ELSE Open(depth + 1)
          /\ k = "oddMapping" => got = IF items = <<>> THEN Open(depth) ELSE Refused
          /\ k \in {"mapping", "list"} => got = Open(depth)
  BY <1>5 DEF Scalars
<1>8. TooDeep(depth) <=> ~(depth + 1 <= MaxDepth)
  BY <1>0 DEF TooDeep
<1>9. TooDeep(depth + 1) <=> ~(depth + 2 <= MaxDepth)
  BY <1>0 DEF TooDeep
<1>10. k \notin Scalars \cup {"nan"} /\ ~Whether(heap, n, depth) => got = TooDeepMarker
  <2>1. CASE k = "record"
    BY <1>0, <1>2, <1>6, <1>7, <1>8, <1>9, <2>1
  <2>2. CASE k # "record"
    BY <1>0, <1>2, <1>6, <1>8, <2>2
  <2> QED
    BY <2>1, <2>2
<1>11. Whether(heap, n, depth) => ~TooDeep(depth) /\ (k = "record" => ~TooDeep(depth + 1))
  BY <1>0, <1>2, <1>8, <1>9
<1>o. Openable(heap, n) <=> (k \in {"record", "mapping", "list"} \/ (k = "oddMapping" /\ items = <<>>))
  BY DEF Openable, k, items
<1>12. Openable(heap, n) /\ Whether(heap, n, depth)
       => got = Collected(n, Parts(heap, n, depth + Weight(k), f), Len(items) > MaxItems)
  <2>1. CASE k = "record"
    BY <1>2, <1>3, <1>7, <1>11, <1>o, <2>1 DEF Open
  <2>2. CASE k # "record"
    BY <1>2, <1>7, <1>11, <1>o, <2>2 DEF Open
  <2> QED
    BY <2>1, <2>2
<1> QED
  BY <1>4, <1>7, <1>10, <1>11, <1>12 DEF k, items, got

\* What becomes of a node depends on the deeper calls within MaxDepth only.
LEMMA TranslatedAgrees ==
  ASSUME NEW heap \in Heaps, NEW n \in DOMAIN heap, NEW depth \in Nat, NEW f, NEW g,
         \A d \in Nat : depth < d /\ d <= MaxDepth => f[d] = g[d]
  PROVE  Translated(heap, n, depth, f) = Translated(heap, n, depth, g)
<1>k. PICK k : k = Kind(heap, n)
  OBVIOUS
<1>0. k \in Kinds /\ MaxDepth \in Nat /\ Weight(k) \in 1 .. 2
  BY <1>k, HeapsAssumption, LimitsAssumption DEF Weight
<1>1. Whether(heap, n, depth) =>
          Parts(heap, n, depth + Weight(k), f) = Parts(heap, n, depth + Weight(k), g)
  <2> SUFFICES ASSUME Whether(heap, n, depth)
               PROVE  Parts(heap, n, depth + Weight(k), f) = Parts(heap, n, depth + Weight(k), g)
    OBVIOUS
  <2>1. f[depth + Weight(k)] = g[depth + Weight(k)]
    BY <1>0, <1>k DEF Whether
  <2> QED
    BY <2>1 DEF Parts
<1>2. \/ k \in Scalars \/ k = "nan" \/ k = "opaque" \/ Openable(heap, n)
      \/ k = "oddMapping" /\ Items(heap, n) # <<>>
  BY <1>0, <1>k DEF Kinds, Containers, Openable
<1>3. k = "opaque" \/ k = "oddMapping" \/ Openable(heap, n) => k \notin Scalars \cup {"nan"}
  BY <1>k DEF Scalars, Openable
<1>4. CASE k \in Scalars \/ k = "nan"
  BY <1>4, TranslatedCases, <1>k
<1>5. CASE k \notin Scalars \cup {"nan"} /\ ~Whether(heap, n, depth)
  BY <1>5, TranslatedCases, <1>k
<1>6. CASE k = "opaque" /\ Whether(heap, n, depth)
  BY <1>6, TranslatedCases, <1>k
<1>7. CASE Openable(heap, n) /\ Whether(heap, n, depth)
  <2>1. /\ Translated(heap, n, depth, f)
               = Collected(n, Parts(heap, n, depth + Weight(Kind(heap, n)), f),
                           Len(Items(heap, n)) > MaxItems)
        /\ Translated(heap, n, depth, g)
               = Collected(n, Parts(heap, n, depth + Weight(Kind(heap, n)), g),
                           Len(Items(heap, n)) > MaxItems)
    BY <1>7, TranslatedCases
  <2> QED
    BY <1>1, <1>7, <1>k, <2>1
<1>8. CASE (k = "oddMapping" /\ Items(heap, n) # <<>>) /\ Whether(heap, n, depth)
  BY <1>8, TranslatedCases, <1>k
<1> QED
  BY <1>2, <1>3, <1>4, <1>5, <1>6, <1>7, <1>8


\* The calls by depth are what the equation says.
LEMMA SafeUnfolds ==
  ASSUME NEW heap \in Heaps
  PROVE  Deeper(heap, SafeOf(heap))
<1> DEFINE Good(f, m) == \A d \in Nat : MaxDepth + 1 - m <= d /\ d <= MaxDepth + 1 =>
                             f[d] = [n \in DOMAIN heap |-> Translated(heap, n, d, f)]
           T == {m \in Nat : m <= MaxDepth + 1 => \E f : Good(f, m)}
<1>0. MaxDepth \in Nat
  BY LimitsAssumption
<1>1. 0 \in T
  <2> DEFINE f == [d \in {MaxDepth + 1} |-> [n \in DOMAIN heap |-> Translated(heap, n, d, Root)]]
  <2>1. ASSUME NEW n \in DOMAIN heap
        PROVE  Translated(heap, n, MaxDepth + 1, f) = Translated(heap, n, MaxDepth + 1, Root)
    <3>1. MaxDepth + 1 \in Nat /\ \A d \in Nat : ~(MaxDepth + 1 < d /\ d <= MaxDepth)
      BY <1>0
    <3> HIDE DEF f
    <3> QED
      BY <3>1, TranslatedAgrees
  <2>2. f[MaxDepth + 1] = [n \in DOMAIN heap |-> Translated(heap, n, MaxDepth + 1, f)]
    BY <2>1
  <2> HIDE DEF f
  <2>3. Good(f, 0)
    BY <1>0, <2>2
  <2> QED
    BY <2>3
<1>2. ASSUME NEW m \in T PROVE m + 1 \in T
  <2> SUFFICES ASSUME m + 1 <= MaxDepth + 1 PROVE \E f : Good(f, m + 1)
    OBVIOUS
  <2>1. PICK f : Good(f, m)
    BY <1>0
  <2> DEFINE now == MaxDepth - m
             g == [d \in 0 .. MaxDepth + 1 |->
                      IF d = now THEN [n \in DOMAIN heap |-> Translated(heap, n, now, f)] ELSE f[d]]
  <2>2. now \in Nat /\ now <= MaxDepth /\ MaxDepth + 1 - m = now + 1 /\ MaxDepth + 1 - (m + 1) = now
    BY <1>0
  <2> HIDE DEF now
  <2>3. \A d \in Nat : now < d /\ d <= MaxDepth + 1 => g[d] = f[d]
    BY <1>0, <2>2
  <2>4. g[now] = [n \in DOMAIN heap |-> Translated(heap, n, now, f)]
    BY <1>0, <2>2
  <2> HIDE DEF g
  <2>5. ASSUME NEW d \in Nat, now <= d, d <= MaxDepth + 1, NEW n \in DOMAIN heap
        PROVE  Translated(heap, n, d, f) = Translated(heap, n, d, g)
    <3>1. \A e \in Nat : d < e /\ e <= MaxDepth => f[e] = g[e]
      BY <1>0, <2>2, <2>3, <2>5
    <3> QED
      BY <3>1, TranslatedAgrees
  <2>6. ASSUME NEW d \in Nat, now <= d, d <= MaxDepth + 1
        PROVE  g[d] = [n \in DOMAIN heap |-> Translated(heap, n, d, g)]
    <3>1. g[d] = [n \in DOMAIN heap |-> Translated(heap, n, d, f)]
      <4>1. CASE d = now
        BY <2>4, <4>1
      <4>2. CASE d # now
        <5>1. now < d /\ MaxDepth + 1 - m <= d
          BY <2>2, <2>6, <4>2
        <5>2. f[d] = [n \in DOMAIN heap |-> Translated(heap, n, d, f)]
          BY <2>1, <2>6, <5>1
        <5> QED
          BY <2>3, <2>6, <5>1, <5>2
      <4> QED
        BY <4>1, <4>2
    <3> QED
      BY <2>5, <2>6, <3>1
  <2>7. Good(g, m + 1)
    BY <2>2, <2>6
  <2> QED
    BY <2>7
<1>3. T = Nat
  <2> HIDE DEF T
  <2>1. T \in SUBSET Nat
    BY DEF T
  <2> QED
    BY <1>1, <1>2, <2>1, SetInduction
<1>4. PICK f : Good(f, MaxDepth + 1)
  <2>1. MaxDepth + 1 \in T
    BY <1>0, <1>3
  <2> HIDE DEF Good
  <2> QED
    BY <2>1
<1> DEFINE g == [d \in 0 .. MaxDepth + 1 |-> f[d]]
<1>5. ASSUME NEW d \in 0 .. MaxDepth + 1
      PROVE  g[d] = [n \in DOMAIN heap |-> Translated(heap, n, d, g)]
  <2>1. d \in Nat /\ MaxDepth + 1 - (MaxDepth + 1) <= d /\ d <= MaxDepth + 1
    BY <1>0
  <2>2. f[d] = [n \in DOMAIN heap |-> Translated(heap, n, d, f)]
    BY <1>4, <2>1
  <2>3. \A e \in Nat : d < e /\ e <= MaxDepth => f[e] = g[e]
    BY <1>0
  <2> HIDE DEF g
  <2>4. ASSUME NEW n \in DOMAIN heap PROVE Translated(heap, n, d, f) = Translated(heap, n, d, g)
    BY <2>1, <2>3, TranslatedAgrees
  <2>5. g[d] = f[d]
    BY DEF g
  <2> QED
    BY <2>2, <2>4, <2>5
<1>6. Deeper(heap, g)
  BY <1>5 DEF Deeper
<1> QED
  BY <1>6 DEF SafeOf

-----------------------------------------------------------------------------
(***************************************************************************)
(* What is reached from a place.                                           *)
(***************************************************************************)
Origin == [path |-> <<>>, node |-> Root, depth |-> 0]
Places(heap) == [path : Seq(Nat), node : DOMAIN heap, depth : Nat]

Further(heap, S) == UNION {Children(heap, y) : y \in {z \in S : Opened(heap, z)}}

Leveled(heap, x, f) ==
    f = [k \in 0 .. MaxDepth |-> IF k = 0 THEN {x} ELSE Further(heap, f[k - 1])]

LevelsOf(heap, x) == CHOOSE f : Leveled(heap, x, f)
Reach(heap, x) == UNION {LevelsOf(heap, x)[k] : k \in 0 .. MaxDepth}

LEMMA VisitedIsReach ==
  ASSUME NEW heap
  PROVE  Visited(heap) = Reach(heap, Origin)
BY DEF Visited, Reach, LevelsOf, Leveled, Further, Origin

LEMMA LevelsUnfold ==
  ASSUME NEW heap, NEW x
  PROVE  /\ LevelsOf(heap, x)[0] = {x}
         /\ \A k \in Nat : k + 1 <= MaxDepth =>
                LevelsOf(heap, x)[k + 1] = Further(heap, LevelsOf(heap, x)[k])
<1> DEFINE Is(f, m) == f = [k \in 0 .. m |-> IF k = 0 THEN {x} ELSE Further(heap, f[k - 1])]
           T == {m \in Nat : \E f : Is(f, m)}
<1>0. MaxDepth \in Nat
  BY LimitsAssumption
<1>1. 0 \in T
  <2>1. Is([k \in 0 .. 0 |-> {x}], 0)
    OBVIOUS
  <2> QED
    BY <2>1
<1>2. ASSUME NEW m \in T PROVE m + 1 \in T
  <2>1. PICK f : Is(f, m)
    OBVIOUS
  <2> DEFINE g == [k \in 0 .. m + 1 |-> IF k = m + 1 THEN Further(heap, f[m]) ELSE f[k]]
  <2>2. Is(g, m + 1)
    <3>1. \A k \in 0 .. m : f[k] = IF k = 0 THEN {x} ELSE Further(heap, f[k - 1])
      BY <2>1
    <3>2. ASSUME NEW k \in 0 .. m + 1
          PROVE  g[k] = IF k = 0 THEN {x} ELSE Further(heap, g[k - 1])
      <4>1. CASE k = m + 1
        BY <4>1
      <4>2. CASE k # m + 1 /\ k # 0
        <5>1. k \in 0 .. m /\ k - 1 \in 0 .. m /\ k - 1 # m + 1
          BY <4>2
        <5>2. g[k] = f[k] /\ g[k - 1] = f[k - 1]
          BY <4>2, <5>1
        <5> QED
          BY <3>1, <4>2, <5>1, <5>2
      <4>3. CASE k = 0
        BY <3>1, <4>3
      <4> QED
        BY <4>1, <4>2, <4>3
    <3> QED
      BY <3>2
  <2> HIDE DEF g, Is
  <2> QED
    BY <2>2
<1>3. T = Nat
  <2> HIDE DEF T
  <2>1. T \in SUBSET Nat
    BY DEF T
  <2> QED
    BY <1>1, <1>2, <2>1, SetInduction
<1>4. \E f : Is(f, MaxDepth)
  BY <1>0, <1>3
<1>5. Is(LevelsOf(heap, x), MaxDepth)
  BY <1>4 DEF LevelsOf, Leveled
<1> DEFINE level == LevelsOf(heap, x)
<1>6. \A k \in 0 .. MaxDepth : level[k] = IF k = 0 THEN {x} ELSE Further(heap, level[k - 1])
  <2> HIDE DEF level
  <2> QED
    BY <1>5 DEF level
<1>7. level[0] = {x}
  BY <1>0, <1>6
<1>8. ASSUME NEW k \in Nat, k + 1 <= MaxDepth PROVE level[k + 1] = Further(heap, level[k])
  <2>1. k + 1 \in 0 .. MaxDepth /\ k + 1 # 0 /\ (k + 1) - 1 = k
    BY <1>0, <1>8
  <2> QED
    BY <1>6, <2>1
<1> QED
  BY <1>7, <1>8

\* The items of a container lie deeper, within MaxDepth.
LEMMA ChildrenDeeper ==
  ASSUME NEW heap \in Heaps, NEW x \in Places(heap), Opened(heap, x),
         NEW y \in Children(heap, x)
  PROVE  y \in Places(heap) /\ x.depth < y.depth /\ y.depth <= MaxDepth
<1> DEFINE w == Weight(Kind(heap, x.node))
           items == Items(heap, x.node)
<1>0. w \in 1 .. 2 /\ MaxDepth \in Nat
  BY LimitsAssumption DEF Weight
<1>1. /\ items \in Seq(DOMAIN heap) /\ x.depth \in Nat /\ x.path \in Seq(Nat)
      /\ x.depth + w <= MaxDepth
  BY HeapsAssumption DEF Places, Opened, Fits
<1>2. PICK i \in DOMAIN items :
         y = [path |-> Append(x.path, i), node |-> items[i], depth |-> x.depth + w]
  BY DEF Children
<1> HIDE DEF w, items
<1>3. i \in Nat /\ items[i] \in DOMAIN heap
  BY <1>1
<1>4. Append(x.path, i) \in Seq(Nat)
  BY <1>1, <1>3
<1>5. x.depth + w \in Nat /\ x.depth < x.depth + w
  BY <1>0, <1>1
<1> QED
  BY <1>1, <1>2, <1>3, <1>4, <1>5 DEF Places

\* The k-th level is at least k deep.
LEMMA LevelsDeep ==
  ASSUME NEW heap \in Heaps, NEW x \in Places(heap)
  PROVE  \A k \in Nat : k <= MaxDepth =>
             \A y \in LevelsOf(heap, x)[k] : y \in Places(heap) /\ k <= y.depth
<1> DEFINE level == LevelsOf(heap, x)
           T == {k \in Nat : k <= MaxDepth => \A y \in level[k] : y \in Places(heap) /\ k <= y.depth}
<1>0. /\ MaxDepth \in Nat /\ level[0] = {x}
      /\ \A k \in Nat : k + 1 <= MaxDepth => level[k + 1] = Further(heap, level[k])
  BY LevelsUnfold, LimitsAssumption
<1> HIDE DEF level
<1>1. 0 \in T
  BY <1>0 DEF Places
<1>2. ASSUME NEW k \in T PROVE k + 1 \in T
  <2> SUFFICES ASSUME k + 1 <= MaxDepth, NEW y \in level[k + 1]
               PROVE  y \in Places(heap) /\ k + 1 <= y.depth
    OBVIOUS
  <2>1. PICK z \in level[k] : Opened(heap, z) /\ y \in Children(heap, z)
    BY <1>0 DEF Further
  <2>2. z \in Places(heap) /\ k <= z.depth
    BY <1>0, <2>1
  <2>3. y \in Places(heap) /\ z.depth < y.depth
    BY <2>1, <2>2, ChildrenDeeper
  <2>4. k \in Nat /\ z.depth \in Nat /\ y.depth \in Nat
    BY <2>2, <2>3 DEF Places
  <2> QED
    BY <2>2, <2>3, <2>4
<1>3. T = Nat
  <2> HIDE DEF T
  <2>1. T \in SUBSET Nat
    BY DEF T
  <2> QED
    BY <1>1, <1>2, <2>1, SetInduction
<1> QED
  BY <1>3 DEF level

Closed(heap, S) == \A y \in S : Opened(heap, y) => Children(heap, y) \subseteq S

\* What is reached is closed: the deepest containers lie above MaxDepth.
LEMMA ReachClosed ==
  ASSUME NEW heap \in Heaps, NEW x \in Places(heap)
  PROVE  x \in Reach(heap, x) /\ Closed(heap, Reach(heap, x)) /\ Reach(heap, x) \subseteq Places(heap)
<1> DEFINE level == LevelsOf(heap, x)
<1>0. /\ MaxDepth \in Nat /\ level[0] = {x}
      /\ \A k \in Nat : k + 1 <= MaxDepth => level[k + 1] = Further(heap, level[k])
  BY LevelsUnfold, LimitsAssumption
<1>1. \A k \in Nat : k <= MaxDepth => \A y \in level[k] : y \in Places(heap) /\ k <= y.depth
  BY LevelsDeep
<1>2. Reach(heap, x) = UNION {level[k] : k \in 0 .. MaxDepth}
  BY DEF Reach
<1> HIDE DEF level
<1>3. x \in Reach(heap, x) /\ Reach(heap, x) \subseteq Places(heap)
  BY <1>0, <1>1, <1>2
<1>4. ASSUME NEW y \in Reach(heap, x), Opened(heap, y), NEW z \in Children(heap, y)
      PROVE  z \in Reach(heap, x)
  <2>1. PICK k \in 0 .. MaxDepth : y \in level[k]
    BY <1>2
  <2>2. y \in Places(heap) /\ k <= y.depth
    BY <1>0, <1>1, <2>1
  <2>3. y.depth < z.depth /\ z.depth <= MaxDepth /\ z.depth \in Nat /\ y.depth \in Nat
    BY <1>4, <2>2, ChildrenDeeper DEF Places
  <2>4. k \in Nat /\ k + 1 <= MaxDepth /\ k + 1 \in 0 .. MaxDepth
    BY <1>0, <2>2, <2>3
  <2>5. z \in level[k + 1]
    BY <1>0, <1>4, <2>1, <2>4 DEF Further
  <2> QED
    BY <1>2, <2>4, <2>5
<1> QED
  BY <1>3, <1>4 DEF Closed

\* It is the least set that is closed.
LEMMA ReachLeast ==
  ASSUME NEW heap \in Heaps, NEW x, NEW S, x \in S, Closed(heap, S)
  PROVE  Reach(heap, x) \subseteq S
<1> DEFINE level == LevelsOf(heap, x)
           T == {k \in Nat : k <= MaxDepth => level[k] \subseteq S}
<1>0. /\ MaxDepth \in Nat /\ level[0] = {x}
      /\ \A k \in Nat : k + 1 <= MaxDepth => level[k + 1] = Further(heap, level[k])
  BY LevelsUnfold, LimitsAssumption
<1> HIDE DEF level
<1>1. 0 \in T
  BY <1>0
<1>2. ASSUME NEW k \in T PROVE k + 1 \in T
  <2> SUFFICES ASSUME k + 1 <= MaxDepth, NEW y \in level[k + 1] PROVE y \in S
    OBVIOUS
  <2>1. PICK z \in level[k] : Opened(heap, z) /\ y \in Children(heap, z)
    BY <1>0 DEF Further
  <2>2. z \in S
    BY <1>0, <2>1
  <2> QED
    BY <2>1, <2>2 DEF Closed
<1>3. T = Nat
  <2> HIDE DEF T
  <2>1. T \in SUBSET Nat
    BY DEF T
  <2> QED
    BY <1>1, <1>2, <2>1, SetInduction
<1> QED
  BY <1>0, <1>3 DEF Reach, level

\* From a place one reaches the place, and what its items reach if it is opened.
LEMMA ReachUnfolds ==
  ASSUME NEW heap \in Heaps, NEW x \in Places(heap)
  PROVE  /\ ~Opened(heap, x) => Reach(heap, x) = {x}
         /\ Opened(heap, x) =>
                Reach(heap, x) = {x} \cup UNION {Reach(heap, c) : c \in Children(heap, x)}
<1>1. x \in Reach(heap, x) /\ Closed(heap, Reach(heap, x))
  BY ReachClosed
<1>2. ASSUME ~Opened(heap, x) PROVE Reach(heap, x) = {x}
  <2>1. Closed(heap, {x})
    BY <1>2 DEF Closed
  <2> QED
    BY <1>1, <2>1, ReachLeast
<1>3. ASSUME Opened(heap, x)
      PROVE  Reach(heap, x) = {x} \cup UNION {Reach(heap, c) : c \in Children(heap, x)}
  <2> DEFINE all == {x} \cup UNION {Reach(heap, c) : c \in Children(heap, x)}
  <2>1. \A c \in Children(heap, x) : c \in Places(heap)
    BY <1>3, ChildrenDeeper
  <2>2. \A c \in Children(heap, x) : c \in Reach(heap, c) /\ Closed(heap, Reach(heap, c))
    BY <2>1, ReachClosed
  <2>3. ASSUME NEW c \in Children(heap, x) PROVE Reach(heap, c) \subseteq Reach(heap, x)
    <3>1. c \in Reach(heap, x)
      BY <1>1, <1>3 DEF Closed
    <3> QED
      BY <1>1, <3>1, ReachLeast
  <2>4. Closed(heap, all)
    <3> SUFFICES ASSUME NEW y \in all, Opened(heap, y), NEW z \in Children(heap, y) PROVE z \in all
      BY DEF Closed
    <3>1. CASE y = x
      BY <2>2, <3>1
    <3>2. CASE y # x
      <4>1. PICK c \in Children(heap, x) : y \in Reach(heap, c)
        BY <3>2
      <4>2. z \in Reach(heap, c)
        BY <2>2, <4>1 DEF Closed
      <4> QED
        BY <4>1, <4>2
    <3> QED
      BY <3>1, <3>2
  <2>5. Reach(heap, x) \subseteq all
    BY <2>4, ReachLeast
  <2> QED
    BY <1>1, <2>3, <2>5
<1> QED
  BY <1>2, <1>3

-----------------------------------------------------------------------------
(***************************************************************************)
(* The translation of a place is exact about what is reached from it.      *)
(***************************************************************************)
Joined(p, q) == p \o q
Single(i) == <<i>>
None == <<>>
Showable(heap, y) == Kind(heap, y.node) = "longText" \/ Whole(heap, y)

LEMMA JoinedNone ==
  ASSUME NEW p \in Seq(Nat)
  PROVE  None \in Seq(Nat) /\ Joined(p, None) = p /\ Joined(None, p) = p
BY EmptySeq, ConcatEmptySeq DEF Joined, None

LEMMA JoinedSingle ==
  ASSUME NEW p \in Seq(Nat), NEW q \in Seq(Nat), NEW i \in Nat
  PROVE  /\ Joined(Single(i), q) \in Seq(Nat)
         /\ Joined(p, Joined(Single(i), q)) = Joined(Append(p, i), q)
<1>1. Single(i) \in Seq(Nat)
  BY DEF Single
<1>2. Append(p, i) = Joined(p, Single(i))
  BY AppendIsConcat DEF Joined, Single
<1>3. Joined(Single(i), q) \in Seq(Nat)
  BY <1>1, ConcatProperties DEF Joined
<1>4. Joined(Joined(p, Single(i)), q) = Joined(p, Joined(Single(i), q))
  BY <1>1, ConcatAssociative DEF Joined
<1> QED
  BY <1>2, <1>3, <1>4

\* got is what becomes of place x.
Exact(heap, x, got) ==
    /\ got.failed <=> \E y \in Reach(heap, x) : Untranslatable(heap, y)
    /\ ~got.failed =>
         /\ got.cut <=> \E y \in Reach(heap, x) : Shortened(heap, y)
         /\ got.shown \subseteq Seq(Nat) \X DOMAIN heap
         /\ \A p \in Seq(Nat), n \in DOMAIN heap :
                (\E s \in got.shown : Joined(x.path, s[1]) = p /\ s[2] = n)
                    <=> (\E y \in Reach(heap, x) : Showable(heap, y) /\ y.path = p /\ y.node = n)

Got(heap, x) == SafeOf(heap)[x.depth][x.node]

LEMMA GotIs ==
  ASSUME NEW heap \in Heaps, NEW x \in Places(heap), x.depth <= MaxDepth
  PROVE  Got(heap, x) = Translated(heap, x.node, x.depth, SafeOf(heap))
<1> DEFINE f == SafeOf(heap)
<1>1. f = [depth \in 0 .. MaxDepth + 1 |-> [n \in DOMAIN heap |-> Translated(heap, n, depth, f)]]
  BY SafeUnfolds DEF Deeper
<1>2. x.depth \in 0 .. MaxDepth + 1 /\ x.node \in DOMAIN heap
  BY LimitsAssumption DEF Places
<1> HIDE DEF f
<1>3. f[x.depth] = [n \in DOMAIN heap |-> Translated(heap, n, x.depth, f)]
  BY <1>1, <1>2
<1>4. f[x.depth][x.node] = Translated(heap, x.node, x.depth, f)
  BY <1>2, <1>3
<1> QED
  BY <1>4 DEF Got, f

\* The kinds a place may have, and what they mean for it.
LEMMA PlaceKinds ==
  ASSUME NEW heap \in Heaps, NEW x \in Places(heap)
  PROVE  /\ Kind(heap, x.node) \in Kinds
         /\ Fits(heap, x) <=> Whether(heap, x.node, x.depth)
         /\ Opened(heap, x) <=>
                /\ Kind(heap, x.node) \in {"record", "mapping", "list", "oddMapping"}
                /\ Fits(heap, x)
<1>1. x.node \in DOMAIN heap
  BY DEF Places
<1> QED
  BY <1>1, HeapsAssumption DEF Fits, Whether, Opened, Containers

LEMMA LeafFields ==
  ASSUME NEW n, NEW cut
  PROVE  /\ Leaf(n, cut).failed = FALSE
         /\ Leaf(n, cut).cut = cut
         /\ Leaf(n, cut).shown = {<<None, n>>}
BY Zenon DEF Leaf, None

\* A value that is not opened.
LEMMA ExactAlone ==
  ASSUME NEW heap \in Heaps, NEW x \in Places(heap), x.depth <= MaxDepth, ~Opened(heap, x)
  PROVE  Exact(heap, x, Got(heap, x))
<1>0. Reach(heap, x) = {x}
  BY ReachUnfolds
<1> DEFINE k == Kind(heap, x.node)
           got == Got(heap, x)
<1>1. /\ k \in Kinds /\ x.node \in DOMAIN heap /\ x.depth \in Nat /\ x.path \in Seq(Nat)
      /\ Fits(heap, x) <=> Whether(heap, x.node, x.depth)
      /\ ~(k \in {"record", "mapping", "list", "oddMapping"} /\ Fits(heap, x))
  BY PlaceKinds DEF Places
<1>2. /\ k \in Scalars => got = Leaf(x.node, k = "longText")
      /\ k = "nan" => got = Refused
      /\ k \notin Scalars \cup {"nan"} /\ ~Fits(heap, x) => got = TooDeepMarker
      /\ k = "opaque" /\ Fits(heap, x) => got = Refused
  BY <1>1, GotIs, TranslatedCases
<1>3. /\ Untranslatable(heap, x) <=> k = "nan" \/ (k = "opaque" /\ Fits(heap, x))
      /\ Whole(heap, x) <=> k \in {"scalar", "text"}
      /\ Shortened(heap, x) <=> k \notin {"scalar", "text"}
      /\ Showable(heap, x) <=> k \in Scalars
  BY <1>1 DEF Untranslatable, Whole, Shortened, Showable, Scalars
<1>4. Joined(x.path, None) = x.path /\ None \in Seq(Nat)
  BY <1>1, JoinedNone
<1> HIDE DEF k, got
<1>5. CASE k \in Scalars
  <2>1. /\ got.failed = FALSE
        /\ got.cut <=> k = "longText"
        /\ got.shown = {<<None, x.node>>}
    <3>1. PICK c : c = (k = "longText")
      OBVIOUS
    <3>2. got = Leaf(x.node, c)
      BY <1>2, <1>5, <3>1
    <3>3. got.cut = c /\ got.failed = FALSE /\ got.shown = {<<None, x.node>>}
      BY <3>2, LeafFields
    <3> QED
      BY <3>1, <3>3, Zenon
  <2>2. k \in {"scalar", "text", "longText"}
    BY <1>5 DEF Scalars
  <2>3. /\ ~Untranslatable(heap, x)
        /\ got.cut <=> Shortened(heap, x)
        /\ Showable(heap, x)
    BY <1>3, <1>5, <2>1, <2>2
  <2>4. got.shown \subseteq Seq(Nat) \X DOMAIN heap
    BY <1>1, <1>4, <2>1
  <2>5. \A p \in Seq(Nat), n \in DOMAIN heap :
            (\E s \in got.shown : Joined(x.path, s[1]) = p /\ s[2] = n)
                <=> (\E y \in {x} : Showable(heap, y) /\ y.path = p /\ y.node = n)
    BY <1>4, <2>1, <2>3
  <2> QED
    BY <1>0, <2>1, <2>3, <2>4, <2>5 DEF Exact, got
<1>6. CASE k \notin Scalars \cup {"nan"} /\ ~Fits(heap, x)
  <2>1. got.failed = FALSE /\ got.cut = TRUE /\ got.shown = {}
    BY <1>2, <1>6 DEF TooDeepMarker
  <2>2. ~Untranslatable(heap, x) /\ Shortened(heap, x) /\ ~Showable(heap, x)
    BY <1>3, <1>6 DEF Scalars
  <2> QED
    BY <1>0, <2>1, <2>2 DEF Exact, got
<1>7. CASE k = "nan" \/ (k = "opaque" /\ Fits(heap, x))
  <2>1. got.failed = TRUE
    BY <1>2, <1>7 DEF Refused
  <2>2. Untranslatable(heap, x)
    BY <1>3, <1>7
  <2> QED
    BY <1>0, <2>1, <2>2 DEF Exact, got
<1> QED
  BY <1>1, <1>5, <1>6, <1>7 DEF Kinds, Containers

\* An opened value, from its items.
LEMMA ExactOpened ==
  ASSUME NEW heap \in Heaps, NEW x \in Places(heap), x.depth <= MaxDepth, Opened(heap, x),
         \A c \in Children(heap, x) : Exact(heap, c, Got(heap, c))
  PROVE  Exact(heap, x, Got(heap, x))
<1> DEFINE k == Kind(heap, x.node)
           w == Weight(Kind(heap, x.node))
           items == Items(heap, x.node)
           first == FirstItems(heap, x.node)
           child(i) == [path |-> Append(x.path, i), node |-> Items(heap, x.node)[i],
                        depth |-> x.depth + Weight(Kind(heap, x.node))]
           parts == Parts(heap, x.node, x.depth + Weight(Kind(heap, x.node)), SafeOf(heap))
           got == Got(heap, x)
           more == Len(Items(heap, x.node)) > MaxItems
<1>0. Reach(heap, x) = {x} \cup UNION {Reach(heap, c) : c \in Children(heap, x)}
  BY ReachUnfolds
<1>1. /\ k \in {"record", "mapping", "list", "oddMapping"} /\ Whether(heap, x.node, x.depth)
      /\ x.node \in DOMAIN heap /\ x.depth \in Nat /\ x.path \in Seq(Nat)
      /\ Fits(heap, x)
  BY PlaceKinds DEF Places
<1>2. Children(heap, x) = {child(i) : i \in first}
  BY DEF Children, FirstItems
<1>3. \A i \in first : parts[i] = Got(heap, child(i))
  BY DEF Parts, Got
<1>4. DOMAIN parts = first
  BY DEF Parts
<1>5. items \in Seq(DOMAIN heap) /\ first \subseteq Nat /\ \A i \in first : items[i] \in DOMAIN heap
  BY <1>1, HeapsAssumption DEF FirstItems
<1>6. CASE k = "oddMapping" /\ items # <<>>
  <2>1. got = Refused
    BY <1>1, <1>6, GotIs, TranslatedCases
  <2>2. got.failed = TRUE
    BY <2>1 DEF Refused
  <2>3. Untranslatable(heap, x)
    BY <1>1, <1>6 DEF Untranslatable
  <2> QED
    BY <1>0, <2>2, <2>3 DEF Exact
<1>7. CASE ~(k = "oddMapping" /\ items # <<>>)
  <2>1. Openable(heap, x.node)
    BY <1>1, <1>7 DEF Openable
  <2>2. got = Collected(x.node, parts, more)
    BY <1>1, <2>1, GotIs, TranslatedCases
  <2>3. /\ ~Untranslatable(heap, x) /\ Showable(heap, x)
        /\ Shortened(heap, x) <=> more
    <3>1. ~Untranslatable(heap, x)
      BY <1>1, <1>7 DEF Untranslatable
    <3>2. Whole(heap, x) /\ k # "longText"
      BY <1>1 DEF Whole
    <3> QED
      BY <3>1, <3>2 DEF Showable, Shortened
  <2> HIDE DEF k, w, items, first, parts, got, more
  <2>4. \A i \in first : Exact(heap, child(i), parts[i])
    BY <1>2, <1>3
  <2>5. \A y : y \in Reach(heap, x) <=> y = x \/ \E i \in first : y \in Reach(heap, child(i))
    BY <1>0, <1>2
  <2>6. \A i \in first : child(i).path = Append(x.path, i)
    OBVIOUS
  <2> HIDE DEF child
  <2>7. /\ (\E i \in first : parts[i].failed) => got.failed = TRUE
        /\ ~(\E i \in first : parts[i].failed) =>
               /\ got.failed = FALSE
               /\ got.cut <=> more \/ \E i \in first : parts[i].cut
               /\ got.shown = {<<None, x.node>>}
                                  \cup UNION {Below(i, parts[i].shown) : i \in first}
    BY <1>4, <2>2 DEF Collected, Refused, None
  <2>8. \A i \in first : parts[i].failed <=> \E y \in Reach(heap, child(i)) : Untranslatable(heap, y)
    BY <2>4 DEF Exact
  <2>9. got.failed <=> \E y \in Reach(heap, x) : Untranslatable(heap, y)
    BY <2>3, <2>5, <2>7, <2>8
  <2>10. ASSUME ~got.failed
         PROVE  /\ got.cut <=> \E y \in Reach(heap, x) : Shortened(heap, y)
                /\ got.shown \subseteq Seq(Nat) \X DOMAIN heap
                /\ \A p \in Seq(Nat), n \in DOMAIN heap :
                       (\E s \in got.shown : Joined(x.path, s[1]) = p /\ s[2] = n)
                           <=> (\E y \in Reach(heap, x) : Showable(heap, y) /\ y.path = p /\ y.node = n)
    <3>1. \A i \in first : ~parts[i].failed
      BY <2>7, <2>10
    <3>2. \A i \in first :
              /\ parts[i].cut <=> \E y \in Reach(heap, child(i)) : Shortened(heap, y)
              /\ parts[i].shown \subseteq Seq(Nat) \X DOMAIN heap
              /\ \A p \in Seq(Nat), n \in DOMAIN heap :
                     (\E s \in parts[i].shown : Joined(Append(x.path, i), s[1]) = p /\ s[2] = n)
                         <=> (\E y \in Reach(heap, child(i)) :
                                  Showable(heap, y) /\ y.path = p /\ y.node = n)
      <4> SUFFICES ASSUME NEW i \in first
                   PROVE  /\ parts[i].cut <=> \E y \in Reach(heap, child(i)) : Shortened(heap, y)
                          /\ parts[i].shown \subseteq Seq(Nat) \X DOMAIN heap
                          /\ \A p \in Seq(Nat), n \in DOMAIN heap :
                                 (\E s \in parts[i].shown : Joined(Append(x.path, i), s[1]) = p /\ s[2] = n)
                                     <=> (\E y \in Reach(heap, child(i)) :
                                              Showable(heap, y) /\ y.path = p /\ y.node = n)
        OBVIOUS
      <4>1. Exact(heap, child(i), parts[i]) /\ ~parts[i].failed /\ child(i).path = Append(x.path, i)
        BY <2>4, <2>6, <3>1
      <4> QED
        BY <4>1 DEF Exact
    <3>3. /\ got.cut <=> more \/ \E i \in first : parts[i].cut
          /\ got.shown = {<<None, x.node>>} \cup UNION {Below(i, parts[i].shown) : i \in first}
      BY <2>7, <3>1
    <3>4. got.cut <=> \E y \in Reach(heap, x) : Shortened(heap, y)
      BY <2>3, <2>5, <3>2, <3>3
    <3>5. ASSUME NEW i \in first, NEW s \in Below(i, parts[i].shown)
          PROVE  \E t \in parts[i].shown :
                     /\ t \in Seq(Nat) \X DOMAIN heap
                     /\ s = <<Joined(Single(i), t[1]), t[2]>>
      BY <3>2 DEF Below, Joined, Single
    <3>6. ASSUME NEW i \in first, NEW t \in parts[i].shown
          PROVE  <<Joined(Single(i), t[1]), t[2]>> \in Below(i, parts[i].shown)
      BY DEF Below, Joined, Single
    <3>7. ASSUME NEW i \in first, NEW t \in parts[i].shown
          PROVE  /\ t[1] \in Seq(Nat) /\ t[2] \in DOMAIN heap
                 /\ Joined(Single(i), t[1]) \in Seq(Nat)
                 /\ Joined(x.path, Joined(Single(i), t[1])) = Joined(Append(x.path, i), t[1])
      <4>1. t \in Seq(Nat) \X DOMAIN heap
        BY <3>2
      <4>2. t[1] \in Seq(Nat) /\ t[2] \in DOMAIN heap /\ i \in Nat
        BY <1>5, <4>1
      <4> QED
        BY <1>1, <4>2, JoinedSingle
    <3>8. Joined(x.path, None) = x.path /\ None \in Seq(Nat)
      BY <1>1, JoinedNone
    <3>9. got.shown \subseteq Seq(Nat) \X DOMAIN heap
      <4> SUFFICES ASSUME NEW s \in got.shown PROVE s \in Seq(Nat) \X DOMAIN heap
        OBVIOUS
      <4>1. CASE s = <<None, x.node>>
        BY <1>1, <3>8, <4>1
      <4>2. CASE s # <<None, x.node>>
        <5>1. PICK i \in first : s \in Below(i, parts[i].shown)
          BY <3>3, <4>2
        <5>2. PICK t \in parts[i].shown : s = <<Joined(Single(i), t[1]), t[2]>>
          BY <3>5, <5>1
        <5> QED
          BY <3>7, <5>2
      <4> QED
        BY <4>1, <4>2
    <3>10. ASSUME NEW p \in Seq(Nat), NEW n \in DOMAIN heap, NEW s \in got.shown,
                  Joined(x.path, s[1]) = p, s[2] = n
           PROVE  \E y \in Reach(heap, x) : Showable(heap, y) /\ y.path = p /\ y.node = n
      <4>1. CASE s = <<None, x.node>>
        <5>1. x.path = p /\ x.node = n
          BY <3>8, <3>10, <4>1
        <5> QED
          BY <2>3, <2>5, <5>1
      <4>2. CASE s # <<None, x.node>>
        <5>1. PICK i \in first : s \in Below(i, parts[i].shown)
          BY <3>3, <4>2
        <5>2. PICK t \in parts[i].shown : s = <<Joined(Single(i), t[1]), t[2]>>
          BY <3>5, <5>1
        <5>3. Joined(Append(x.path, i), t[1]) = p /\ t[2] = n
          BY <3>7, <3>10, <5>2
        <5>4. PICK y \in Reach(heap, child(i)) : Showable(heap, y) /\ y.path = p /\ y.node = n
          BY <3>2, <5>3
        <5> QED
          BY <2>5, <5>4
      <4> QED
        BY <4>1, <4>2
    <3>11. ASSUME NEW p \in Seq(Nat), NEW n \in DOMAIN heap, NEW y \in Reach(heap, x),
                  Showable(heap, y), y.path = p, y.node = n
           PROVE  \E s \in got.shown : Joined(x.path, s[1]) = p /\ s[2] = n
      <4>1. CASE y = x
        <5>1. <<None, x.node>> \in got.shown
          BY <3>3
        <5> QED
          BY <3>8, <3>11, <4>1, <5>1
      <4>2. CASE y # x
        <5>1. PICK i \in first : y \in Reach(heap, child(i))
          BY <2>5, <4>2
        <5>2. PICK t \in parts[i].shown : Joined(Append(x.path, i), t[1]) = p /\ t[2] = n
          BY <3>2, <3>11, <5>1
        <5>3. <<Joined(Single(i), t[1]), t[2]>> \in got.shown
          BY <3>3, <3>6
        <5>4. Joined(x.path, Joined(Single(i), t[1])) = p
          BY <3>7, <5>2
        <5> QED
          BY <5>2, <5>3, <5>4
      <4> QED
        BY <4>1, <4>2
    <3> QED
      BY <3>4, <3>9, <3>10, <3>11
  <2> QED
    BY <2>9, <2>10 DEF Exact, got
<1> QED
  BY <1>6, <1>7

\* By induction on what is left of MaxDepth.
LEMMA ExactEverywhere ==
  ASSUME NEW heap \in Heaps, NEW x \in Places(heap), x.depth <= MaxDepth
  PROVE  Exact(heap, x, Got(heap, x))
<1> DEFINE T == {m \in Nat : \A y \in Places(heap) :
                    y.depth <= MaxDepth /\ MaxDepth - y.depth <= m => Exact(heap, y, Got(heap, y))}
<1>0. MaxDepth \in Nat /\ \A y \in Places(heap) : y.depth \in Nat
  BY LimitsAssumption DEF Places
<1>1. 0 \in T
  <2> SUFFICES ASSUME NEW y \in Places(heap), y.depth <= MaxDepth, MaxDepth - y.depth <= 0
               PROVE  Exact(heap, y, Got(heap, y))
    OBVIOUS
  <2>1. ~Fits(heap, y)
    BY <1>0 DEF Fits, Weight
  <2>2. ~Opened(heap, y)
    BY <2>1 DEF Opened
  <2> QED
    BY <2>2, ExactAlone
<1>2. ASSUME NEW m \in T PROVE m + 1 \in T
  <2> SUFFICES ASSUME NEW y \in Places(heap), y.depth <= MaxDepth, MaxDepth - y.depth <= m + 1
               PROVE  Exact(heap, y, Got(heap, y))
    OBVIOUS
  <2>1. CASE ~Opened(heap, y)
    BY <2>1, ExactAlone
  <2>2. CASE Opened(heap, y)
    <3>1. ASSUME NEW c \in Children(heap, y) PROVE Exact(heap, c, Got(heap, c))
      <4>1. c \in Places(heap) /\ y.depth < c.depth /\ c.depth <= MaxDepth
        BY <2>2, ChildrenDeeper
      <4>2. MaxDepth - c.depth <= m
        BY <1>0, <4>1
      <4> QED
        BY <4>1, <4>2
    <3> QED
      BY <2>2, <3>1, ExactOpened
  <2> QED
    BY <2>1, <2>2
<1>3. T = Nat
  <2> HIDE DEF T
  <2>1. T \in SUBSET Nat
    BY DEF T
  <2> QED
    BY <1>1, <1>2, <2>1, SetInduction
<1>4. MaxDepth - x.depth \in T
  BY <1>0, <1>3
<1> QED
  BY <1>0, <1>4

\* The translation of any heap, cycles included, for any limits on items and
\* depth: it is refused if and only if it meets something that has no JSON form,
\* and otherwise shows everything within the limits at its place, nothing else,
\* and says so if anything is missing.
THEOREM TranslationIsExact == TranslationExact
<1> SUFFICES ASSUME NEW heap \in Heaps
             PROVE  LET got     == JsonSafe(heap)
                        visited == Visited(heap)
                    IN /\ got.failed <=> \E x \in visited : Untranslatable(heap, x)
                       /\ ~got.failed =>
                            /\ got.cut <=> \E x \in visited : Shortened(heap, x)
                            /\ got.shown = {<<x.path, x.node>> :
                                   x \in {y \in visited : Kind(heap, y.node) = "longText" \/ Whole(heap, y)}}
  BY DEF TranslationExact
<1> DEFINE got == JsonSafe(heap)
           visited == Visited(heap)
<1>1. /\ Origin \in Places(heap) /\ Origin.depth <= MaxDepth
      /\ Origin.path = None /\ Origin.depth = 0 /\ Origin.node = Root
  <2>1. <<>> \in Seq(Nat) /\ Root \in DOMAIN heap /\ MaxDepth \in Nat
    BY EmptySeq, HeapsAssumption, LimitsAssumption
  <2> QED
    BY <2>1 DEF Origin, Places, None
<1>2. got = Got(heap, Origin)
  BY <1>1, JsonSafeIs DEF Got
<1>3. Exact(heap, Origin, got)
  BY <1>1, <1>2, ExactEverywhere
<1>4. visited = Reach(heap, Origin)
  BY VisitedIsReach
<1>5. visited \subseteq Places(heap)
  BY <1>1, <1>4, ReachClosed
<1> HIDE DEF got, visited
<1>6. got.failed <=> \E x \in visited : Untranslatable(heap, x)
  BY <1>3, <1>4 DEF Exact
<1>7. ASSUME ~got.failed
      PROVE  /\ got.cut <=> \E x \in visited : Shortened(heap, x)
             /\ got.shown = {<<x.path, x.node>> : x \in {y \in visited : Showable(heap, y)}}
  <2>1. /\ got.cut <=> \E x \in visited : Shortened(heap, x)
        /\ got.shown \subseteq Seq(Nat) \X DOMAIN heap
        /\ \A p \in Seq(Nat), n \in DOMAIN heap :
               (\E s \in got.shown : Joined(None, s[1]) = p /\ s[2] = n)
                   <=> (\E y \in visited : Showable(heap, y) /\ y.path = p /\ y.node = n)
    BY <1>1, <1>3, <1>4, <1>7 DEF Exact
  <2>2. ASSUME NEW s \in got.shown
        PROVE  s \in {<<x.path, x.node>> : x \in {y \in visited : Showable(heap, y)}}
    <3>1. s \in Seq(Nat) \X DOMAIN heap
      BY <2>1
    <3>2. s[1] \in Seq(Nat) /\ s[2] \in DOMAIN heap /\ s = <<s[1], s[2]>>
      BY <3>1
    <3>3. Joined(None, s[1]) = s[1]
      BY <3>2, JoinedNone
    <3>4. PICK y \in visited : Showable(heap, y) /\ y.path = s[1] /\ y.node = s[2]
      BY <2>1, <3>2, <3>3
    <3> QED
      BY <3>2, <3>4
  <2>3. ASSUME NEW y \in visited, Showable(heap, y) PROVE <<y.path, y.node>> \in got.shown
    <3>1. y.path \in Seq(Nat) /\ y.node \in DOMAIN heap
      BY <1>5 DEF Places
    <3>2. PICK s \in got.shown : Joined(None, s[1]) = y.path /\ s[2] = y.node
      BY <2>1, <2>3, <3>1
    <3>3. s \in Seq(Nat) \X DOMAIN heap
      BY <2>1
    <3>4. s[1] \in Seq(Nat) /\ s = <<s[1], s[2]>>
      BY <3>3
    <3>5. Joined(None, s[1]) = s[1]
      BY <3>4, JoinedNone
    <3> QED
      BY <3>2, <3>4, <3>5
  <2> QED
    BY <2>1, <2>2, <2>3
<1> QED
  BY <1>6, <1>7 DEF Showable, got, visited

\* Whatever an execution that was answered results in, its translation is exact.
THEOREM ResultsAlwaysExact == Spec => []ResultsExact
<1>1. ResultsExact
  BY TranslationIsExact DEF ResultsExact
<1> QED BY <1>1, PTL
=============================================================================
