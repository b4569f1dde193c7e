---------------------------- MODULE UserOutput ----------------------------
(***************************************************************************)
(* Where the output of user code goes, and what a response says of it.     *)
(*                                                                         *)
(* sys.stdout belongs to the process.  _run_in_owner redirects it to a     *)
(* stream that discards, and _execute_in_owner to a BoundedTextSink of the *)
(* execution.  Threads of user code print at any time, during their        *)
(* execution, a later one or none: print looks sys.stdout up and writes to *)
(* what it finds.  A write is cut into the stretches that CPython runs     *)
(* without switching threads, which it does around calls.  User code that  *)
(* runs in the middle of a write (a finalizer, a method of a subclass of   *)
(* str) and prints there counts as a thread of its own; the user code that *)
(* runs inside publish may print, and publish, on the same thread.  stderr *)
(* is the same with sinks of its own.  User code that assigns sys.stdout   *)
(* itself is not modelled.                                                 *)
(*                                                                         *)
(* Texts are their lengths.                                                *)
(***************************************************************************)
EXTENDS Naturals, Sequences, JsonTranslation

CONSTANTS
    Threads,     \* threads of user code, Main among them
    Main,        \* the owner thread, which runs the code of the operation
    Lengths,     \* lengths of what is printed
    Limit,       \* config.max_text_chars
    MaxDisplay,  \* config.max_display_items
    MaxExecutions, MaxPrints   \* bounds for TLC

ASSUME OutputAssumption ==
    /\ Main \in Threads
    /\ Lengths \subseteq Nat \ {0}
    /\ Limit \in Nat \ {0} /\ MaxDisplay \in Nat
    /\ MaxExecutions \in Nat /\ MaxPrints \in Nat

VARIABLES
    phase,     \* where the owner stands
    stdout,    \* sys.stdout: Protocol, Discard, or the sink of an execution
    saved,     \* what the redirections in force put back, outermost first
    execution, \* _execution_count; executions number the sinks
    sink,      \* the BoundedTextSink of each execution, and its displays
    pen,       \* where each thread stands in print
    showing,   \* the executions for which each thread is inside publish
    response,  \* what each execution's response says
    prints     \* number of prints and displays so far

vars == <<phase, stdout, saved, execution, sink, pen, showing, response, prints>>

Executions == 1 .. MaxExecutions
Protocol == 0
Discard == MaxExecutions + 1
\* `held` is the length of _parts.  History: `own` is what Main printed, `cut`
\* that a text was shortened, `gap` that another followed it, `overlapped` that
\* two writes, or a write and the making of the response, met in this sink, and
\* `crossed` that a display passed the limit while another was yet to be stored.
NewSink == [held |-> 0, retained |-> 0, total |-> 0, displays |-> 0, displaysCut |-> FALSE,
            own |-> 0, cut |-> FALSE, gap |-> FALSE,
            overlapped |-> FALSE, crossed |-> FALSE]
NoResponse == [text |-> 0, truncated |-> FALSE, omitted |-> 0, written |-> 0]
Resting == [at |-> "rest"]

Init ==
    /\ phase = "idle" /\ stdout = Protocol /\ saved = <<>>
    /\ execution = 0
    /\ sink = [n \in Executions |-> NewSink]
    /\ pen = [t \in Threads |-> Resting]
    /\ showing = [t \in Threads |-> <<>>]
    /\ response = [n \in Executions |-> NoResponse]
    /\ prints = 0

(***************************************************************************)
(* The owner.                                                              *)
(***************************************************************************)
Redirect(to) == stdout' = to /\ saved' = Append(saved, stdout)

\* A mutation: the stream found first is put back by every redirection.
PutBackFirst ==
    /\ stdout' = Head(saved)
    /\ saved' = SubSeq(saved, 1, Len(saved) - 1)

PutBack ==
    /\ stdout' = saved[Len(saved)]
    /\ saved' = SubSeq(saved, 1, Len(saved) - 1)

BeginOperation ==
    /\ phase = "idle"
    /\ phase' = "body"
    /\ Redirect(Discard)
    /\ UNCHANGED <<execution, sink, pen, showing, response, prints>>

BeginCell ==
    /\ phase = "body" /\ pen[Main] = Resting /\ execution < MaxExecutions
    /\ phase' = "cell"
    /\ execution' = execution + 1
    /\ Redirect(execution + 1)
    /\ UNCHANGED <<sink, pen, showing, response, prints>>

\* The cell has ended, with an exception or not.
EndCell ==
    /\ phase = "cell" /\ pen[Main] = Resting /\ showing[Main] = <<>>
    /\ phase' = "text"
    /\ PutBack
    /\ UNCHANGED <<execution, sink, pen, showing, response, prints>>

\* Who is inside the sink n, or about to store a display of the execution n.
Inside(t, n) == pen[t].at \in {"count", "store"} /\ pen[t].to = n
Busy(n) == \E t \in Threads : Inside(t, n)
MeetsAnother(t, n) == \E u \in Threads \ {t} : Inside(u, n)
Displaying(t, n) == \E i \in DOMAIN showing[t] : showing[t][i] = n

Omitted(n) == sink[n].total - sink[n].retained

Read(from, to, field, value) ==
    /\ phase = from
    /\ phase' = to
    /\ response' = [response EXCEPT ![execution][field] = value]
    /\ sink' = [sink EXCEPT ![execution].overlapped = @ \/ Busy(execution)]
    /\ UNCHANGED <<stdout, saved, execution, pen, showing, prints>>

\* getvalue, truncated and omitted_characters, one after the other.
ReadText ==
    /\ phase = "text"
    /\ phase' = "flag"
    /\ response' = [response EXCEPT ![execution] =
           [@ EXCEPT !.text = sink[execution].held, !.written = sink[execution].total]]
    /\ sink' = [sink EXCEPT ![execution].overlapped = @ \/ Busy(execution)]
    /\ UNCHANGED <<stdout, saved, execution, pen, showing, prints>>
ReadFlag == Read("flag", "omitted", "truncated", Omitted(execution) > 0)
ReadOmitted == Read("omitted", "refresh", "omitted", Omitted(execution))

\* An operation other than execute ends after its body.
EndOperation ==
    /\ phase \in {"body", "refresh"} /\ pen[Main] = Resting
    /\ phase' = "idle"
    /\ PutBack
    /\ UNCHANGED <<execution, sink, pen, showing, response, prints>>

(***************************************************************************)
(* Threads of user code.  Main runs it in the body of an operation, in a   *)
(* cell, and where the refresh reads user objects.                         *)
(***************************************************************************)
Runs(t) == t = Main => phase \in {"body", "cell", "refresh"}

Begins(t, doing) ==
    /\ pen[t] = Resting /\ Runs(t) /\ prints < MaxPrints
    /\ prints' = prints + 1
    /\ pen' = [pen EXCEPT ![t] = doing]

\* print looks up sys.stdout.
StartPrint(t) ==
    /\ \E length \in Lengths :
           Begins(t, [at |-> "append", to |-> stdout, length |-> length])
    /\ UNCHANGED <<phase, stdout, saved, execution, sink, showing, response>>

\* What is written elsewhere is none of a sink's business.
WriteElsewhere(t) ==
    /\ pen[t].at = "append" /\ pen[t].to \notin Executions
    /\ pen' = [pen EXCEPT ![t] = Resting]
    /\ UNCHANGED <<phase, stdout, saved, execution, sink, showing, response, prints>>

\* A mutation: a piece that does not fit is dropped.
KeptIfItFits(length, room) == IF room >= length THEN length ELSE 0

Kept(length, room) == IF room > 0 /\ room < length THEN room
                      ELSE IF room > 0 THEN length ELSE 0

Room(s) == IF s.retained < Limit THEN Limit - s.retained ELSE 0

\* A mutation: what is dropped is not counted.
WrittenUncounted(s, t, length, kept) ==
    [s EXCEPT !.total = @ + kept, !.held = @ + kept,
              !.own = @ + (IF t = Main THEN length ELSE 0),
              !.cut = @ \/ kept < length, !.gap = @ \/ (s.cut /\ kept > 0)]

Written(s, t, length, kept) ==
    [s EXCEPT !.total = @ + length, !.held = @ + kept,
              !.own = @ + (IF t = Main THEN length ELSE 0),
              !.cut = @ \/ kept < length, !.gap = @ \/ (s.cut /\ kept > 0)]

\* BoundedTextSink.write up to _parts.append.
Write(t) ==
    /\ pen[t].at = "append" /\ pen[t].to \in Executions
    /\ LET n    == pen[t].to
           kept == Kept(pen[t].length, Room(sink[n]))
       IN /\ sink' = [sink EXCEPT ![n] =
                 [Written(sink[n], t, pen[t].length, kept) EXCEPT
                      !.overlapped = sink[n].overlapped \/ MeetsAnother(t, n)
                                     \/ (n = execution /\ phase \in {"flag", "omitted"})]]
          /\ pen' = [pen EXCEPT ![t] = IF kept = 0 THEN Resting
                                       ELSE [at |-> "count", to |-> n, kept |-> kept]]
    /\ UNCHANGED <<phase, stdout, saved, execution, showing, response, prints>>

\* retained_characters += len(retained): the call of len is between the load
\* and the store.
Load(t) ==
    /\ pen[t].at = "count"
    /\ pen' = [pen EXCEPT ![t] = [at |-> "store", to |-> pen[t].to,
                                  sum |-> sink[pen[t].to].retained + pen[t].kept]]
    /\ UNCHANGED <<phase, stdout, saved, execution, sink, showing, response, prints>>

Store(t) ==
    /\ pen[t].at = "store"
    /\ sink' = [sink EXCEPT ![pen[t].to].retained = pen[t].sum]
    /\ pen' = [pen EXCEPT ![t] = Resting]
    /\ UNCHANGED <<phase, stdout, saved, execution, showing, response, prints>>

\* publish, which only a cell installs, up to the translation of its data.  The
\* translation may run user code, which prints or publishes in turn.
StartDisplay(t) ==
    /\ phase = "cell" /\ Begins(t, Resting)
    /\ LET full == sink[execution].displays >= MaxDisplay
       IN /\ showing' = [showing EXCEPT ![t] = IF full THEN @ ELSE Append(@, execution)]
          /\ sink' = [sink EXCEPT ![execution] =
                 [sink[execution] EXCEPT
                     !.displaysCut = sink[execution].displaysCut \/ full,
                     !.crossed = sink[execution].crossed
                                 \/ (~full /\ \E u \in Threads : Displaying(u, execution))]]
    /\ UNCHANGED <<phase, stdout, saved, execution, response>>

\* The innermost publish of a thread stores its display, unless the user code of
\* the translation raised.
Show(t) ==
    /\ pen[t] = Resting /\ showing[t] # <<>>
    /\ showing' = [showing EXCEPT ![t] = SubSeq(@, 1, Len(@) - 1)]
    /\ \/ sink' = [sink EXCEPT ![showing[t][Len(showing[t])]].displays = @ + 1]
       \/ UNCHANGED sink
    /\ UNCHANGED <<phase, stdout, saved, execution, pen, response, prints>>

Next ==
    \/ BeginOperation \/ BeginCell \/ EndCell
    \/ ReadText \/ ReadFlag \/ ReadOmitted \/ EndOperation
    \/ \E t \in Threads :
           \/ StartPrint(t) \/ WriteElsewhere(t) \/ Write(t) \/ Load(t) \/ Store(t)
           \/ StartDisplay(t) \/ Show(t)

Spec == Init /\ [][Next]_vars

-----------------------------------------------------------------------------
(***************************************************************************)
(* Properties.                                                             *)
(***************************************************************************)

\* Executions whose response is complete.
Answered == 1 .. (IF phase \in {"cell", "text", "flag", "omitted"} THEN execution - 1 ELSE execution)

\* Whatever threads do to each other, what was printed before the text was
\* taken is in it or counted as omitted, all that the cell itself printed
\* included, and no flag is missing: the error is always on the safe side.
NothingUnaccounted ==
    \A n \in Answered :
        /\ response[n].text + response[n].omitted >= response[n].written
        /\ response[n].written >= sink[n].own
        /\ response[n].text < response[n].written =>
               response[n].truncated /\ response[n].omitted > 0

\* If no two writes met in a sink, it holds a prefix of what was printed, cut at
\* the limit, and the count of omitted characters is exact and agrees with the
\* flag; if no display passed the limit while another was yet to be stored, the
\* displays are within the limit (README.md:225-227).  Neither holds without its
\* condition: publish tests the limit before it translates the data, and nested
\* or concurrent displays can all pass the test for the last place.
ExactUnlessOverlapped ==
    \A n \in Answered :
        /\ ~sink[n].overlapped =>
               /\ ~sink[n].gap
               /\ response[n].text = IF response[n].written < Limit THEN response[n].written ELSE Limit
               /\ response[n].omitted = response[n].written - response[n].text
               /\ response[n].truncated <=> response[n].omitted > 0
        /\ ~sink[n].crossed => sink[n].displays <= MaxDisplay

\* The result of an execution that was answered is translated exactly, whatever
\* value it is: see TranslationExact.
ResultsExact == Answered # {} => TranslationExact

\* What is printed while an operation runs, by its own code or by a thread, is
\* never on the protocol's stream: not between the cell and the end of the
\* operation either (README.md:39-43).
ProtocolKept ==
    [][\A t \in Threads :
           pen[t] = Resting /\ pen'[t].at = "append" /\ phase # "idle"
               => pen'[t].to # Protocol]_vars
=============================================================================
