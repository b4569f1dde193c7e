----------------------- MODULE CatalogServiceProofs -----------------------
(***************************************************************************)
(* The catalog and its client, for any number of requests and of changes.  *)
(* What a client may miss is an inductive matter: a catalog leaves the     *)
(* owner with evidence of it (a flag, a report, a notification, a list to  *)
(* come), and each step hands the evidence on or records that it was lost. *)
(***************************************************************************)
EXTENDS CatalogService, TLAPS

\* What the cache lacks is flagged until it is published, and the request that
\* runs is one that still waits for it or was cancelled.
FlagInv ==
    /\ ~changed => version = cache
    /\ stage \in {"idle", "result", "exception"} => version = cache
    /\ stage = "idle" => ~changed
    /\ stage # "idle" => handler[running] \in {"running", "over"}

Inv == TypeOK /\ FlagInv

LEMMA InvInit == Init => Inv
<1> SUFFICES ASSUME Init PROVE Inv
  OBVIOUS
<1>1. /\ queue \in Seq(Requests)
      /\ wire \in Seq(Nat \cup {Changed})
      /\ \A i \in 1 .. Len(wire) : wire[i] = Changed \/ wire[i] <= cache
  BY DEF Init
<1>2. report \in [Requests -> 0 .. cache] /\ cache \in 0 .. version
  BY DEF Init
<1>3. handler \in [Requests -> {"new", "queued", "running", "answered", "notify", "over"}]
  BY DEF Init
<1>4. answer \in 0 .. cache /\ view \in 0 .. cache /\ silenced \subseteq 1 .. cache
  BY DEF Init
<1>5. stage = "idle" <=> running = NoRequest
  BY DEF Init
<1> QED
  BY <1>1, <1>2, <1>3, <1>4, <1>5 DEF Init, Inv, TypeOK, FlagInv

\* Sequences: a message appended at the end, and one taken from the front.
LEMMA Appended ==
  ASSUME NEW S, NEW s \in Seq(S), NEW e \in S
  PROVE  /\ Append(s, e) \in Seq(S)
         /\ Len(Append(s, e)) = Len(s) + 1
         /\ \A i \in 1 .. Len(s) : Append(s, e)[i] = s[i]
         /\ Append(s, e)[Len(s) + 1] = e
  OBVIOUS

LEMMA Taken ==
  ASSUME NEW S, NEW s \in Seq(S), s # <<>>
  PROVE  /\ Head(s) \in S /\ Head(s) = s[1]
         /\ Tail(s) \in Seq(S)
         /\ Len(s) \in Nat \ {0} /\ Len(Tail(s)) = Len(s) - 1
         /\ \A i \in 1 .. Len(Tail(s)) : Tail(s)[i] = s[i + 1]
  OBVIOUS

LEMMA InvStep == Inv /\ [Next]_vars => Inv'
<1> SUFFICES ASSUME Inv, [Next]_vars PROVE Inv'
  OBVIOUS
<1> USE ServiceAssumption DEF Inv, FlagInv
<1>1. ASSUME NEW r \in Requests, Call(r) PROVE Inv'
  <2>1. queue' \in Seq(Requests)
    BY <1>1, Appended DEF Call, TypeOK
  <2> QED
    BY <1>1, <2>1 DEF Call, TypeOK, owner, client
<1>2. ASSUME NEW r \in Requests, Cancel(r) PROVE Inv'
  <2>1. UNCHANGED <<owner, queue, report, client>> /\ silenced' = silenced \cup ({report[r]} \ {0})
    BY <1>2 DEF Cancel, Drop
  <2>2. silenced \subseteq 1 .. cache /\ (report[r] # 0 => report[r] \in 1 .. cache)
    BY DEF TypeOK
  <2>3. silenced' \subseteq 1 .. cache
    BY <2>1, <2>2
  <2> QED
    BY <1>2, <2>1, <2>3 DEF Cancel, TypeOK, owner, client
<1>3. ASSUME NEW r \in Requests, Resume(r) PROVE Inv'
  BY <1>3 DEF Resume, TypeOK, owner, client
<1>4. ASSUME NEW r \in Requests, Send(r) PROVE Inv'
  <2>1. /\ wire' \in Seq(Nat \cup {Changed})
        /\ \A i \in 1 .. Len(wire') : wire'[i] = Changed \/ wire'[i] <= cache
    BY <1>4, Appended DEF Send, TypeOK
  <2> QED
    BY <1>4, <2>1 DEF Send, TypeOK, owner
<1>5. ASSUME NEW r \in Requests, SendFails(r) PROVE Inv'
  <2>1. UNCHANGED <<owner, queue, report, client>> /\ silenced' = silenced \cup ({report[r]} \ {0})
    BY <1>5 DEF SendFails, Drop
  <2>2. silenced \subseteq 1 .. cache /\ (report[r] # 0 => report[r] \in 1 .. cache)
    BY DEF TypeOK
  <2>3. silenced' \subseteq 1 .. cache
    BY <2>1, <2>2
  <2> QED
    BY <1>5, <2>1, <2>3 DEF SendFails, TypeOK, owner, client
<1>6. CASE Skip
  <2>1. queue' \in Seq(Requests)
    BY <1>6, Taken DEF Skip, TypeOK
  <2> QED
    BY <1>6, <2>1 DEF Skip, TypeOK, owner, client
<1>7. CASE Take
  <2>1. queue' \in Seq(Requests) /\ Head(queue) \in Requests
    BY <1>7, Taken DEF Take, TypeOK
  <2> QED
    BY <1>7, <2>1 DEF Take, TypeOK, client
<1>8. CASE Change
  BY <1>8 DEF Change, TypeOK, client
<1>9. CASE Finish
  BY <1>9 DEF Finish, TypeOK, client
<1>10. CASE Publish
  <2>1. cache <= cache' /\ cache' = version
    BY <1>10 DEF Publish, TypeOK
  <2>2. \A i \in 1 .. Len(wire) : wire[i] = Changed \/ wire[i] <= cache'
    <3> TAKE i \in 1 .. Len(wire)
    <3>1. wire[i] = Changed \/ wire[i] \in Nat
      BY DEF TypeOK
    <3> QED
      BY <2>1, <3>1 DEF TypeOK
  <2>3. report' \in [Requests -> 0 .. cache']
    BY <1>10, <2>1 DEF Publish, TypeOK
  <2> QED
    BY <1>10, <2>1, <2>2, <2>3 DEF Publish, TypeOK, client
<1>11. CASE Complete
  <2> DEFINE heard == stage = "result" /\ handler[running] = "running"
             v     == IF changed THEN cache ELSE 0
  <2>1. running \in Requests /\ v \in 0 .. cache
    BY <1>11 DEF Complete, TypeOK
  <2>2. report' = [report EXCEPT ![running] = IF heard THEN v ELSE 0]
    BY <1>11 DEF Complete
  <2>3. report' \in [Requests -> 0 .. cache]
    BY <2>1, <2>2 DEF TypeOK
  <2>4. silenced' \subseteq 1 .. cache
    BY <1>11, <2>1 DEF Complete, Drop, TypeOK
  <2>5. handler' \in [Requests -> {"new", "queued", "running", "answered", "notify", "over"}]
    BY <1>11 DEF Complete, TypeOK
  <2> QED
    BY <1>11, <2>3, <2>4, <2>5 DEF Complete, TypeOK, client
<1>12. CASE AskList
  BY <1>12 DEF AskList, TypeOK, owner
<1>16. CASE ListRead
  BY <1>16 DEF ListRead, TypeOK, owner
<1>13. CASE ListRespond
  <2>1. /\ wire' \in Seq(Nat \cup {Changed})
        /\ \A i \in 1 .. Len(wire') : wire'[i] = Changed \/ wire'[i] <= cache
    BY <1>13, Appended DEF ListRespond, TypeOK
  <2> QED
    BY <1>13, <2>1 DEF ListRespond, TypeOK, owner
<1>14. CASE ReceiveList \/ ReceiveChanged
  <2>1. wire # <<>> /\ wire' = Tail(wire)
    BY <1>14 DEF ReceiveList, ReceiveChanged
  <2>2. /\ wire' \in Seq(Nat \cup {Changed})
        /\ \A i \in 1 .. Len(wire') : wire'[i] = Changed \/ wire'[i] <= cache
    BY <2>1, Taken DEF TypeOK
  <2>3. Head(wire) = Changed \/ Head(wire) \in 0 .. cache
    BY <2>1, Taken DEF TypeOK
  <2>4. CASE ReceiveList
    BY <2>4, <2>2, <2>3 DEF ReceiveList, TypeOK, owner
  <2>5. CASE ReceiveChanged
    BY <2>5, <2>2, <2>3 DEF ReceiveChanged, TypeOK, owner
  <2> QED
    BY <1>14, <2>4, <2>5
<1>15. CASE UNCHANGED vars
  BY <1>15 DEF vars, owner, client, TypeOK
<1> QED
  BY <1>1, <1>2, <1>3, <1>4, <1>5, <1>6, <1>7, <1>8, <1>9, <1>10, <1>11,
     <1>12, <1>13, <1>14, <1>15, <1>16 DEF Next

-----------------------------------------------------------------------------
\* One list at a time is under way, and it is no older than the client's.
ListInv ==
    /\ listing = "read" => answer >= view
    /\ \A i \in 1 .. Len(wire) : wire[i] # Changed => listing = "sent" /\ wire[i] >= view
    /\ \A i, j \in 1 .. Len(wire) : wire[i] # Changed /\ wire[j] # Changed => i = j

LEMMA ListInit == Init => ListInv
  BY DEF Init, ListInv

LEMMA ListStep == TypeOK /\ ListInv /\ [Next]_vars => ListInv'
<1> SUFFICES ASSUME TypeOK, ListInv, [Next]_vars PROVE ListInv'
  OBVIOUS
<1> USE ServiceAssumption
<1>1. ASSUME UNCHANGED client PROVE ListInv'
  BY <1>1 DEF client, ListInv
<1>2. CASE Skip \/ Take \/ Change \/ Finish \/ Publish \/ Complete \/ UNCHANGED vars
  BY <1>1, <1>2 DEF Skip, Take, Change, Finish, Publish, Complete, vars
<1>3. ASSUME NEW r \in Requests, Call(r) \/ Cancel(r) \/ Resume(r) \/ SendFails(r)
      PROVE  ListInv'
  BY <1>1, <1>3 DEF Call, Cancel, Resume, SendFails
<1>4. ASSUME NEW e \in Nat \cup {Changed}, wire' = Append(wire, e), UNCHANGED view,
             IF e = Changed THEN UNCHANGED <<listing, answer>>
             ELSE listing = "read" /\ listing' = "sent" /\ e = answer
      PROVE  ListInv'
  <2>1. /\ Len(wire) \in Nat /\ Len(wire') = Len(wire) + 1
        /\ \A i \in 1 .. Len(wire) : wire'[i] = wire[i]
        /\ wire'[Len(wire) + 1] = e
    BY <1>4, Appended DEF TypeOK
  <2>2. \A i \in 1 .. Len(wire') : i \in 1 .. Len(wire) \/ i = Len(wire) + 1
    BY <2>1
  <2>3. CASE e = Changed
    BY <1>4, <2>1, <2>2, <2>3 DEF ListInv
  <2>4. CASE e # Changed
    <3>1. \A i \in 1 .. Len(wire) : wire[i] = Changed
      BY <1>4, <2>4 DEF ListInv
    <3> QED
      BY <1>4, <2>1, <2>2, <2>4, <3>1 DEF ListInv
  <2> QED
    BY <2>3, <2>4
<1>5. ASSUME NEW r \in Requests, Send(r) PROVE ListInv'
  BY <1>4, <1>5 DEF Send
<1>6. CASE ListRespond
  <2>1. answer \in Nat /\ answer # Changed
    BY DEF TypeOK
  <2> QED
    BY <1>4, <1>6, <2>1 DEF ListRespond
<1>7. CASE AskList
  BY <1>7 DEF AskList, ListInv
<1>8. CASE ListRead
  BY <1>8 DEF ListRead, ListInv, TypeOK
<1>9. CASE ReceiveList \/ ReceiveChanged
  <2>1. wire # <<>> /\ wire' = Tail(wire)
    BY <1>9 DEF ReceiveList, ReceiveChanged
  <2>2. /\ Head(wire) = wire[1] /\ Len(wire) \in Nat \ {0}
        /\ \A i \in 1 .. Len(wire') : i + 1 \in 1 .. Len(wire) /\ i + 1 # 1 /\ wire'[i] = wire[i + 1]
    BY <2>1, Taken DEF TypeOK
  <2>3. CASE ReceiveChanged
    BY <2>2, <2>3 DEF ReceiveChanged, ListInv
  <2>4. CASE ReceiveList
    <3>1. \A i \in 1 .. Len(wire') : wire'[i] = Changed
      BY <2>2, <2>4 DEF ReceiveList, ListInv
    <3> QED
      BY <2>4, <3>1 DEF ReceiveList, ListInv
  <2> QED
    BY <1>9, <2>3, <2>4
<1> QED
  BY <1>2, <1>3, <1>5, <1>6, <1>7, <1>8, <1>9 DEF Next

(***************************************************************************)
(* Evidence of the published catalog.                                      *)
(***************************************************************************)
Evidence == dirty \/ Notified \/ Listed \/ Reporting \/ cache \in silenced

\* Type correctness of the service, and nothing reported, listed or seen that
\* was not published (ListRead reads the cache, not the registry).
THEOREM ServiceTypeCorrect == Spec => []TypeOK
<1>1. Inv => TypeOK
  BY DEF Inv
<1> QED
  BY <1>1, InvInit, InvStep, PTL DEF Spec

\* A message at the end of the wire hides none that was there.
LEMMA AppendKeepsEvidence ==
  ASSUME TypeOK, NEW e \in Nat \cup {Changed}, wire' = Append(wire, e), cache' = cache
  PROVE  /\ Notified => Notified'
         /\ (\E i \in 1 .. Len(wire) : wire[i] # Changed /\ wire[i] >= cache)
              => \E i \in 1 .. Len(wire') : wire'[i] # Changed /\ wire'[i] >= cache'
         /\ \E i \in 1 .. Len(wire') : wire'[i] = e
<1>1. /\ Len(wire) \in Nat /\ Len(wire') = Len(wire) + 1
      /\ \A i \in 1 .. Len(wire) : wire'[i] = wire[i]
      /\ wire'[Len(wire) + 1] = e
  BY Appended DEF TypeOK
<1>2. \A i \in 1 .. Len(wire) : i \in 1 .. Len(wire')
  BY <1>1
<1>3. Len(wire) + 1 \in 1 .. Len(wire')
  BY <1>1
<1> QED
  BY <1>1, <1>2, <1>3 DEF Notified

\* A message taken from the front is the only one that goes.
LEMMA TailKeepsEvidence ==
  ASSUME TypeOK, wire # <<>>, wire' = Tail(wire), cache' = cache
  PROVE  /\ Notified => Notified' \/ Head(wire) = Changed
         /\ (\E i \in 1 .. Len(wire) : wire[i] # Changed /\ wire[i] >= cache)
              => \/ Head(wire) # Changed /\ Head(wire) >= cache
                 \/ \E i \in 1 .. Len(wire') : wire'[i] # Changed /\ wire'[i] >= cache'
<1>1. /\ Head(wire) = wire[1] /\ Len(wire) \in Nat \ {0}
      /\ Len(wire') = Len(wire) - 1
      /\ \A i \in 1 .. Len(wire') : wire'[i] = wire[i + 1]
  BY Taken DEF TypeOK
<1>2. ASSUME NEW i \in 1 .. Len(wire), i # 1
      PROVE  i - 1 \in 1 .. Len(wire') /\ wire'[i - 1] = wire[i]
  BY <1>1, <1>2
<1> QED
  BY <1>1, <1>2 DEF Notified

\* A step that publishes nothing keeps the promise if it keeps the evidence.
LEMMA Handed ==
  ASSUME TypeOK, TypeOK', BehindOnlyIfSilenced, cache' = cache, view' >= view \/ view' >= cache,
         Evidence /\ view < cache => Evidence' \/ view' >= cache
  PROVE  BehindOnlyIfSilenced'
  BY DEF BehindOnlyIfSilenced, Evidence, TypeOK

LEMMA EvidenceStep == Inv /\ ListInv /\ BehindOnlyIfSilenced /\ [Next]_vars => BehindOnlyIfSilenced'
<1> SUFFICES ASSUME Inv, ListInv, BehindOnlyIfSilenced, [Next]_vars PROVE BehindOnlyIfSilenced'
  OBVIOUS
<1> USE ServiceAssumption
<1>0. TypeOK /\ TypeOK'
  BY InvStep DEF Inv
<1>1. ASSUME NEW r \in Requests, Call(r) PROVE BehindOnlyIfSilenced'
  <2>1. Reporting => Reporting'
    BY <1>0, <1>1 DEF Call, Reporting, owner, TypeOK
  <2> QED
    BY <1>0, <1>1, <2>1, Handed DEF Call, Evidence, Notified, Listed, owner, client, TypeOK
<1>2. ASSUME NEW r \in Requests, Cancel(r) \/ SendFails(r) PROVE BehindOnlyIfSilenced'
  <2>1. Drop(report[r]) /\ UNCHANGED <<owner, report, client>>
    BY <1>2 DEF Cancel, SendFails
  <2>2. \A q \in Requests : q # r => handler'[q] = handler[q]
    BY <1>0, <1>2 DEF Cancel, SendFails, TypeOK
  <2>3. view < cache => cache # 0
    BY <1>0 DEF TypeOK
  <2>4. view < cache /\ Reporting => Reporting' \/ cache \in silenced'
    BY <2>1, <2>2, <2>3 DEF Reporting, Drop, owner
  <2>5. cache \in silenced => cache \in silenced'
    BY <2>1 DEF Drop
  <2> QED
    BY <1>0, <2>1, <2>4, <2>5, Handed DEF Evidence, Notified, Listed, owner, client, TypeOK
<1>3. ASSUME NEW r \in Requests, Resume(r) PROVE BehindOnlyIfSilenced'
  <2>1. view < cache => cache # 0
    BY <1>0 DEF TypeOK
  <2>2. view < cache /\ Reporting => Reporting'
    BY <1>0, <1>3, <2>1 DEF Resume, Reporting, owner, TypeOK
  <2> QED
    BY <1>0, <1>3, <2>2, Handed DEF Resume, Evidence, Notified, Listed, owner, client, TypeOK
<1>4. ASSUME NEW r \in Requests, Send(r) PROVE BehindOnlyIfSilenced'
  <2>1. Notified'
    BY <1>0, <1>4, AppendKeepsEvidence DEF Send, Notified, owner
  <2> QED
    BY <2>1 DEF BehindOnlyIfSilenced
<1>5. CASE Skip \/ Change \/ Finish
  <2>1. UNCHANGED <<cache, handler, report, client, silenced>>
    BY <1>5 DEF Skip, Change, Finish, owner
  <2>2. Reporting => Reporting'
    BY <1>0, <1>5, <2>1 DEF Skip, Change, Finish, Reporting, owner
  <2> QED
    BY <1>0, <2>1, <2>2, Handed DEF Evidence, Notified, Listed, client, TypeOK
<1>6. CASE Take
  <2>1. UNCHANGED <<cache, report, client, silenced>> /\ stage = "idle"
    BY <1>6 DEF Take
  <2>2. \A q \in Requests : handler[q] \in {"answered", "notify"} => handler'[q] = handler[q]
    BY <1>0, <1>6 DEF Take, TypeOK
  <2>3. Reporting => Reporting'
    BY <2>1, <2>2 DEF Reporting
  <2> QED
    BY <1>0, <2>1, <2>3, Handed DEF Evidence, Notified, Listed, client, TypeOK
<1>7. CASE Publish
  <2>1. CASE changed
    BY <1>7, <2>1 DEF Publish, BehindOnlyIfSilenced, Reporting
  <2>2. CASE ~changed
    <3>1. UNCHANGED <<cache, handler, report, client, silenced>>
      BY <1>7, <2>2 DEF Publish, Inv, FlagInv
    <3>2. Reporting => Reporting'
      BY <2>2, <3>1 DEF Reporting
    <3> QED
      BY <1>0, <3>1, <3>2, Handed DEF Evidence, Notified, Listed, client, TypeOK
  <2> QED
    BY <2>1, <2>2
<1>8. CASE Complete
  <2>1. /\ UNCHANGED <<cache, client>>
        /\ running \in Requests /\ handler[running] \in {"running", "over"}
    BY <1>0, <1>8 DEF Complete, Inv, FlagInv, TypeOK
  <2>2. CASE changed /\ stage = "result" /\ handler[running] = "running"
    <3>1. handler'[running] = "answered" /\ report'[running] = cache
      BY <1>0, <1>8, <2>1, <2>2 DEF Complete, TypeOK
    <3> QED
      BY <2>1, <3>1 DEF BehindOnlyIfSilenced, Reporting
  <2>3. CASE changed /\ ~(stage = "result" /\ handler[running] = "running")
    <3>1. Drop(cache)
      BY <1>8, <2>3 DEF Complete
    <3>2. view < cache => cache # 0
      BY <1>0 DEF TypeOK
    <3>3. cache # 0 => cache \in silenced'
      BY <3>1 DEF Drop
    <3> QED
      BY <2>1, <3>2, <3>3 DEF BehindOnlyIfSilenced, client
  <2>4. CASE ~changed
    <3>1. Drop(0)
      BY <1>8, <2>4 DEF Complete
    <3>2. silenced' = silenced
      BY <2>1, <3>1 DEF Drop
    <3>3. \A q \in Requests : q # running => handler'[q] = handler[q] /\ report'[q] = report[q]
      BY <1>0, <1>8 DEF Complete, TypeOK
    <3>4. Reporting => Reporting'
      BY <2>1, <2>4, <3>3 DEF Reporting
    <3> QED
      BY <1>0, <2>1, <3>2, <3>4, Handed DEF Evidence, Notified, Listed, client, TypeOK
  <2> QED
    BY <2>2, <2>3, <2>4
<1>9. CASE AskList \/ ListRead
  <2>1. UNCHANGED <<cache, view, wire, stage, changed, handler, report, silenced>>
    BY <1>9 DEF AskList, ListRead, owner
  <2>2. dirty => dirty' \/ Listed'
    BY <1>9 DEF AskList, ListRead, Listed
  <2>3. Listed => Listed'
    BY <1>0, <1>9, <2>1 DEF AskList, ListRead, Listed, TypeOK
  <2> QED
    BY <1>0, <2>1, <2>2, <2>3, Handed DEF Evidence, Notified, Reporting, TypeOK
<1>10. CASE ListRespond
  <2>1. /\ UNCHANGED <<cache, view, dirty, stage, changed, handler, report, silenced>>
        /\ wire' = Append(wire, answer) /\ answer \in Nat
    BY <1>0, <1>10 DEF ListRespond, owner, TypeOK
  <2>2. Notified => Notified'
    BY <1>0, <2>1, AppendKeepsEvidence
  <2>3. Listed => Listed'
    BY <1>0, <1>10, <2>1, AppendKeepsEvidence DEF ListRespond, Listed
  <2> QED
    BY <1>0, <2>1, <2>2, <2>3, Handed DEF Evidence, Reporting, TypeOK
<1>11. CASE ReceiveList
  <2>1. /\ UNCHANGED <<cache, dirty, stage, changed, handler, report, silenced>>
        /\ wire # <<>> /\ wire' = Tail(wire) /\ Head(wire) # Changed
        /\ view' = Head(wire) /\ listing = "sent"
    BY <1>11 DEF ReceiveList, owner
  <2>2. Notified => Notified'
    BY <1>0, <2>1, TailKeepsEvidence
  <2>3. Listed => Listed' \/ view' >= cache
    BY <1>0, <2>1, TailKeepsEvidence DEF Listed
  <2>4. view' >= view
    <3>1. wire[1] = Head(wire) /\ 1 \in 1 .. Len(wire)
      BY <1>0, <2>1, Taken DEF TypeOK
    <3> QED
      BY <2>1, <3>1 DEF ListInv
  <2> QED
    BY <1>0, <2>1, <2>2, <2>3, <2>4, Handed DEF Evidence, Reporting, TypeOK
<1>12. CASE ReceiveChanged
  BY <1>12 DEF ReceiveChanged, BehindOnlyIfSilenced
<1>13. CASE UNCHANGED vars
  BY <1>13 DEF vars, owner, client, BehindOnlyIfSilenced, Notified, Listed, Reporting
<1> QED
  BY <1>1, <1>2, <1>3, <1>4, <1>5, <1>6, <1>7, <1>8, <1>9, <1>10, <1>11,
     <1>12, <1>13 DEF Next

\* Whatever the order of publications, notifications, lists and cancellations,
\* a client that is behind will hear of the published catalog or was deprived
\* of the report on that very catalog.
THEOREM AlwaysBehindOnlyIfSilenced == Spec => []BehindOnlyIfSilenced
<1>1. Init => BehindOnlyIfSilenced
  BY DEF Init, BehindOnlyIfSilenced
<1> QED
  BY <1>1, InvInit, InvStep, ListInit, ListStep, EvidenceStep, PTL DEF Spec, Inv
=============================================================================
