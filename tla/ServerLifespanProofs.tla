------------------------ MODULE ServerLifespanProofs ------------------------
(***************************************************************************)
(* Proofs about ServerLifespan, for any number of processes, loops, keys,  *)
(* attempts and faults and either storage_backend.                         *)
(***************************************************************************)
EXTENDS ServerLifespan, FiniteSetTheorems, TLAPS

(***************************************************************************)
(* Types.                                                                  *)
(***************************************************************************)

\* What a request holds at its places, and where they lead.
LEMMA RequestShapes ==
    /\ NoRequest.pc = "idle"
    /\ \A q \in Busy :
        /\ q.pc \in {"put", "record", "remove"} /\ q.key \in Keys /\ q.attempt \in Nat
        /\ [q EXCEPT !.attempt = @ + 1] \in Busy
        /\ [q EXCEPT !.attempt = @ + 1].pc = q.pc /\ [q EXCEPT !.attempt = @ + 1].key = q.key
        /\ [q EXCEPT !.pc = "record"] \in Busy
        /\ [q EXCEPT !.pc = "record"].pc = "record" /\ [q EXCEPT !.pc = "record"].key = q.key
    /\ \A k \in Keys, c \in {"put", "remove"} : [pc |-> c, key |-> k, attempt |-> 1] \in Busy
BY DEF NoRequest, Busy

LEMMA BusyRequests ==
    ASSUME TypeOK, NEW p \in Servers, request[p].pc # "idle"
    PROVE  /\ request[p] \in Busy /\ request[p].key \in Keys
           /\ phase[p] = "serving" /\ backend[p] \in Backends
<1>1. request[p] \in Busy /\ phase[p] = "serving"
  BY RequestShapes DEF TypeOK
<1>2. backend[p] \in Backends
  BY <1>1 DEF TypeOK
<1> QED
  BY <1>1, <1>2, RequestShapes

\* The steps of the lifespan and of the loops, which leave the files alone.
Lifespan(p) ==
    \/ Start(p) \/ Boot(p) \/ Shutdown(p) \/ Stop(p) \/ StorageDown(p) \/ StartFails(p)
    \/ \E l \in Loops : Turn(p, l) \/ BodyFails(p, l) \/ CycleFails(p, l)

LEMMA LifespanTypes ==
    ASSUME TypeOK, NEW p \in Servers, Lifespan(p)
    PROVE  TypeOK'
<1> USE ServerAssumption DEF TypeOK, Phases, Places, Backends, Enter, MoveAll, Choose, Move, Fault,
        files, ServerAssumption
<1>1. CASE Start(p)
  BY <1>1 DEF Start
<1>2. CASE ChooseStorage(p)
  BY <1>2 DEF ChooseStorage
<1>3. CASE MakeBucket(p)
  BY <1>3 DEF MakeBucket
<1>4. CASE Serve(p)
  BY <1>4 DEF Serve
<1>5. CASE Shutdown(p)
  BY <1>5 DEF Shutdown
<1>6. CASE AllStopped(p)
  BY <1>6 DEF AllStopped
<1>7. CASE CloseEngine(p)
  BY <1>7 DEF CloseEngine
<1>8. CASE StorageDown(p)
  <2>1. bucket' \in BOOLEAN /\ made' \in BOOLEAN
    BY <1>8 DEF StorageDown
  <2>2. request[p].pc = "idle"
    BY <1>8 DEF StorageDown
  <2> QED
    BY <1>8, <2>1, <2>2 DEF StorageDown
<1>9. CASE StartFails(p)
  BY <1>9 DEF StartFails
<1>10. ASSUME NEW l \in Loops, RunBody(p, l) PROVE TypeOK'
  BY <1>10 DEF RunBody
<1>11. ASSUME NEW l \in Loops, DelayOver(p, l) PROVE TypeOK'
  BY <1>11 DEF DelayOver
<1>12. ASSUME NEW l \in Loops, Cancelled(p, l) PROVE TypeOK'
  BY <1>12 DEF Cancelled
<1>13. ASSUME NEW l \in Loops, BodyFails(p, l) PROVE TypeOK'
  BY <1>13 DEF BodyFails
<1>14. ASSUME NEW l \in Loops, CycleFails(p, l) PROVE TypeOK'
  BY <1>14 DEF CycleFails
<1> QED
  BY <1>1, <1>2, <1>3, <1>4, <1>5, <1>6, <1>7, <1>8, <1>9, <1>10, <1>11, <1>12, <1>13, <1>14
  DEF Lifespan, Boot, Stop, Turn

\* The steps of an upload or a deletion.
Handling(p) ==
    \/ \E k \in Keys : Save(p, k) \/ DeleteRow(p, k)
    \/ Work(p) \/ PutFails(p) \/ RecordFails(p) \/ RemoveFails(p)

LEMMA ProcessSteps ==
    ASSUME NEW p \in Servers, Process(p)
    PROVE  Lifespan(p) \/ Kill(p) \/ Handling(p)
BY DEF Process, Trouble, Lifespan, Handling

LEMMA KillTypes ==
    ASSUME TypeOK, NEW p \in Servers, Kill(p)
    PROVE  TypeOK'
<1>1. dropped' \subseteq Keys
  <2>1. CASE request[p].pc = "idle"
    BY <2>1 DEF TypeOK, Kill, Drop
  <2>2. CASE request[p].pc # "idle"
    <3>1. request[p].key \in Keys
      BY <2>2, RequestShapes DEF TypeOK
    <3>2. dropped' = dropped \cup {request[p].key}
      BY <2>2 DEF Kill, Drop
    <3> QED
      BY <3>1, <3>2 DEF TypeOK
  <2> QED
    BY <2>1, <2>2
<1>2. faults' \in 0 .. MaxFaults
  BY ServerAssumption DEF TypeOK, Kill, Fault, ServerAssumption
<1>3. \A q \in Servers : q # p => /\ phase'[q] = phase[q] /\ request'[q] = request[q]
                                  /\ backend'[q] = backend[q]
  BY DEF TypeOK, Kill, Enter, Choose, Goto, Reply
<1>4. phase'[p] = "down" /\ request'[p].pc = "idle"
  BY RequestShapes DEF TypeOK, Kill, Enter, Goto, Reply
<1>5. /\ phase' \in [Servers -> Phases] /\ backend' \in [Servers -> Backends \cup {"none"}]
      /\ wrapper' \in [Servers -> [Loops -> Places]]
      /\ request' \in [Servers -> {NoRequest} \cup Busy]
  BY DEF TypeOK, Kill, Enter, Choose, MoveAll, Goto, Reply, Phases, Places
<1>6. \A q \in Servers :
        /\ phase'[q] \in {"verify", "serving"} => backend'[q] # "none"
        /\ request'[q].pc # "idle" => phase'[q] = "serving"
  BY <1>3, <1>4 DEF TypeOK
<1> QED
  BY <1>1, <1>2, <1>5, <1>6 DEF TypeOK, Kill

\* They change their own request, objects and rows, on the backend of their
\* process.
LEMMA HandlingTypes ==
    ASSUME TypeOK, NEW p \in Servers, Handling(p)
    PROVE  TypeOK'
<1> DEFINE k == request[p].key
<1>1. request[p].pc # "idle" => request[p] \in Busy /\ k \in Keys
  BY RequestShapes DEF TypeOK, NoRequest
<1>2. phase[p] = "serving" /\ backend[p] \in Backends
  <2>1. request[p].pc # "idle" \/ phase[p] = "serving"
    <3>1. ASSUME NEW c \in Keys, Save(p, c) \/ DeleteRow(p, c) PROVE phase[p] = "serving"
      BY <3>1 DEF Save, DeleteRow
    <3>2. CASE Work(p)
      BY <3>2 DEF Work, PutFile, RecordFile, RemoveFile
    <3>3. CASE PutFails(p) \/ RecordFails(p) \/ RemoveFails(p)
      BY <3>3 DEF PutFails, RecordFails, RemoveFails
    <3> QED
      BY <3>1, <3>2, <3>3 DEF Handling
  <2> QED
    BY <2>1 DEF TypeOK
\* What every such step has to show.
<1>3. ASSUME UNCHANGED server, faults' \in 0 .. MaxFaults,
             NEW q \in {NoRequest} \cup Busy, Goto(p, q),
             stored' \in [Backends -> SUBSET Keys], rows' \in [Keys -> Backends \cup {"none"}],
             dropped' \subseteq Keys, misrouted' \subseteq Keys
      PROVE  TypeOK'
  <2>1. request' \in [Servers -> {NoRequest} \cup Busy]
    BY <1>3 DEF TypeOK, Goto
  <2>2. \A r \in Servers : request'[r].pc # "idle" => phase[r] = "serving"
    BY <1>2, <1>3 DEF TypeOK, Goto
  <2> QED
    BY <1>3, <2>1, <2>2 DEF TypeOK, server
<1>4. Fault => faults' \in 0 .. MaxFaults
  BY ServerAssumption DEF TypeOK, Fault, ServerAssumption
<1>5. /\ \A S \in SUBSET Keys : [stored EXCEPT ![backend[p]] = S] \in [Backends -> SUBSET Keys]
      /\ stored[backend[p]] \in SUBSET Keys
      /\ \A c \in Keys, b \in Backends \cup {"none"} :
            [rows EXCEPT ![c] = b] \in [Keys -> Backends \cup {"none"}]
      /\ stored \in [Backends -> SUBSET Keys] /\ rows \in [Keys -> Backends \cup {"none"}]
      /\ dropped \subseteq Keys /\ misrouted \subseteq Keys
      /\ faults \in 0 .. MaxFaults
  BY <1>2 DEF TypeOK
<1>6. ASSUME request[p].pc # "idle", Drop(p) PROVE dropped' \subseteq Keys
  BY <1>1, <1>5, <1>6 DEF Drop
<1>7. ASSUME NEW c \in Keys, Save(p, c) PROVE TypeOK'
  BY <1>3, <1>5, <1>7, RequestShapes DEF Save
<1>8. ASSUME NEW c \in Keys, DeleteRow(p, c) PROVE TypeOK'
  <2>1. rows' \in [Keys -> Backends \cup {"none"}]
    BY <1>5, <1>8 DEF DeleteRow
  <2>2. misrouted' \subseteq Keys
    BY <1>5, <1>8 DEF DeleteRow
  <2>3. UNCHANGED <<server, stored, dropped, faults>>
        /\ Goto(p, [pc |-> "remove", key |-> c, attempt |-> 1])
    BY <1>8 DEF DeleteRow
  <2> QED
    BY <1>3, <1>5, <2>1, <2>2, <2>3, RequestShapes
<1>9. CASE PutFile(p)
  <2>1. stored' \in [Backends -> SUBSET Keys]
    BY <1>1, <1>5, <1>9 DEF PutFile
  <2>2. request[p] \in Busy
    BY <1>1, <1>9 DEF PutFile
  <2> QED
    BY <1>3, <1>5, <1>9, <2>1, <2>2, RequestShapes DEF PutFile
<1>10. CASE RecordFile(p)
  BY <1>1, <1>2, <1>3, <1>5, <1>10 DEF RecordFile, Record, Reply
<1>11. CASE RemoveFile(p)
  BY <1>1, <1>3, <1>5, <1>11 DEF RemoveFile, Remove, Reply
<1>12. CASE PutFails(p)
  <2>1. stored' \in [Backends -> SUBSET Keys]
    BY <1>1, <1>5, <1>12 DEF PutFails
  <2>2. CASE Again(p)
    BY <1>1, <1>3, <1>4, <1>5, <1>12, <2>1, <2>2, RequestShapes DEF PutFails, Again
  <2>3. CASE Reply(p) /\ Drop(p)
    BY <1>3, <1>4, <1>5, <1>6, <1>12, <2>1, <2>3 DEF PutFails, Reply
  <2> QED
    BY <1>12, <2>2, <2>3 DEF PutFails
<1>13. CASE RecordFails(p)
  <2>1. rows' \in [Keys -> Backends \cup {"none"}]
    BY <1>1, <1>2, <1>5, <1>13 DEF RecordFails, Record
  <2> QED
    BY <1>3, <1>4, <1>5, <1>6, <1>13, <2>1 DEF RecordFails, Reply
<1>14. CASE RemoveFails(p)
  <2>1. stored' \in [Backends -> SUBSET Keys]
    BY <1>1, <1>5, <1>14 DEF RemoveFails, Remove
  <2>2. CASE Again(p)
    BY <1>1, <1>3, <1>4, <1>5, <1>14, <2>1, <2>2, RequestShapes DEF RemoveFails, Again
  <2>3. CASE Reply(p) /\ Drop(p)
    BY <1>3, <1>4, <1>5, <1>6, <1>14, <2>1, <2>3 DEF RemoveFails, Reply
  <2> QED
    BY <1>14, <2>2, <2>3 DEF RemoveFails
<1> QED
  BY <1>7, <1>8, <1>9, <1>10, <1>11, <1>12, <1>13, <1>14 DEF Handling, Work

LEMMA Typing == Init /\ [][Next]_vars => []TypeOK
<1>1. Init => TypeOK
  <2> SUFFICES ASSUME Init PROVE TypeOK
    OBVIOUS
  <2>1. /\ phase \in [Servers -> Phases] /\ backend \in [Servers -> Backends \cup {"none"}]
        /\ wrapper \in [Servers -> [Loops -> Places]]
        /\ request \in [Servers -> {NoRequest} \cup Busy]
    BY DEF Init, Phases, Places
  <2>2. /\ stored \in [Backends -> SUBSET Keys] /\ rows \in [Keys -> Backends \cup {"none"}]
        /\ dropped \subseteq Keys /\ misrouted \subseteq Keys
    BY DEF Init
  <2>4. faults \in 0 .. MaxFaults
    BY ServerAssumption DEF Init, ServerAssumption
  <2>5. bucket \in BOOLEAN /\ made \in BOOLEAN
    BY DEF Init
  <2>3. \A p \in Servers : phase[p] = "down" /\ request[p].pc = "idle"
    BY DEF Init, NoRequest
  <2> QED
    BY <2>1, <2>2, <2>3, <2>4, <2>5 DEF TypeOK
<1>2. TypeOK /\ [Next]_vars => TypeOK'
  <2>1. ASSUME TypeOK, NEW p \in Servers, Process(p) PROVE TypeOK'
    BY <2>1, ProcessSteps, LifespanTypes, KillTypes, HandlingTypes
  <2>2. ASSUME TypeOK, UNCHANGED vars PROVE TypeOK'
    BY <2>2 DEF vars, server, files, TypeOK
  <2> QED
    BY <2>1, <2>2 DEF Next
<1> QED
  BY <1>1, <1>2, PTL

\* Phases, loops, requests, objects and rows keep their types; a process that
\* serves has a storage.
THEOREM TypeCorrect == Spec => []TypeOK
BY Typing, PTL DEF Spec

-----------------------------------------------------------------------------
(***************************************************************************)
(* The files.                                                              *)
(***************************************************************************)

\* The object of k is on b, if anywhere, unless it was let go or misrouted.
OnlyOn(k, b) == \A c \in Backends : k \in stored[c] => c = b \/ k \in dropped \cup misrouted

\* A key in hand has no row, one request and its object on the backend of that
\* request's process; one with a row has its object there.
FilesInv ==
    /\ RowsAreStored
    /\ StraysAreAccounted
    /\ \A k \in Keys : rows[k] # "none" => OnlyOn(k, rows[k])
    /\ \A p \in Servers : request[p].pc # "idle" =>
        /\ rows[request[p].key] = "none"
        /\ \A q \in Holding(request[p].key) : q = p
        /\ OnlyOn(request[p].key, backend[p])
        /\ request[p].pc = "record" => request[p].key \in stored[backend[p]]

\* The lifespan does not touch them, nor the backend of a process with a request.
LEMMA LifespanKeepsFiles ==
    ASSUME TypeOK, FilesInv, NEW p \in Servers, Lifespan(p)
    PROVE  FilesInv'
<1>1. UNCHANGED files
  BY DEF Lifespan, Boot, Stop, Turn, Start, ChooseStorage, MakeBucket, Serve, Shutdown, AllStopped,
         CloseEngine, StorageDown, StartFails, RunBody, DelayOver, Cancelled, BodyFails,
         CycleFails
<1>2. \A q \in Servers : request[q].pc # "idle" => backend'[q] = backend[q]
  <2>1. backend' = backend \/ (phase[p] # "serving" /\ \E b : Choose(p, b))
    BY DEF Lifespan, Boot, Stop, Turn, Start, ChooseStorage, MakeBucket, Serve, Shutdown,
           AllStopped, CloseEngine, StorageDown, StartFails, RunBody, DelayOver, Cancelled, BodyFails,
         CycleFails
  <2> QED
    BY <2>1 DEF TypeOK, Choose
<1> QED
  BY <1>1, <1>2 DEF files, FilesInv, RowsAreStored, StraysAreAccounted, OnlyOn, Holding

\* A step of p's own request, told by what it does to the key k it is about:
\* every other key is as it was.
LEMMA OtherKeys ==
    ASSUME TypeOK, FilesInv, NEW p \in Servers, NEW k \in Keys,
           \A q \in Servers : q # p => request'[q] = request[q] /\ backend'[q] = backend[q],
           request[p].pc # "idle" => request[p].key = k,
           request'[p].pc # "idle" => request'[p].key = k,
           \A c \in Keys : c # k => /\ rows'[c] = rows[c]
                                    /\ c \in dropped' <=> c \in dropped
                                    /\ c \in misrouted' <=> c \in misrouted
                                    /\ \A b \in Backends : c \in stored'[b] <=> c \in stored[b],
           \A q \in Servers : request[q].pc # "idle" /\ q # p => request[q].key # k,
           TypeOK',
           \* What k has to show.
           rows'[k] # "none" => k \in stored'[rows'[k]] /\ OnlyOn(k, rows[k])',
           request'[p].pc = "idle" /\ rows'[k] = "none" =>
               \A b \in Backends : k \in stored'[b] => k \in dropped' \cup misrouted',
           request'[p].pc # "idle" =>
               /\ rows'[k] = "none" /\ OnlyOn(k, backend[p])'
               /\ request'[p].pc = "record" => k \in stored'[backend'[p]]
    PROVE  FilesInv'
<1> USE DEF Holding, OnlyOn
<1>1. \A c \in Keys : c # k => Holding(c)' = Holding(c)
  OBVIOUS
<1>2. Holding(k)' = IF request'[p].pc = "idle" THEN {} ELSE {p}
  OBVIOUS
<1>3. \A c \in Keys : rows'[c] \in Backends \cup {"none"} /\ rows[c] \in Backends \cup {"none"}
  BY DEF TypeOK
<1>4. RowsAreStored'
  BY <1>3 DEF RowsAreStored, FilesInv
<1>5. \A b \in Backends : \A c \in Keys : c \in stored'[b] /\ rows'[c] = "none" /\ Holding(c)' = {}
        => c \in dropped' \cup misrouted'
  <2> SUFFICES ASSUME NEW b \in Backends, NEW c \in Keys, c \in stored'[b], rows'[c] = "none",
                      Holding(c)' = {}
               PROVE  c \in dropped' \cup misrouted'
    OBVIOUS
  <2>1. CASE c = k
    BY <1>2, <2>1
  <2>2. CASE c # k
    <3>1. rows[c] = "none" /\ c \in stored[b]
      BY <2>2
    <3>2. Holding(c) = {}
      BY <1>1, <2>2
    <3>3. c \in dropped \cup misrouted
      BY <3>1, <3>2 DEF FilesInv, StraysAreAccounted
    <3> QED
      BY <2>2, <3>3
  <2> QED
    BY <2>1, <2>2
<1>6. \A c \in Keys : rows'[c] # "none" => OnlyOn(c, rows[c])'
  BY <1>3 DEF FilesInv
<1>7. ASSUME NEW q \in Servers, request'[q].pc # "idle", q # p
      PROVE  /\ rows'[request'[q].key] = "none"
             /\ (\A r \in Holding(request[q].key) : r = q)'
             /\ OnlyOn(request[q].key, backend[q])'
             /\ request'[q].pc = "record" => request'[q].key \in stored'[backend'[q]]
  <2>1. /\ request'[q] = request[q] /\ backend'[q] = backend[q]
        /\ request[q].key \in Keys /\ request[q].key # k /\ backend[q] \in Backends
    BY <1>7, BusyRequests
  <2>2. \A r \in Servers : request'[r].pc # "idle" /\ request'[r].key = request[q].key =>
           request[r].pc # "idle" /\ request[r].key = request[q].key
    BY <2>1
  <2>3. \A r \in Servers : request'[r].pc # "idle" /\ request'[r].key = request[q].key => r = q
    BY <1>7, <2>1, <2>2 DEF FilesInv
  <2>4. /\ rows[request[q].key] = "none" /\ OnlyOn(request[q].key, backend[q])
        /\ request[q].pc = "record" => request[q].key \in stored[backend[q]]
    BY <1>7, <2>1 DEF FilesInv
  <2>5. OnlyOn(request[q].key, backend[q])'
    BY <2>1, <2>4
  <2> QED
    BY <2>1, <2>3, <2>4, <2>5
<1>8. ASSUME request'[p].pc # "idle"
      PROVE  /\ rows'[request'[p].key] = "none"
             /\ (\A r \in Holding(request[p].key) : r = p)'
             /\ OnlyOn(request[p].key, backend[p])'
             /\ request'[p].pc = "record" => request'[p].key \in stored'[backend'[p]]
  <2>1. request'[p].key = k
    BY <1>8
  <2>2. \A r \in Servers : request'[r].pc # "idle" /\ request'[r].key = k => r = p
    OBVIOUS
  <2> QED
    BY <1>8, <2>1, <2>2
<1>9. \A b \in Backends : \A c \in stored'[b] : c \in Keys
  BY DEF TypeOK
<1>10. StraysAreAccounted'
  BY <1>5, <1>9 DEF StraysAreAccounted
<1> QED
  BY <1>4, <1>6, <1>7, <1>8, <1>10 DEF FilesInv

\* The steps of uploads and deletions and the end of a process keep it.
LEMMA HandlingKeepsFiles ==
    ASSUME TypeOK, TypeOK', FilesInv, NEW p \in Servers, Handling(p) \/ Kill(p)
    PROVE  FilesInv'
<1> DEFINE k == request[p].key
<1>1. request[p].pc # "idle" =>
        /\ request[p] \in Busy /\ k \in Keys /\ rows[k] = "none" /\ backend[p] \in Backends
        /\ \A q \in Servers : request[q].pc # "idle" /\ q # p => request[q].key # k
        /\ \A b \in Backends : k \in stored[b] => b = backend[p] \/ k \in dropped \cup misrouted
        /\ request[p].pc = "record" => k \in stored[backend[p]]
  BY BusyRequests DEF FilesInv, Holding, OnlyOn
<1>2. ASSUME NEW q, Goto(p, q)
      PROVE  /\ request'[p] = q
             /\ \A r \in Servers : r # p => request'[r] = request[r]
  BY <1>2 DEF Goto, TypeOK
<1>3. ASSUME NEW c \in Keys, Save(p, c) PROVE FilesInv'
  <2> DEFINE q == [pc |-> "put", key |-> c, attempt |-> 1]
  <2>1. request'[p] = q /\ \A r \in Servers : r # p => request'[r] = request[r]
    BY <1>2, <1>3 DEF Save
  <2>2. /\ rows[c] = "none" /\ Holding(c) = {} /\ \A b \in Backends : c \notin stored[b]
        /\ request[p].pc = "idle" /\ UNCHANGED <<server, stored, rows, dropped, misrouted, faults>>
    BY <1>3 DEF Save
  <2>3. \A r \in Servers : request[r].pc # "idle" => request[r].key # c
    BY <2>2 DEF Holding
  <2> QED
    BY <2>1, <2>2, <2>3, OtherKeys DEF server, OnlyOn
<1>4. ASSUME NEW c \in Keys, DeleteRow(p, c) PROVE FilesInv'
  <2> DEFINE q == [pc |-> "remove", key |-> c, attempt |-> 1]
  <2>1. request'[p] = q /\ \A r \in Servers : r # p => request'[r] = request[r]
    BY <1>2, <1>4 DEF DeleteRow
  <2>2. /\ rows[c] # "none" /\ request[p].pc = "idle"
        /\ rows' = [rows EXCEPT ![c] = "none"]
        /\ misrouted' = misrouted \cup IF rows[c] = backend[p] THEN {} ELSE {c}
        /\ UNCHANGED <<server, stored, dropped, faults>>
    BY <1>4 DEF DeleteRow
  <2>3. rows'[c] = "none" /\ \A d \in Keys : d # c => rows'[d] = rows[d]
    BY <2>2 DEF TypeOK
  <2>4. \A r \in Servers : request[r].pc # "idle" => request[r].key # c
    BY <2>2 DEF FilesInv
  <2>5. \A b \in Backends : c \in stored[b] => b = rows[c] \/ c \in dropped \cup misrouted
    BY <2>2 DEF FilesInv, OnlyOn
  <2>6. \A b \in Backends : c \in stored'[b] => b = backend'[p] \/ c \in dropped' \cup misrouted'
    BY <2>2, <2>5 DEF server
  <2>7. /\ misrouted \subseteq misrouted' /\ \A d \in Keys : d # c => (d \in misrouted' <=> d \in misrouted)
    BY <2>2
  <2> QED
    BY <2>1, <2>2, <2>3, <2>4, <2>6, <2>7, OtherKeys DEF server, OnlyOn
\* What p adds to or takes from its backend concerns k alone.
<1>5. ASSUME request[p].pc # "idle",
             stored' \in {stored, [stored EXCEPT ![backend[p]] = @ \cup {k}],
                                  [stored EXCEPT ![backend[p]] = @ \ {k}]}
      PROVE  /\ \A b \in Backends : \A c \in Keys : c # k => (c \in stored'[b] <=> c \in stored[b])
             /\ \A b \in Backends : b # backend[p] => stored'[b] = stored[b]
  <2>1. \A b \in Backends : stored'[b] \in {stored[b], stored[b] \cup {k}, stored[b] \ {k}}
    BY <1>1, <1>5 DEF TypeOK
  <2>2. \A b \in Backends : b # backend[p] => stored'[b] = stored[b]
    BY <1>1, <1>5 DEF TypeOK
  <2> QED
    BY <2>1, <2>2
\* It goes on with its request: the object may have come, the row is none.
<1>6. ASSUME request[p].pc # "idle", NEW q \in Busy, q.key = k, Goto(p, q),
             UNCHANGED <<server, rows, dropped, misrouted>>,
             stored' \in {stored, [stored EXCEPT ![backend[p]] = @ \cup {k}],
                                  [stored EXCEPT ![backend[p]] = @ \ {k}]},
             q.pc = "record" => k \in stored'[backend[p]]
      PROVE  FilesInv'
  <2>1. request'[p] = q /\ \A r \in Servers : r # p => request'[r] = request[r]
    BY <1>2, <1>6
  <2>2. \A b \in Backends : k \in stored'[b] => b = backend[p] \/ k \in dropped \cup misrouted
    BY <1>1, <1>5, <1>6
  <2>3. q.pc # "idle"
    BY <1>6, RequestShapes
  <2>4. k \in Keys
    BY <1>1, <1>6
  <2> QED
    BY <1>1, <1>5, <1>6, <2>1, <2>2, <2>3, <2>4, OtherKeys DEF server, OnlyOn
\* It ends, and with it the request: its key is let go, or its object is gone.
<1>7. ASSUME request[p].pc # "idle", Reply(p), UNCHANGED rows, UNCHANGED misrouted,
             stored' \in {stored, [stored EXCEPT ![backend[p]] = @ \cup {k}],
                                  [stored EXCEPT ![backend[p]] = @ \ {k}]},
             \/ dropped' = dropped \cup {k}
             \/ dropped' = dropped /\ k \notin stored'[backend[p]],
             \A q \in Servers : q # p => backend'[q] = backend[q]
      PROVE  FilesInv'
  <2>1. request'[p].pc = "idle" /\ \A r \in Servers : r # p => request'[r] = request[r]
    BY <1>2, <1>7, RequestShapes DEF Reply
  <2>2. \A b \in Backends : k \in stored'[b] => k \in dropped' \cup misrouted'
    BY <1>1, <1>5, <1>7
  <2>3. k \in Keys /\ rows'[k] = "none"
    BY <1>1, <1>7
  <2>4. \A c \in Keys : c # k => (c \in dropped' <=> c \in dropped)
    BY <1>7
  <2> QED
    BY <1>1, <1>5, <1>7, <2>1, <2>2, <2>3, <2>4, OtherKeys
\* The row is recorded.
<1>8. ASSUME request[p].pc = "record", Record(p), Reply(p), UNCHANGED <<server, stored, misrouted>>,
             dropped' \in {dropped, dropped \cup {k}}
      PROVE  FilesInv'
  <2>1. request'[p].pc = "idle" /\ \A r \in Servers : r # p => request'[r] = request[r]
    BY <1>2, <1>8, RequestShapes DEF Reply
  <2>2. k \in Keys /\ k \in stored[backend[p]]
    BY <1>1, <1>8
  <2>3. rows'[k] = backend[p] /\ \A c \in Keys : c # k => rows'[c] = rows[c]
    BY <1>8, <2>2 DEF Record, TypeOK
  <2>4. \A b \in Backends : k \in stored[b] => b = backend[p] \/ k \in dropped' \cup misrouted'
    BY <1>1, <1>8
  <2>5. \A c \in Keys : c # k => (c \in dropped' <=> c \in dropped)
    BY <1>8
  <2>6. backend[p] # "none"
    BY <1>1, <1>8 DEF Backends
  <2> QED
    BY <1>1, <1>8, <2>1, <2>2, <2>3, <2>4, <2>5, <2>6, OtherKeys DEF server, OnlyOn
<1>9. CASE PutFile(p)
  <2>1. k \in stored'[backend[p]]
    BY <1>1, <1>9 DEF PutFile, TypeOK
  <2> QED
    BY <1>1, <1>6, <1>9, <2>1, RequestShapes DEF PutFile
<1>10. CASE RecordFile(p)
  BY <1>8, <1>10 DEF RecordFile
<1>11. CASE RemoveFile(p)
  <2>1. k \notin stored'[backend[p]]
    BY <1>1, <1>11 DEF RemoveFile, Remove, TypeOK
  <2>2. \A q \in Servers : backend'[q] = backend[q]
    BY <1>11 DEF RemoveFile, server
  <2> QED
    BY <1>7, <1>11, <2>1, <2>2 DEF RemoveFile, Remove
<1>12. CASE PutFails(p)
  <2>1. CASE Again(p)
    <3> DEFINE q == [request[p] EXCEPT !.attempt = @ + 1]
    <3>1. q \in Busy /\ q.key = k /\ q.pc = "put"
      BY <1>1, <1>12, RequestShapes DEF PutFails
    <3>2. Goto(p, q) /\ dropped' = dropped
      BY <2>1 DEF Again
    <3> HIDE DEF q
    <3> QED
      BY <1>6, <1>12, <3>1, <3>2 DEF PutFails
  <2>2. CASE Reply(p) /\ Drop(p)
    BY <1>7, <1>12, <2>2 DEF PutFails, Drop, server
  <2> QED
    BY <1>12, <2>1, <2>2 DEF PutFails
<1>13. CASE RecordFails(p)
  <2>1. dropped' = dropped \cup {k} /\ UNCHANGED <<server, stored, misrouted>> /\ Reply(p)
    BY <1>13 DEF RecordFails, Drop
  <2>2. CASE Record(p)
    BY <1>8, <1>13, <2>1, <2>2 DEF RecordFails
  <2>3. CASE UNCHANGED rows
    BY <1>7, <1>13, <2>1, <2>3 DEF RecordFails, server
  <2> QED
    BY <1>13, <2>2, <2>3 DEF RecordFails
<1>14. CASE RemoveFails(p)
  <2>1. CASE Again(p)
    <3> DEFINE q == [request[p] EXCEPT !.attempt = @ + 1]
    <3>1. q \in Busy /\ q.key = k /\ q.pc = "remove"
      BY <1>1, <1>14, RequestShapes DEF RemoveFails
    <3>2. Goto(p, q) /\ dropped' = dropped
      BY <2>1 DEF Again
    <3> HIDE DEF q
    <3> QED
      BY <1>6, <1>14, <3>1, <3>2 DEF RemoveFails, Remove
  <2>2. CASE Reply(p) /\ Drop(p)
    BY <1>7, <1>14, <2>2 DEF RemoveFails, Remove, Drop, server
  <2> QED
    BY <1>14, <2>1, <2>2 DEF RemoveFails
<1>15. CASE Kill(p)
  <2>1. \A q \in Servers : q # p => backend'[q] = backend[q]
    BY <1>15 DEF Kill, Choose, TypeOK
  <2>2. UNCHANGED <<stored, rows, misrouted>> /\ Reply(p)
    BY <1>15 DEF Kill
  <2>3. CASE request[p].pc # "idle"
    BY <1>7, <1>15, <2>1, <2>2, <2>3 DEF Kill, Drop
  <2>4. CASE request[p].pc = "idle"
    <3>1. UNCHANGED dropped
      BY <1>15, <2>4 DEF Kill, Drop
    <3>2. \A q \in Servers : request'[q].pc # "idle" =>
             q # p /\ request'[q] = request[q] /\ backend'[q] = backend[q]
      BY <1>2, <2>1, <2>2, RequestShapes DEF Reply
    <3>3. \A q \in Servers : request[q].pc # "idle" => request'[q] = request[q]
      BY <1>2, <2>2, <2>4 DEF Reply
    <3>4. \A c \in Keys : Holding(c)' = Holding(c)
      BY <3>2, <3>3 DEF Holding
    <3>5. RowsAreStored' /\ StraysAreAccounted'
      <4>1. \A b \in Backends : \A c \in stored[b] : c \in Keys
        BY DEF TypeOK
      <4> QED
        BY <2>2, <3>1, <3>4, <4>1 DEF FilesInv, RowsAreStored, StraysAreAccounted
    <3>6. \A c \in Keys : rows'[c] # "none" => OnlyOn(c, rows[c])'
      BY <2>2, <3>1 DEF FilesInv, OnlyOn
    <3>7. ASSUME NEW q \in Servers, request'[q].pc # "idle"
          PROVE  /\ rows'[request'[q].key] = "none"
                 /\ (\A r \in Holding(request[q].key) : r = q)'
                 /\ OnlyOn(request[q].key, backend[q])'
                 /\ request'[q].pc = "record" => request'[q].key \in stored'[backend'[q]]
      <4>1. \A r \in Servers : request'[r].pc # "idle" /\ request'[r].key = request'[q].key =>
               request[r].pc # "idle" /\ request[r].key = request[q].key
        BY <3>2, <3>7
      <4> QED
        BY <2>2, <3>1, <3>2, <3>7, <4>1 DEF FilesInv, Holding, OnlyOn
    <3> QED
      BY <3>5, <3>6, <3>7 DEF FilesInv
  <2> QED
    BY <2>3, <2>4
<1> QED
  BY <1>3, <1>4, <1>9, <1>10, <1>11, <1>12, <1>13, <1>14, <1>15 DEF Handling, Work

LEMMA FilesInduction == Init /\ [][Next]_vars => []FilesInv
<1>1. Init => FilesInv
  BY DEF Init, FilesInv, RowsAreStored, StraysAreAccounted, NoRequest, Backends
<1>2. TypeOK /\ TypeOK' /\ FilesInv /\ [Next]_vars => FilesInv'
  <2>1. ASSUME TypeOK, TypeOK', FilesInv, NEW p \in Servers, Process(p) PROVE FilesInv'
    BY <2>1, ProcessSteps, LifespanKeepsFiles, HandlingKeepsFiles
  <2>2. ASSUME FilesInv, UNCHANGED vars PROVE FilesInv'
    BY <2>2 DEF vars, server, files, FilesInv, RowsAreStored, StraysAreAccounted, Holding, OnlyOn
  <2> QED
    BY <2>1, <2>2 DEF Next
<1> QED
  BY <1>1, <1>2, Typing, PTL

\* However attempts fail, commits are lost and processes die or fall back to the
\* local storage, a row of user_file names an object that is there.
THEOREM RowsStored == Spec => []RowsAreStored
<1>1. FilesInv => RowsAreStored
  BY DEF FilesInv
<1> QED
  BY <1>1, FilesInduction, PTL DEF Spec

\* An object without a row was let go by a failure or deleted through the other
\* backend: retries that succeed in the end leave none.
THEOREM StraysAccounted == Spec => []StraysAreAccounted
<1>1. FilesInv => StraysAreAccounted
  BY DEF FilesInv
<1> QED
  BY <1>1, FilesInduction, PTL DEF Spec

-----------------------------------------------------------------------------
(***************************************************************************)
(* The stop.                                                               *)
(***************************************************************************)

\* Loops live in a process that serves or stops, nowhere else.
Settled == \A p \in Servers : phase[p] \notin {"serving", "stopping"} => Live(p) = {}

\* One step of a process, seen by its loops and by those of the others.
LEMMA LoopSteps ==
    ASSUME TypeOK, Settled, NEW p \in Servers, Process(p)
    PROVE  /\ \A q \in Servers : q # p => phase'[q] = phase[q] /\ wrapper'[q] = wrapper[q]
           /\ phase[p] = "stopping" => Live(p)' \subseteq Live(p) /\ Bodies(p)' \subseteq Bodies(p)
           /\ phase'[p] \notin {"serving", "stopping"} => Live(p)' = {}
<1> USE DEF TypeOK, Enter, Move, MoveAll, Live, Bodies, Deaf
<1> DEFINE Resumes == \E l \in Loops :
              phase' = phase /\ Running(p) /\ Live(p) # {} /\ \E pl : Move(p, l, pl)
           Ends == \E l \in Loops :
              phase' = phase /\ phase[p] \in {"serving", "stopping"} /\ Move(p, l, "done")
           Stays == \E l \in Loops :
              phase' = phase /\ phase[p] \in {"serving", "stopping"}
                /\ wrapper[p][l] = "body" /\ Move(p, l, "deaf")
<1>1. CASE wrapper' = wrapper /\ (phase' = phase \/ \E ph : Enter(p, ph) /\
             (Live(p) = {} \/ (phase[p] = "serving" /\ ph = "stopping")))
  BY <1>1 DEF Settled
<1>2. CASE MoveAll(p, "new") /\ Enter(p, "serving") /\ phase[p] = "verify"
  BY <1>2
<1>3. CASE MoveAll(p, "none") /\ Enter(p, "down")
  BY <1>3
<1>4. CASE Resumes
  BY <1>4 DEF Settled, Running
<1>5. CASE Ends
  BY <1>5
<1>6. CASE Start(p) \/ ChooseStorage(p) \/ MakeBucket(p) \/ StorageDown(p) \/ StartFails(p)
  <2>1. Live(p) = {} /\ wrapper' = wrapper /\ \E ph : Enter(p, ph)
    BY <1>6 DEF Start, ChooseStorage, MakeBucket, StorageDown, StartFails, Settled
  <2> QED
    BY <1>1, <2>1
<1>7. CASE Serve(p)
  BY <1>2, <1>7 DEF Serve
<1>8. CASE Shutdown(p) \/ AllStopped(p)
  <2>1. wrapper' = wrapper /\ \E ph : Enter(p, ph) /\
             (Live(p) = {} \/ (phase[p] = "serving" /\ ph = "stopping"))
    BY <1>8 DEF Shutdown, AllStopped
  <2> QED
    BY <1>1, <2>1
<1>9. CASE CloseEngine(p) \/ Kill(p)
  BY <1>3, <1>9 DEF CloseEngine, Kill
<1>10. ASSUME NEW l \in Loops, RunBody(p, l) \/ DelayOver(p, l) PROVE Resumes
  BY <1>10 DEF RunBody, DelayOver
<1>11. ASSUME NEW l \in Loops, BodyFails(p, l) PROVE Resumes \/ Ends
  <2>1. phase[p] \in {"serving", "stopping"} /\ Live(p) # {}
    BY <1>11 DEF BodyFails, Settled
  <2> QED
    BY <1>11, <2>1 DEF BodyFails
<1>12. ASSUME NEW l \in Loops, Cancelled(p, l) PROVE Ends
  BY <1>12 DEF Cancelled
<1>13. ASSUME NEW l \in Loops, CycleFails(p, l) PROVE Stays
  <2>1. phase[p] \in {"serving", "stopping"}
    BY <1>13 DEF CycleFails, Settled
  <2> QED
    BY <1>13, <2>1 DEF CycleFails
<1>14. CASE Stays
  BY <1>14
<1>15. CASE Handling(p)
  <2>1. UNCHANGED server
    BY <1>15 DEF Handling, Save, DeleteRow, Work, PutFile, RecordFile, RemoveFile, PutFails,
       RecordFails, RemoveFails
  <2> QED
    BY <1>1, <2>1 DEF server
<1> QED
  BY <1>4, <1>5, <1>6, <1>7, <1>8, <1>9, <1>10, <1>11, <1>12, <1>13, <1>14, <1>15, ProcessSteps
  DEF Lifespan, Boot, Turn, Stop

\* stop() ends the loops for good: none starts again, and none is left when the
\* engine is closed.
THEOREM StopFinal == Spec => StopIsFinal
<1>1. Init => Settled
  BY DEF Init, Settled, Live
<1>2. TypeOK /\ Settled /\ [Next]_vars => Settled'
  <2>1. ASSUME TypeOK, Settled, NEW p \in Servers, Process(p) PROVE Settled'
    BY <2>1, LoopSteps DEF Settled, Live
  <2>2. ASSUME Settled, UNCHANGED vars PROVE Settled'
    BY <2>2 DEF vars, server, Settled, Live
  <2> QED
    BY <2>1, <2>2 DEF Next
<1> DEFINE Final == \A p \in Servers :
        /\ phase[p] = "stopping" => Live(p)' \subseteq Live(p) /\ Bodies(p)' \subseteq Bodies(p)
        /\ phase'[p] \in {"closing", "down"} => Live(p)' = {}
<1>3. TypeOK /\ Settled /\ Settled' /\ [Next]_vars => [Final]_vars
  <2> SUFFICES ASSUME TypeOK, Settled, Settled', NEW p \in Servers, Process(p) PROVE Final
    BY DEF Next
  <2>1. ASSUME NEW q \in Servers, q # p
        PROVE  Live(q)' = Live(q) /\ Bodies(q)' = Bodies(q)
    BY <2>1, LoopSteps DEF Live, Bodies
  <2>2. \A q \in Servers : phase'[q] \in {"closing", "down"} => Live(q)' = {}
    BY DEF Settled
  <2> QED
    BY <2>1, <2>2, LoopSteps
<1> QED
  BY <1>1, <1>2, <1>3, Typing, PTL DEF Spec, StopIsFinal

-----------------------------------------------------------------------------
(***************************************************************************)
(* The fallbacks.                                                          *)
(***************************************************************************)

Fallbacks == {p \in Servers : backend[p] \in Backends \ {Configured}}

\* Those that have fallen back or may lose the race for the bucket.
Rivals == Fallbacks \cup {p \in Servers : phase[p] = "make"}

\* A race for the bucket has a winner, who is no rival; nobody joins it after.
FallbackInv ==
    /\ \A p \in Servers : phase[p] \in {"down", "build", "make"} => backend[p] = "none"
    /\ \A p \in Servers : phase[p] = "make" => Configured = "minio" /\ (bucket => made)
    /\ made => bucket
    /\ IF made THEN Cardinality(Rivals) <= faults + Cardinality(Servers) - 1
               ELSE Cardinality(Fallbacks) <= faults

LEMMA Counting ==
    ASSUME NEW S, IsFiniteSet(S), NEW T, T \subseteq S, NEW p
    PROVE  /\ IsFiniteSet(T) /\ Cardinality(T) \in Nat /\ Cardinality(S) \in Nat
           /\ Cardinality(T) <= Cardinality(S)
           /\ \A U : U \subseteq T \cup {p} => Cardinality(U) \in Nat /\ Cardinality(U) <= Cardinality(T) + 1
           /\ \A U : U \subseteq T => Cardinality(U) \in Nat /\ Cardinality(U) <= Cardinality(T)
           /\ p \in S => \A U : U \subseteq S \ {p} =>
                Cardinality(U) \in Nat /\ Cardinality(U) <= Cardinality(S) - 1
<1>1. /\ IsFiniteSet(T) /\ Cardinality(T) \in Nat /\ Cardinality(S) \in Nat
      /\ Cardinality(T) <= Cardinality(S)
  BY FS_Subset, FS_CardinalityType
<1>2. IsFiniteSet(T \cup {p}) /\ Cardinality(T \cup {p}) \in {Cardinality(T), Cardinality(T) + 1}
  BY <1>1, FS_AddElement
<1>3. \A U : U \subseteq T \cup {p} =>
        Cardinality(U) \in Nat /\ Cardinality(U) <= Cardinality(T \cup {p})
  BY <1>2, FS_Subset, FS_CardinalityType
<1>4. \A U : U \subseteq T \cup {p} => Cardinality(U) \in Nat /\ Cardinality(U) <= Cardinality(T) + 1
  BY <1>1, <1>2, <1>3
<1>5. \A U : U \subseteq T => Cardinality(U) \in Nat /\ Cardinality(U) <= Cardinality(T)
  BY <1>1, FS_Subset, FS_CardinalityType
<1>6. ASSUME p \in S
      PROVE  \A U : U \subseteq S \ {p} => Cardinality(U) \in Nat /\ Cardinality(U) <= Cardinality(S) - 1
  <2>1. IsFiniteSet(S \ {p}) /\ Cardinality(S \ {p}) = Cardinality(S) - 1
    BY <1>6, FS_RemoveElement
  <2> QED
    BY <2>1, FS_Subset, FS_CardinalityType
<1> QED
  BY <1>1, <1>4, <1>5, <1>6

LEMMA FallbackSteps ==
    ASSUME TypeOK, TypeOK', FallbackInv, NEW p \in Servers, Process(p)
    PROVE  FallbackInv'
<1> DEFINE F == Fallbacks
           R == Rivals
           n == Cardinality(Servers)
<1>1. /\ IsFiniteSet(Servers) /\ n \in Nat /\ n >= 1 /\ F \subseteq Servers /\ R \subseteq Servers
      /\ F' \subseteq Servers /\ R' \subseteq Servers /\ F \subseteq R /\ F' \subseteq R'
  <2>1. IsFiniteSet(Servers) /\ n \in Nat
    BY ServerAssumption, FS_CardinalityType DEF ServerAssumption
  <2>2. n # 0
    BY <2>1, FS_EmptySet
  <2> QED
    BY <2>1, <2>2 DEF Fallbacks, Rivals
<1>2. /\ faults \in Nat /\ faults' \in Nat
  BY ServerAssumption DEF TypeOK, ServerAssumption
<1>3. made \in BOOLEAN /\ made' \in BOOLEAN
  BY DEF TypeOK
\* A step that makes no more rivals, one that makes one and is a failure.
<1>4. ASSUME made' = made, F' \subseteq F, made => R' \subseteq R, faults' >= faults
      PROVE  IF made' THEN Cardinality(R') <= faults' + n - 1 ELSE Cardinality(F') <= faults'
  <2>1. /\ Cardinality(F') \in Nat /\ Cardinality(F) \in Nat /\ Cardinality(F') <= Cardinality(F)
        /\ Cardinality(R) \in Nat
        /\ made => Cardinality(R') \in Nat /\ Cardinality(R') <= Cardinality(R)
    BY <1>1, <1>4, Counting
  <2>2. IF made THEN Cardinality(R) <= faults + n - 1 ELSE Cardinality(F) <= faults
    BY DEF FallbackInv
  <2> HIDE DEF F, R, n
  <2> QED
    BY <1>1, <1>2, <1>3, <1>4, <2>1, <2>2
<1>5. ASSUME made' = made, F' \subseteq F \cup {p}, made => R' \subseteq R \cup {p}, faults' = faults + 1
      PROVE  IF made' THEN Cardinality(R') <= faults' + n - 1 ELSE Cardinality(F') <= faults'
  <2>1. /\ Cardinality(F') \in Nat /\ Cardinality(F) \in Nat /\ Cardinality(F') <= Cardinality(F) + 1
        /\ Cardinality(R) \in Nat
        /\ made => Cardinality(R') \in Nat /\ Cardinality(R') <= Cardinality(R) + 1
    BY <1>1, <1>5, Counting
  <2>2. IF made THEN Cardinality(R) <= faults + n - 1 ELSE Cardinality(F) <= faults
    BY DEF FallbackInv
  <2> HIDE DEF F, R, n
  <2> QED
    BY <1>1, <1>2, <1>3, <1>5, <2>1, <2>2
<1>6. ASSUME made', p \notin R' \/ faults' >= 1
      PROVE  IF made' THEN Cardinality(R') <= faults' + n - 1 ELSE Cardinality(F') <= faults'
  <2>1. Cardinality(R') \in Nat /\ Cardinality(R') <= n
    BY <1>1, Counting
  <2>2. p \notin R' => Cardinality(R') <= n - 1
    BY <1>1, Counting
  <2> HIDE DEF F, R, n
  <2> QED
    BY <1>1, <1>2, <1>6, <2>1, <2>2
\* The conjuncts about single processes.
<1>7. ASSUME NEW ph, Enter(p, ph), ph \notin {"down", "build", "make"},
             bucket => bucket', made => made', made' => bucket',
             bucket' # bucket => made',
             \A q \in Servers : q # p => backend'[q] = backend[q]
      PROVE  /\ \A q \in Servers : phase'[q] \in {"down", "build", "make"} => backend'[q] = "none"
             /\ \A q \in Servers : phase'[q] = "make" => Configured = "minio" /\ (bucket' => made')
  BY <1>3, <1>7 DEF FallbackInv, TypeOK, Enter
<1>8. UNCHANGED <<phase, backend, bucket, made>> /\ faults' >= faults => FallbackInv'
  <2> SUFFICES ASSUME UNCHANGED <<phase, backend, bucket, made>>, faults' >= faults PROVE FallbackInv'
    OBVIOUS
  <2>1. F' = F /\ R' = R
    BY DEF Fallbacks, Rivals
  <2> QED
    BY <1>4, <2>1 DEF FallbackInv
<1>9. faults' >= faults
  <2>1. Lifespan(p) \/ Kill(p) => faults' \in {faults, faults + 1}
    BY DEF Lifespan, Boot, Turn, Stop, Start, ChooseStorage, MakeBucket, Serve, Shutdown, AllStopped,
       CloseEngine, StorageDown, StartFails, RunBody, DelayOver, Cancelled, BodyFails, CycleFails, Kill,
       Fault
  <2>2. Handling(p) => faults' \in {faults, faults + 1}
    BY DEF Handling, Work, Save, DeleteRow, PutFile, RecordFile, RemoveFile, PutFails, RecordFails,
       RemoveFails, Fault
  <2>3. faults' \in {faults, faults + 1}
    BY <2>1, <2>2, ProcessSteps
  <2> QED
    BY <1>2, <2>3
<1>10. CASE \/ Handling(p) \/ \E l \in Loops : Turn(p, l) \/ BodyFails(p, l) \/ CycleFails(p, l)
  <2>1. UNCHANGED <<phase, backend, bucket, made>>
    BY <1>10 DEF Handling, Save, DeleteRow, Work, PutFile, RecordFile, RemoveFile, PutFails,
       RecordFails, RemoveFails, Turn, RunBody, DelayOver, Cancelled, BodyFails, CycleFails,
       server
  <2> QED
    BY <1>8, <1>9, <2>1
<1>11. CASE Start(p) \/ CloseEngine(p) \/ Kill(p)
  <2>1. /\ \E ph \in {"down", "build"} : Enter(p, ph)
        /\ backend'[p] = "none" /\ \A q \in Servers : q # p => backend'[q] = backend[q]
        /\ UNCHANGED <<bucket, made>>
    BY <1>11 DEF Start, CloseEngine, Kill, Choose, TypeOK, FallbackInv
  <2>2. F' \subseteq F /\ R' \subseteq R
    BY <2>1 DEF Fallbacks, Rivals, Enter, TypeOK, Backends
  <2>3. /\ \A q \in Servers : phase'[q] \in {"down", "build", "make"} => backend'[q] = "none"
        /\ \A q \in Servers : phase'[q] = "make" => Configured = "minio" /\ (bucket' => made')
    BY <2>1 DEF FallbackInv, Enter, TypeOK
  <2> QED
    BY <1>4, <1>9, <2>1, <2>2, <2>3 DEF FallbackInv
<1>12. CASE Serve(p) \/ Shutdown(p) \/ AllStopped(p) \/ StartFails(p)
  <2>1. /\ \E ph \in {"serving", "stopping", "closing"} : Enter(p, ph)
        /\ UNCHANGED <<backend, bucket, made>>
    BY <1>12 DEF Serve, Shutdown, AllStopped, StartFails
  <2>2. F' \subseteq F /\ R' \subseteq R
    BY <2>1 DEF Fallbacks, Rivals, Enter, TypeOK
  <2> QED
    BY <1>4, <1>7, <1>9, <2>1, <2>2 DEF FallbackInv
<1>13. CASE ChooseStorage(p)
  <2>1. CASE Configured = "minio" /\ ~bucket
    <3>1. Enter(p, "make") /\ UNCHANGED <<backend, bucket, made>> /\ phase[p] = "build" /\ ~made
      BY <1>13, <2>1 DEF ChooseStorage, FallbackInv
    <3>2. F' \subseteq F
      BY <3>1 DEF Fallbacks
    <3>3. /\ \A q \in Servers : phase'[q] \in {"down", "build", "make"} => backend'[q] = "none"
          /\ \A q \in Servers : phase'[q] = "make" => Configured = "minio" /\ (bucket' => made')
      BY <2>1, <3>1 DEF FallbackInv, Enter, TypeOK
    <3> QED
      BY <1>4, <1>9, <3>1, <3>2, <3>3 DEF FallbackInv
  <2>2. CASE ~(Configured = "minio" /\ ~bucket)
    <3>1. Enter(p, "verify") /\ Choose(p, Configured) /\ UNCHANGED <<bucket, made>>
      BY <1>13, <2>2 DEF ChooseStorage
    <3>2. backend'[p] = Configured /\ \A q \in Servers : q # p => backend'[q] = backend[q]
      BY <3>1 DEF Choose, TypeOK
    <3>3. F' \subseteq F /\ R' \subseteq R
      BY <3>1, <3>2 DEF Fallbacks, Rivals, Enter, TypeOK
    <3> QED
      BY <1>4, <1>7, <1>9, <3>1, <3>2, <3>3 DEF FallbackInv
  <2> QED
    BY <2>1, <2>2
<1>14. CASE MakeBucket(p)
  <2>1. /\ phase[p] = "make" /\ Enter(p, "verify") /\ bucket' = TRUE /\ made' = TRUE
        /\ Configured = "minio" /\ (bucket => made)
        /\ backend'[p] = (IF bucket THEN "local" ELSE "minio")
        /\ \A q \in Servers : q # p => backend'[q] = backend[q]
    BY <1>14 DEF MakeBucket, FallbackInv, Choose, TypeOK
  <2>2. CASE bucket
    <3>1. made' = made
      BY <1>3, <2>1, <2>2
    <3>2. R' \subseteq R
      BY <2>1 DEF Fallbacks, Rivals, Enter, TypeOK
    <3>3. IF made' THEN Cardinality(R') <= faults' + n - 1 ELSE Cardinality(F') <= faults'
      <4>1. /\ Cardinality(R) \in Nat /\ Cardinality(R') \in Nat /\ Cardinality(R') <= Cardinality(R)
        BY <1>1, <3>2, Counting
      <4>2. Cardinality(R) <= faults + n - 1
        BY <2>1, <3>1 DEF FallbackInv
      <4> HIDE DEF F, R, n
      <4> QED
        BY <1>1, <1>2, <1>9, <2>1, <4>1, <4>2
    <3> QED
      BY <1>7, <2>1, <3>3 DEF FallbackInv
  <2>3. CASE ~bucket
    <3>1. p \notin R'
      BY <2>1, <2>3 DEF Fallbacks, Rivals, Enter, TypeOK
    <3> QED
      BY <1>6, <1>7, <2>1, <3>1 DEF FallbackInv
  <2> QED
    BY <2>2, <2>3
<1>15. CASE StorageDown(p)
  <2>1. /\ Enter(p, "verify") /\ Choose(p, "local") /\ faults' = faults + 1
        /\ UNCHANGED <<bucket, made>> \/ (bucket' = TRUE /\ made' = TRUE)
    BY <1>15 DEF StorageDown, Fault
  <2>2. \A q \in Servers : q # p => backend'[q] = backend[q]
    BY <2>1 DEF Choose, TypeOK
  <2>3. F' \subseteq F \cup {p} /\ R' \subseteq R \cup {p}
    BY <2>1, <2>2 DEF Fallbacks, Rivals, Enter, TypeOK
  <2>4. faults' >= 1
    BY <1>2, <2>1
  <2>5. CASE UNCHANGED <<bucket, made>>
    BY <1>5, <1>7, <2>1, <2>2, <2>3, <2>5 DEF FallbackInv
  <2>6. CASE bucket' = TRUE /\ made' = TRUE
    BY <1>6, <1>7, <2>1, <2>2, <2>4, <2>6 DEF FallbackInv
  <2> QED
    BY <2>1, <2>5, <2>6
<1> QED
  BY <1>10, <1>11, <1>12, <1>13, <1>14, <1>15, ProcessSteps DEF Lifespan, Boot, Stop

\* Without failures one process at least serves from the configured storage, and
\* all do if the bucket was there.
THEOREM FallbacksCounted == Spec => []FallbacksBounded
<1>1. Init => FallbackInv
  <2> SUFFICES ASSUME Init PROVE FallbackInv
    OBVIOUS
  <2>1. Fallbacks = {}
    BY DEF Init, Fallbacks, Backends
  <2>2. Cardinality(Fallbacks) <= faults
    BY <2>1, FS_EmptySet DEF Init
  <2> QED
    BY <2>2 DEF Init, FallbackInv
<1>2. TypeOK /\ TypeOK' /\ FallbackInv /\ [Next]_vars => FallbackInv'
  <2>1. ASSUME FallbackInv, UNCHANGED vars PROVE FallbackInv'
    BY <2>1 DEF vars, server, FallbackInv, Fallbacks, Rivals
  <2> QED
    BY <2>1, FallbackSteps DEF Next
<1>3. TypeOK /\ FallbackInv => FallbacksBounded
  <2> SUFFICES ASSUME TypeOK, FallbackInv PROVE FallbacksBounded
    OBVIOUS
  <2>1. /\ IsFiniteSet(Servers) /\ Cardinality(Fallbacks) \in Nat /\ Cardinality(Rivals) \in Nat
        /\ Cardinality(Fallbacks) <= Cardinality(Rivals) /\ Cardinality(Servers) \in Nat
    <3>1. IsFiniteSet(Servers) /\ Rivals \subseteq Servers /\ Fallbacks \subseteq Rivals
      BY ServerAssumption DEF Rivals, Fallbacks, ServerAssumption
    <3> QED
      BY <3>1, Counting
  <2>2. faults \in Nat /\ made \in BOOLEAN
    BY ServerAssumption DEF TypeOK, ServerAssumption
  <2>3. IF made THEN Cardinality(Rivals) <= faults + Cardinality(Servers) - 1
                ELSE Cardinality(Fallbacks) <= faults
    BY DEF FallbackInv
  <2>4. Cardinality(Fallbacks) <= faults + IF made THEN Cardinality(Servers) - 1 ELSE 0
    BY <2>1, <2>2, <2>3
  <2> QED
    BY <2>4 DEF FallbacksBounded, Fallbacks
<1> QED
  BY <1>1, <1>2, <1>3, Typing, PTL DEF Spec

=============================================================================
