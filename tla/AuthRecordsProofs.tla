-------------------------- MODULE AuthRecordsProofs --------------------------
(* AuthRecords, for every set of keys, mailboxes and requests and every    *)
(* bound: no edit is lost outside the windows that RecordsKept names, and  *)
(* a call that succeeds leaves a record of every key.                      *)
EXTENDS AuthRecords, TLAPS

(* What the elements of a list are, as it is worked off. *)
LEMMA RangeOfTail ==
  ASSUME NEW S, NEW s \in Seq(S), s # <<>>
  PROVE  /\ Head(s) \in S /\ Tail(s) \in Seq(S)
         /\ Range(s) = Range(Tail(s)) \union {Head(s)}
         /\ Range(s) \subseteq S
<1>1. Head(s) = s[1] /\ Tail(s) \in Seq(S) /\ Len(s) \in Nat \ {0}
  OBVIOUS
<1>2. \A i \in 1..Len(Tail(s)) : Tail(s)[i] = s[i + 1]
  OBVIOUS
<1>3. Len(Tail(s)) = Len(s) - 1 /\ DOMAIN s = 1..Len(s) /\ DOMAIN Tail(s) = 1..Len(Tail(s))
  BY <1>1
<1>4. ASSUME NEW x \in Range(s), x # s[1]
      PROVE  x \in Range(Tail(s))
  <2>1. PICK i \in 1..Len(s) : s[i] = x
    BY <1>3 DEF Range
  <2>2. i - 1 \in 1..Len(Tail(s)) /\ Tail(s)[i - 1] = x
    BY <1>1, <1>2, <1>3, <1>4, <2>1
  <2> QED
    BY <1>3, <2>2 DEF Range
<1>5. ASSUME NEW x \in Range(Tail(s))
      PROVE  x \in Range(s)
  <2>1. PICK i \in 1..Len(Tail(s)) : Tail(s)[i] = x
    BY <1>3 DEF Range
  <2>2. i + 1 \in 1..Len(s) /\ s[i + 1] = x
    BY <1>2, <1>3, <1>1, <2>1
  <2> QED
    BY <1>3, <2>2 DEF Range
<1>6. s[1] \in Range(s) /\ Range(s) \subseteq S
  BY <1>1, <1>3 DEF Range
<1> QED
  BY <1>1, <1>4, <1>5, <1>6

LEMMA RangeOfEmpty == Range(<<>>) = {}
BY DEF Range

LEMMA RangeWithin ==
  ASSUME NEW S, NEW s \in Seq(S)
  PROVE  Range(s) \subseteq S
BY DEF Range

(* What saves, renames and endings write. *)
LEMMA NewRecord ==
  LET r == [meta |-> 0, email |-> NoEmail] IN r \in Record /\ r \notin {NoRecord, Torn}
BY AuthAssumption DEF Record

LEMMA RenamedRecord ==
  ASSUME NEW r \in Request, r.raw # NoRecord
  PROVE  LET f == [r.raw EXCEPT !.email = r.email] IN
         /\ f \in Record /\ f \notin {NoRecord, Torn}
         /\ f.meta = r.raw.meta
BY AuthAssumption DEF Record, Request

LEMMA Idle == NoCall \in Call /\ NoRequest \in Request
BY AuthAssumption DEF NoCall, NoRequest, Call, Request

(* At the start nothing is there. *)
LEMMA InitIInv == Init => IInv
<1> SUFFICES ASSUME Init PROVE IInv
  OBVIOUS
<1>1. TypeOK
  BY AuthAssumption, Idle DEF Init, TypeOK, File
<1>2. RecordsKept /\ ListedIfThere /\ SavesAreFresh /\ TornIsBeingWritten
  BY AuthAssumption, RangeOfEmpty
  DEF Init, RecordsKept, ListedIfThere, SavesAreFresh, TornIsBeingWritten, NoCall
<1>3. CopiesAreFresh /\ Covered
  BY DEF Init, CopiesAreFresh, Covered, NoCall, NoRequest
<1> QED
  BY <1>1, <1>2, <1>3 DEF IInv

-----------------------------------------------------------------------------
(* The steps of a lifecycle call: what they are about to save.             *)

LEMMA CallBeginsKeeps ==
  ASSUME IInv, NEW keys \in KeyLists, CallBegins(keys)
  PROVE  IInv'
<1> USE AuthAssumption DEF CallBegins, NoCall, host, counts, history
<1>1. TypeOK'
  <2>1. keys \in Seq(Keys)
    BY AuthAssumption
  <2>2. call' \in Call
    BY <2>1, Idle DEF Call
  <2> QED
    BY <2>2 DEF IInv, TypeOK
<1>2. SavesAreFresh'
  BY RangeOfEmpty DEF IInv, TypeOK, File, Record, SavesAreFresh, Call
<1>3. Covered'
  BY DEF IInv, TypeOK, File, Record, Covered, Call
<1> QED
  BY <1>1, <1>2, <1>3 DEF IInv, RecordsKept, ListedIfThere, CopiesAreFresh, TornIsBeingWritten

LEMMA ListRecordsKeeps ==
  ASSUME IInv, ListRecords
  PROVE  IInv'
<1> USE AuthAssumption DEF ListRecords, host, counts, history
<1>1. TypeOK'
  BY DEF IInv, TypeOK, File, Record, Call, Request
<1>2. SavesAreFresh'
  BY DEF IInv, TypeOK, File, Record, SavesAreFresh, Call
<1>3. Covered'
  BY DEF IInv, TypeOK, File, Record, TornIsBeingWritten, Covered, Call
<1> QED
  BY <1>1, <1>2, <1>3 DEF IInv, RecordsKept, ListedIfThere, CopiesAreFresh, TornIsBeingWritten

LEMMA SkipRecordKeeps ==
  ASSUME IInv, SkipRecord
  PROVE  IInv'
<1> USE AuthAssumption DEF SkipRecord, host, counts, history
<1>1. TypeOK'
  BY RangeOfTail DEF IInv, TypeOK, File, Record, Call, Request
<1>2. SavesAreFresh'
  BY RangeOfTail DEF IInv, TypeOK, File, Record, SavesAreFresh, Call
<1>3. Covered'
  BY RangeOfTail DEF IInv, TypeOK, File, Record, Covered, Call
<1> QED
  BY <1>1, <1>2, <1>3 DEF IInv, RecordsKept, ListedIfThere, CopiesAreFresh, TornIsBeingWritten

LEMMA SaveRecordKeeps ==
  ASSUME IInv, SaveRecord
  PROVE  IInv'
<1> USE AuthAssumption DEF SaveRecord, Save, Saving, host, counts, history
<1>1. TypeOK'
  <2>1. Head(call.todo) \in Keys /\ Tail(call.todo) \in Seq(Keys)
    BY RangeOfTail DEF IInv, TypeOK, Call
  <2>2. call' \in Call
    BY <2>1 DEF IInv, TypeOK, Call
  <2>3. files' \in [Keys -> File] /\ listed' \in [Keys -> Emails \union {NoEmail, NoRecord}]
    BY <2>1, NewRecord DEF IInv, TypeOK, File
  <2> QED
    BY <2>2, <2>3 DEF IInv, TypeOK
<1>2. RecordsKept'
  BY SMTT(30), NewRecord, RangeOfTail DEF IInv, TypeOK, File, Record, SavesAreFresh, RecordsKept, Call
<1>3. ListedIfThere'
  BY NewRecord, RangeOfTail DEF IInv, TypeOK, File, Record, ListedIfThere, Call
<1>4. SavesAreFresh'
  BY NewRecord, RangeOfTail DEF IInv, TypeOK, File, Record, SavesAreFresh, Call
<1>5. CopiesAreFresh'
  BY NewRecord, RangeOfTail DEF IInv, TypeOK, File, Record, SavesAreFresh, CopiesAreFresh, Call, Request
<1>6. TornIsBeingWritten'
  BY SMTT(30), NewRecord, RangeOfTail DEF IInv, TypeOK, File, Record, TornIsBeingWritten, Call
<1>7. Covered'
  <2>1. /\ call.todo \in Seq(Keys)
        /\ call'.keys = call.keys /\ call'.todo = Tail(call.todo)
        /\ call'.existing = call.existing \union {Head(call.todo)}
    BY DEF IInv, TypeOK, Call
  <2>2. Range(call'.keys) \subseteq Range(call'.todo) \union call'.existing
    BY <2>1, RangeOfTail DEF IInv, Covered
  <2>3. \A k \in call'.existing : files'[k] \in Record \/ k \in gone' \/ k \in editing'
    BY <2>1, RangeOfTail, NewRecord DEF IInv, TypeOK, Covered, Call
  <2> QED
    BY <2>2, <2>3 DEF Covered
<1> QED
  BY <1>1, <1>2, <1>3, <1>4, <1>5, <1>6, <1>7 DEF IInv

LEMMA SaveTimesOutKeeps ==
  ASSUME IInv, SaveTimesOut
  PROVE  IInv'
<1> USE AuthAssumption DEF SaveTimesOut, Saving, NoCall, host, counts, history
<1>1. TypeOK'
  <2>1. Head(call.todo) \in Keys
    BY RangeOfTail DEF IInv, TypeOK, Call
  <2>2. late' \in [Keys -> Nat]
    BY <2>1 DEF IInv, TypeOK
  <2> QED
    BY <2>2, Idle DEF IInv, TypeOK
<1>2. SavesAreFresh'
  BY SMTT(30), RangeOfTail, RangeOfEmpty DEF IInv, TypeOK, File, Record, SavesAreFresh, Call
<1>3. Covered'
  BY DEF IInv, TypeOK, File, Record, Covered, Call
<1> QED
  BY <1>1, <1>2, <1>3 DEF IInv, RecordsKept, ListedIfThere, CopiesAreFresh, TornIsBeingWritten

LEMMA CallFailsKeeps ==
  ASSUME IInv, CallFails
  PROVE  IInv'
<1> USE AuthAssumption DEF CallFails, Saving, NoCall, host, counts, history
<1>1. TypeOK'
  BY Idle DEF IInv, TypeOK, File, Record, Call, Request
<1>2. SavesAreFresh'
  BY RangeOfEmpty DEF IInv, TypeOK, File, Record, SavesAreFresh, Call
<1>3. Covered'
  BY DEF IInv, TypeOK, File, Record, Covered, Call
<1> QED
  BY <1>1, <1>2, <1>3 DEF IInv, RecordsKept, ListedIfThere, CopiesAreFresh, TornIsBeingWritten

LEMMA CallSucceedsKeeps ==
  ASSUME IInv, CallSucceeds
  PROVE  IInv'
<1> USE AuthAssumption DEF CallSucceeds, NoCall, host, counts, history
<1>1. TypeOK'
  BY Idle, RangeWithin DEF IInv, TypeOK, File, Record, Call, Request
<1>2. SavesAreFresh'
  BY RangeOfEmpty DEF IInv, TypeOK, File, Record, SavesAreFresh, Call
<1>3. Covered'
  BY DEF IInv, TypeOK, File, Record, Covered, Call
<1> QED
  BY <1>1, <1>2, <1>3 DEF IInv, RecordsKept, ListedIfThere, CopiesAreFresh, TornIsBeingWritten

-----------------------------------------------------------------------------
(* The steps of a quota request: what it has read.                         *)

LEMMA RequestBeginsKeeps ==
  ASSUME IInv, NEW q \in Requests, NEW k \in Keys, NEW email \in Emails, RequestBegins(q, k, email)
  PROVE  IInv'
<1> USE AuthAssumption DEF RequestBegins, host, counts, history
<1>1. TypeOK'
  BY DEF IInv, TypeOK, File, Record, Call, Request
<1>2. CopiesAreFresh'
  BY DEF IInv, TypeOK, File, Record, CopiesAreFresh, Request
<1> QED
  BY <1>1, <1>2 DEF IInv, RecordsKept, ListedIfThere, SavesAreFresh, TornIsBeingWritten, Covered

LEMMA SyncListKeeps ==
  ASSUME IInv, NEW q \in Requests, SyncList(q)
  PROVE  IInv'
<1> USE DEF SyncList, host, counts, history
<1>1. \E r \in Request : request' = [request EXCEPT ![q] = r] /\ r.raw = NoRecord
  <2>1. CASE listed[request[q].key] \in {NoRecord, request[q].email}
    BY <2>1, Idle DEF RequestEnds, NoRequest
  <2>2. CASE listed[request[q].key] \notin {NoRecord, request[q].email}
    <3>1. [request[q] EXCEPT !.at = "read"] \in Request /\ request[q].raw = NoRecord
      BY DEF IInv, TypeOK, Request
    <3> QED
      BY <2>2, <3>1 DEF IInv, TypeOK, Request
  <2> QED
    BY <2>1, <2>2
<1>2. TypeOK' /\ CopiesAreFresh'
  BY <1>1 DEF IInv, TypeOK, CopiesAreFresh
<1> QED
  BY <1>2 DEF IInv, RecordsKept, ListedIfThere, SavesAreFresh, TornIsBeingWritten, Covered

LEMMA SyncReadKeeps ==
  ASSUME IInv, NEW q \in Requests, SyncRead(q)
  PROVE  IInv'
<1> DEFINE k == request[q].key
           w == [request[q] EXCEPT !.at = "write", !.raw = files[k]]
<1> USE DEF SyncRead, host, counts, history
<1>1. CASE files[k] \in {NoRecord, Torn} \/ ParseAuth(files[k]) = request[q].email
  <2>1. TypeOK' /\ CopiesAreFresh'
    BY <1>1, Idle DEF IInv, TypeOK, CopiesAreFresh, RequestEnds, NoRequest
  <2> QED
    BY <2>1 DEF IInv, RecordsKept, ListedIfThere, SavesAreFresh, TornIsBeingWritten, Covered
<1>2. CASE ~(files[k] \in {NoRecord, Torn} \/ ParseAuth(files[k]) = request[q].email)
  <2>1. request[q] \in Request /\ k \in Keys
    BY DEF IInv, TypeOK, Request
  <2>2. files[k] \in Record /\ files[k] # NoRecord /\ k \notin editing
    BY <1>2, <2>1 DEF IInv, TypeOK, File, TornIsBeingWritten
  <2>3. w \in Request /\ w.key = k /\ w.raw = files[k]
    BY <2>1, <2>2 DEF Request
  <2>4. request' = [request EXCEPT ![q] = w]
    BY <1>2
  <2>5. TypeOK'
    BY <2>3, <2>4 DEF IInv, TypeOK
  <2>6. k \notin exposed => files[k].meta = intent[k]
    BY <2>1, <2>2 DEF IInv, RecordsKept
  <2>7. CopiesAreFresh'
    BY <2>2, <2>3, <2>4, <2>6 DEF IInv, TypeOK, CopiesAreFresh
  <2> QED
    BY <2>5, <2>7 DEF IInv, RecordsKept, ListedIfThere, SavesAreFresh, TornIsBeingWritten, Covered
<1> QED
  BY <1>1, <1>2

LEMMA WriteTempKeeps ==
  ASSUME IInv, NEW q \in Requests, WriteTemp(q)
  PROVE  IInv'
<1> DEFINE w == [request[q] EXCEPT !.at = "rename"]
<1> USE DEF WriteTemp, host, counts, history
<1>1. w \in Request /\ w.key = request[q].key /\ w.raw = request[q].raw
  BY DEF IInv, TypeOK, Request
<1>2. request' = [request EXCEPT ![q] = w]
  OBVIOUS
<1>3. TypeOK' /\ CopiesAreFresh'
  BY <1>1, <1>2 DEF IInv, TypeOK, CopiesAreFresh
<1> QED
  BY <1>3 DEF IInv, RecordsKept, ListedIfThere, SavesAreFresh, TornIsBeingWritten, Covered

LEMMA RenameKeeps ==
  ASSUME IInv, NEW q \in Requests, Rename(q)
  PROVE  IInv'
<1> DEFINE k == request[q].key
           f == [request[q].raw EXCEPT !.email = request[q].email]
<1>1. /\ request[q] \in Request /\ request[q].raw # NoRecord
      /\ k \in Keys
  BY DEF IInv, TypeOK, Request, Rename
<1>2. f \in Record /\ f # NoRecord /\ f # Torn /\ f.meta = request[q].raw.meta
  BY <1>1, RenamedRecord
<1>3. k \notin exposed => f.meta = intent[k] /\ files[k] # NoRecord
  BY <1>1, <1>2 DEF IInv, CopiesAreFresh
<1>4. /\ files' = [files EXCEPT ![k] = f]
      /\ editing' = editing \ {k} /\ events' = events \union {k}
      /\ request' = [request EXCEPT ![q] = NoRequest]
      /\ UNCHANGED <<listed, late, config, call, counts, history>>
  BY DEF Rename, RequestEnds
<1> HIDE DEF f, k
<1> USE DEF counts, history
<1>5. TypeOK'
  <2>1. files' \in [Keys -> File] /\ request' \in [Requests -> Request]
    BY <1>2, <1>4, Idle DEF IInv, TypeOK, File
  <2> QED
    BY <1>1, <1>4, <2>1 DEF IInv, TypeOK
<1>6. RecordsKept' /\ TornIsBeingWritten'
  BY <1>1, <1>2, <1>3, <1>4 DEF IInv, TypeOK, RecordsKept, TornIsBeingWritten
<1>7. ListedIfThere' /\ SavesAreFresh'
  BY <1>1, <1>2, <1>3, <1>4 DEF IInv, TypeOK, ListedIfThere, SavesAreFresh
<1>8. CopiesAreFresh'
  BY <1>1, <1>2, <1>4 DEF IInv, TypeOK, CopiesAreFresh, NoRequest
<1>9. Covered'
  BY <1>1, <1>2, <1>4 DEF IInv, TypeOK, Covered, Call
<1> QED
  BY <1>5, <1>6, <1>7, <1>8, <1>9 DEF IInv

LEMMA SyncFailsKeeps ==
  ASSUME IInv, NEW q \in Requests, SyncFails(q)
  PROVE  IInv'
<1> USE AuthAssumption DEF SyncFails, RequestEnds, NoRequest, host, counts, history
<1>1. TypeOK'
  BY Idle DEF IInv, TypeOK, File, Record, Call, Request
<1>2. CopiesAreFresh'
  BY DEF IInv, TypeOK, File, Record, CopiesAreFresh, Request
<1> QED
  BY <1>1, <1>2 DEF IInv, RecordsKept, ListedIfThere, SavesAreFresh, TornIsBeingWritten, Covered

-----------------------------------------------------------------------------
(* The host, its operator, and crashes.                                    *)

LEMMA WatchKeeps ==
  ASSUME IInv, NEW k \in Keys, Watch(k)
  PROVE  IInv'
<1> USE AuthAssumption DEF Watch, ParseAuth, host, counts, history
<1>1. TypeOK'
  BY DEF IInv, TypeOK, File, Record, Call, Request
<1>2. ListedIfThere'
  BY DEF IInv, TypeOK, File, Record, ListedIfThere
<1>3. SavesAreFresh'
  BY DEF IInv, TypeOK, File, Record, SavesAreFresh
<1>4. TornIsBeingWritten'
  BY DEF IInv, TypeOK, File, Record, TornIsBeingWritten
<1> QED
  BY <1>1, <1>2, <1>3, <1>4 DEF IInv, RecordsKept, CopiesAreFresh, Covered

LEMMA LateSaveKeeps ==
  ASSUME IInv, NEW k \in Keys, LateSave(k)
  PROVE  IInv'
<1> USE AuthAssumption DEF LateSave, Save, host, counts, history
<1>1. TypeOK'
  BY SMTT(30), NewRecord DEF IInv, TypeOK, File, Record, Call, Request
<1>2. RecordsKept'
  BY NewRecord DEF IInv, TypeOK, File, Record, SavesAreFresh, RecordsKept
<1>3. ListedIfThere'
  BY DEF IInv, TypeOK, File, Record, ListedIfThere
<1>4. SavesAreFresh'
  BY DEF IInv, TypeOK, File, Record, SavesAreFresh
<1>5. CopiesAreFresh'
  BY NewRecord DEF IInv, TypeOK, File, Record, SavesAreFresh, CopiesAreFresh, Request
<1>6. TornIsBeingWritten'
  BY NewRecord DEF IInv, TypeOK, File, Record, TornIsBeingWritten
<1>7. Covered'
  BY DEF IInv, TypeOK, File, Record, Covered
<1> QED
  BY <1>1, <1>2, <1>3, <1>4, <1>5, <1>6, <1>7 DEF IInv

LEMMA EditBeginsKeeps ==
  ASSUME IInv, NEW k \in Keys, EditBegins(k)
  PROVE  IInv'
<1> USE AuthAssumption DEF EditBegins, Threatened, host, counts, history
<1>1. TypeOK'
  BY DEF IInv, TypeOK, File, Record, Call, Request
<1>2. RecordsKept'
  BY DEF IInv, TypeOK, File, Record, RecordsKept
<1>3. ListedIfThere'
  BY DEF IInv, TypeOK, File, Record, ListedIfThere
<1>4. SavesAreFresh'
  BY DEF IInv, TypeOK, File, Record, ListedIfThere, SavesAreFresh
<1>5. CopiesAreFresh'
  BY DEF IInv, TypeOK, File, Record, CopiesAreFresh, Request
<1>6. TornIsBeingWritten'
  BY DEF IInv, TypeOK, File, Record, TornIsBeingWritten
<1>7. Covered'
  BY DEF IInv, TypeOK, File, Record, Covered
<1> QED
  BY <1>1, <1>2, <1>3, <1>4, <1>5, <1>6, <1>7 DEF IInv

LEMMA DeleteKeeps ==
  ASSUME IInv, NEW k \in Keys, Delete(k)
  PROVE  IInv'
<1> USE AuthAssumption DEF Delete, Threatened, host, counts, history
<1>1. TypeOK'
  <2>1. files' \in [Keys -> File] /\ intent' \in [Keys -> 0..MaxEdits]
    BY DEF IInv, TypeOK, File
  <2> QED
    BY <2>1 DEF IInv, TypeOK
<1>2. RecordsKept'
  BY DEF IInv, TypeOK, File, Record, RecordsKept
<1>3. ListedIfThere'
  BY DEF IInv, TypeOK, File, Record, ListedIfThere
<1>4. SavesAreFresh'
  BY DEF IInv, TypeOK, File, Record, SavesAreFresh
<1>5. CopiesAreFresh'
  BY DEF IInv, TypeOK, File, Record, CopiesAreFresh, Request
<1>6. TornIsBeingWritten'
  BY DEF IInv, TypeOK, File, Record, TornIsBeingWritten
<1>7. Covered'
  BY DEF IInv, TypeOK, File, Record, Covered
<1> QED
  BY <1>1, <1>2, <1>3, <1>4, <1>5, <1>6, <1>7 DEF IInv

LEMMA EditEndsKeeps ==
  ASSUME IInv, NEW k \in Keys, NEW email \in Emails \union {NoEmail}, EditEnds(k, email)
  PROVE  IInv'
<1> USE AuthAssumption DEF EditEnds, host, counts, history
<1>1. TypeOK'
  BY DEF IInv, TypeOK, File, Record, Call, Request
<1>2. RecordsKept'
  BY DEF IInv, TypeOK, File, Record, RecordsKept
<1>3. ListedIfThere'
  BY DEF IInv, TypeOK, File, Record, TornIsBeingWritten, ListedIfThere
<1>4. SavesAreFresh'
  BY DEF IInv, TypeOK, File, Record, SavesAreFresh
<1>5. CopiesAreFresh'
  BY DEF IInv, TypeOK, File, Record, CopiesAreFresh, Request
<1>6. TornIsBeingWritten'
  BY DEF IInv, TypeOK, File, Record, TornIsBeingWritten
<1>7. Covered'
  BY DEF IInv, TypeOK, File, Record, Covered
<1> QED
  BY <1>1, <1>2, <1>3, <1>4, <1>5, <1>6, <1>7 DEF IInv

LEMMA CrashKeeps ==
  ASSUME IInv, Crash
  PROVE  IInv'
<1> USE AuthAssumption DEF Crash, ParseAuth, NoCall, NoRequest, host, counts, history
<1>1. TypeOK'
  BY Idle DEF IInv, TypeOK, File, Record, Call, Request
<1>2. RecordsKept'
  BY DEF IInv, TypeOK, File, Record, RecordsKept
<1>3. ListedIfThere'
  BY DEF IInv, TypeOK, File, Record, RecordsKept, ListedIfThere
<1>4. SavesAreFresh'
  BY RangeOfEmpty DEF IInv, TypeOK, File, Record, ListedIfThere, RecordsKept, SavesAreFresh
<1>5. CopiesAreFresh'
  BY DEF IInv, TypeOK, File, Record, CopiesAreFresh, Request
<1>6. TornIsBeingWritten'
  BY DEF IInv, TypeOK, File, Record, TornIsBeingWritten
<1>7. Covered'
  BY DEF IInv, TypeOK, File, Record, Covered
<1> QED
  BY <1>1, <1>2, <1>3, <1>4, <1>5, <1>6, <1>7 DEF IInv

-----------------------------------------------------------------------------

(* The invariant is inductive. *)
LEMMA NextKeeps ==
  ASSUME IInv, [Next]_vars
  PROVE  IInv'
<1>1. CASE UNCHANGED vars
  BY <1>1 DEF vars, host, counts, history, IInv, TypeOK, RecordsKept, ListedIfThere,
     SavesAreFresh, CopiesAreFresh, TornIsBeingWritten, Covered
<1>2. ASSUME NEW keys \in KeyLists, CallBegins(keys)
      PROVE  IInv'
  BY <1>2, CallBeginsKeeps
<1>3. CASE ListRecords \/ SkipRecord \/ SaveRecord \/ SaveTimesOut \/ CallFails \/ CallSucceeds
  BY <1>3, ListRecordsKeeps, SkipRecordKeeps, SaveRecordKeeps, SaveTimesOutKeeps,
     CallFailsKeeps, CallSucceedsKeeps
<1>4. ASSUME NEW q \in Requests,
             \/ \E k \in Keys, email \in Emails : RequestBegins(q, k, email)
             \/ SyncList(q) \/ SyncRead(q) \/ WriteTemp(q) \/ Rename(q) \/ SyncFails(q)
      PROVE  IInv'
  BY <1>4, RequestBeginsKeeps, SyncListKeeps, SyncReadKeeps, WriteTempKeeps, RenameKeeps,
     SyncFailsKeeps
<1>5. ASSUME NEW k \in Keys,
             \/ Watch(k) \/ LateSave(k) \/ EditBegins(k) \/ Delete(k)
             \/ \E email \in Emails \union {NoEmail} : EditEnds(k, email)
      PROVE  IInv'
  BY <1>5, WatchKeeps, LateSaveKeeps, EditBeginsKeeps, DeleteKeeps, EditEndsKeeps
<1>6. CASE Crash
  BY <1>6, CrashKeeps
<1> QED
  BY <1>1, <1>2, <1>3, <1>4, <1>5, <1>6 DEF Next

(* So it holds throughout. *)
THEOREM Invariance == Spec => []IInv
BY InitIInv, NextKeeps, PTL DEF Spec

(* Everything has its type; the plugin holds the bytes of a file only      *)
(* between the read and the rename of syncAccountEmail.                    *)
THEOREM TypeCorrect == Spec => []TypeOK
<1>1. IInv => TypeOK
  BY DEF IInv
<1> QED
  BY <1>1, Invariance, PTL

(* plugin.go:385 and account_email.go:25, "host-managed metadata is never  *)
(* overwritten" and "survive byte for byte", outside the windows that      *)
(* RecordsKept names: whatever calls time out, requests race and hosts die. *)
THEOREM EditsAreKept == Spec => []RecordsKept
<1>1. IInv => RecordsKept
  BY DEF IInv
<1> QED
  BY <1>1, Invariance, PTL

(* plugin.go:384, "makes auth files idempotently": every call that         *)
(* succeeds, whatever became of those before it, leaves a readable record  *)
(* of each of its keys that nobody is changing or has removed meanwhile.   *)
THEOREM AlwaysMaterialized == Spec => Materialized
<1> DEFINE A == CallSucceeds =>
                  \A k \in Range(call.keys) : files[k] \in Record \/ k \in gone \/ k \in editing
<1>1. IInv => A
  BY RangeOfEmpty DEF IInv, Covered, CallSucceeds
<1>2. IInv /\ [Next]_vars => [A]_vars
  BY <1>1
<1> QED
  BY <1>2, Invariance, PTL DEF Spec, Materialized

=============================================================================
