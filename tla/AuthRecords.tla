----------------------------- MODULE AuthRecords -----------------------------
(***************************************************************************)
(* The credentials the plugin keeps in the host: one auth file per API key *)
(* of the configuration.  A lifecycle call creates the missing ones        *)
(* through host.auth.save (plugin.go); a quota request writes the account's*)
(* email into the key's file, past the host (quota.go, account_email.go);  *)
(* and the host's operator edits and removes the same files.  Calls are    *)
(* serialized by lifeMu, quota requests run concurrently, and nobody       *)
(* shares a lock with the host.                                            *)
(*                                                                         *)
(* A file holds what the plugin writes, an email, and what it must leave   *)
(* alone (label, disabled, host metadata), of which only the number of the *)
(* operator's edit it stems from is kept.  That its name and id derive     *)
(* from the key, and from nothing else, is built in: files are named by    *)
(* keys.                                                                   *)
(***************************************************************************)
EXTENDS Integers, Sequences, Functions

CONSTANTS
  Keys,         (* API keys                                                *)
  KeyLists,     (* the lists of keys configurations can bring              *)
  Emails,       (* the mailboxes an account may report                     *)
  Requests,     (* concurrent quota requests                               *)
  NoRecord,     (* no file, or no entry in the host's list                 *)
  Torn,         (* a file that holds no JSON                               *)
  NoEmail,
  MaxCalls, MaxEdits, MaxCrashes   (* bounds                               *)

Record == [meta : 0..MaxEdits, email : Emails \union {NoEmail}]

ASSUME AuthAssumption ==
  /\ KeyLists \subseteq Seq(Keys)
  /\ NoRecord \notin Keys \union Emails \union {NoEmail, Torn}
  /\ NoEmail \notin Emails
  /\ {NoRecord, Torn} \cap Record = {}
  /\ MaxCalls \in Nat /\ MaxEdits \in Nat /\ MaxCrashes \in Nat

VARIABLES
  files,     (* the auth directory                                         *)
  listed,    (* what host.auth.list answers: the emails of the records     *)
  events,    (* files the host's watcher has yet to look at                *)
  editing,   (* the keys whose file the operator is writing                *)
  late,      (* saves that timed out and are still to be performed         *)
  config,    (* Manager.cfg.APIKeys, as a set                              *)
  call,      (* the lifecycle call that holds lifeMu                       *)
  request,   (* the quota requests                                         *)
  calls, edits, crashes,   (* counted against the bounds                   *)
  intent,    (* history: the edit a file should stem from                  *)
  exposed,   (* history: keys edited under an overwrite that was under way *)
  gone       (* history: files removed behind the back of the call         *)

host    == <<files, listed, events, editing>>
counts  == <<calls, edits, crashes>>
history == <<intent, exposed, gone>>
vars    == <<host, late, config, call, request, counts, history>>

File   == Record \union {NoRecord, Torn}

Call == [at : {"idle", "list", "save"}, keys : Seq(Keys), todo : Seq(Keys),
         existing : SUBSET Keys]
Request ==
  {r \in [at : {"idle", "list", "read", "write", "rename"}, key : Keys \union {NoRecord},
          email : Emails \union {NoEmail}, raw : Record \union {NoRecord}] :
     /\ r.at # "idle" => r.key \in Keys /\ r.email \in Emails
     /\ r.raw # NoRecord <=> r.at \in {"write", "rename"}}

NoCall    == [at |-> "idle", keys |-> <<>>, todo |-> <<>>, existing |-> {}]
NoRequest == [at |-> "idle", key |-> NoRecord, email |-> NoEmail, raw |-> NoRecord]

Init ==
  /\ files = [k \in Keys |-> NoRecord]
  /\ listed = [k \in Keys |-> NoRecord]
  /\ events = {} /\ editing = {}
  /\ late = [k \in Keys |-> 0]
  /\ config = {}
  /\ call = NoCall
  /\ request = [q \in Requests |-> NoRequest]
  /\ calls = 0 /\ edits = 0 /\ crashes = 0
  /\ intent = [k \in Keys |-> 0] /\ exposed = {} /\ gone = {}

-----------------------------------------------------------------------------
(* The host (external), as the plugin relies on it.                        *)

(* ParseAuth: the entry of a file; without JSON there is none. *)
ParseAuth(f) == IF f \in {NoRecord, Torn} THEN NoRecord ELSE f.email

(* host.auth.save is performed: the record replaces the file and is listed *)
(* at once.  What the operator was writing is lost.                        *)
Save(k) ==
  /\ files' = [files EXCEPT ![k] = [meta |-> 0, email |-> NoEmail]]
  /\ listed' = [listed EXCEPT ![k] = NoEmail]
  /\ editing' = editing \ {k}
  /\ UNCHANGED events

(* A file that does not parse makes the watcher drop the event. *)
Watch(k) ==
  /\ k \in events
  /\ events' = events \ {k}
  /\ listed' = [listed EXCEPT ![k] = IF files[k] = Torn THEN @ ELSE ParseAuth(files[k])]
  /\ UNCHANGED <<files, editing, late, config, call, request, counts, history>>

(* An overwrite of k is under way that does not know of an edit made now:  *)
(* by a save that timed out, by a call that did not find k in the list, by *)
(* a request that has read the file.                                       *)
Threatened(k) ==
  \/ late[k] > 0
  \/ k \in Range(call.todo) \ call.existing
  \/ \E q \in Requests : request[q].key = k /\ request[q].raw # NoRecord

(* The operator changes a record in place... *)
EditBegins(k) ==
  /\ edits < MaxEdits /\ edits' = edits + 1
  /\ k \notin editing /\ files[k] \notin {NoRecord, Torn}
  /\ files' = [files EXCEPT ![k] = Torn]
  /\ editing' = editing \union {k}
  /\ events' = events \union {k}
  /\ intent' = [intent EXCEPT ![k] = edits + 1]
  /\ exposed' = IF Threatened(k) THEN exposed \union {k} ELSE exposed
  /\ UNCHANGED <<listed, late, config, call, request, calls, crashes, gone>>

(* ... its email, too. *)
EditEnds(k, email) ==
  /\ k \in editing
  /\ files' = [files EXCEPT ![k] = [meta |-> intent[k], email |-> email]]
  /\ editing' = editing \ {k}
  /\ events' = events \union {k}
  /\ UNCHANGED <<listed, late, config, call, request, counts, history>>

(* ... or removes it: what is created after that starts anew. *)
Delete(k) ==
  /\ edits < MaxEdits /\ edits' = edits + 1
  /\ k \notin editing /\ files[k] # NoRecord
  /\ files' = [files EXCEPT ![k] = NoRecord]
  /\ events' = events \union {k}
  /\ intent' = [intent EXCEPT ![k] = 0]
  /\ exposed' = IF Threatened(k) THEN exposed \union {k} ELSE exposed
  /\ gone' = gone \union {k}
  /\ UNCHANGED <<listed, editing, late, config, call, request, calls, crashes>>

LateSave(k) ==
  /\ late[k] > 0
  /\ late' = [late EXCEPT ![k] = @ - 1]
  /\ Save(k)
  /\ UNCHANGED <<config, call, request, counts, history>>

-----------------------------------------------------------------------------
(* A lifecycle call up to its catalog refresh: materializeAuthRecords, and *)
(* the configuration it installs then.                                     *)

CallBegins(keys) ==
  /\ call.at = "idle"
  /\ calls < MaxCalls /\ calls' = calls + 1
  /\ call' = [NoCall EXCEPT !.at = "list", !.keys = keys]
  /\ UNCHANGED <<host, late, config, request, edits, crashes, history>>

(* Mutation of ListRecords: every record is saved, whoever has it already. *)
ListNothing ==
  /\ call.at = "list"
  /\ call' = [call EXCEPT !.at = "save", !.todo = call.keys]
  /\ gone' = {k \in Keys : listed[k] # NoRecord /\ files[k] = NoRecord}
  /\ UNCHANGED <<host, late, config, request, counts, intent, exposed>>

ListRecords ==
  /\ call.at = "list"
  /\ call' = [call EXCEPT !.at = "save", !.todo = call.keys,
                          !.existing = {k \in Keys : listed[k] # NoRecord}]
  /\ gone' = {k \in Keys : listed[k] # NoRecord /\ files[k] = NoRecord}
  /\ UNCHANGED <<host, late, config, request, counts, intent, exposed>>

(* What is listed is left as it is. *)
SkipRecord ==
  /\ call.at = "save" /\ call.todo # <<>> /\ Head(call.todo) \in call.existing
  /\ call' = [call EXCEPT !.todo = Tail(@)]
  /\ UNCHANGED <<host, late, config, request, counts, history>>

Saving == call.at = "save" /\ call.todo # <<>> /\ Head(call.todo) \notin call.existing

SaveRecord ==
  /\ Saving
  /\ call' = [call EXCEPT !.todo = Tail(@), !.existing = @ \union {Head(call.todo)}]
  /\ Save(Head(call.todo))
  /\ UNCHANGED <<late, config, request, counts, history>>

(* Mutation of SaveTimesOut: the timeout is taken for an answer. *)
SaveTimesOutUnnoticed ==
  /\ Saving
  /\ late' = [late EXCEPT ![Head(call.todo)] = @ + 1]
  /\ call' = [call EXCEPT !.todo = Tail(@)]
  /\ UNCHANGED <<host, config, request, counts, history>>

(* callWithTimeout gives up; the host goes on. *)
SaveTimesOut ==
  /\ Saving
  /\ late' = [late EXCEPT ![Head(call.todo)] = @ + 1]
  /\ call' = NoCall
  /\ UNCHANGED <<host, config, request, counts, history>>

(* host.auth.list fails or times out, or the host refuses the save. *)
CallFails ==
  /\ call.at = "list" \/ Saving
  /\ call' = NoCall
  /\ UNCHANGED <<host, late, config, request, counts, history>>

CallSucceeds ==
  /\ call.at = "save" /\ call.todo = <<>>
  /\ config' = Range(call.keys)
  /\ call' = NoCall
  /\ UNCHANGED <<host, late, request, counts, history>>

-----------------------------------------------------------------------------
(* A quota request: HandleManagement and syncAccountEmail.                 *)

(* fetchQuota found an email; without one nothing is written. *)
RequestBegins(q, k, email) ==
  /\ request[q].at = "idle"
  /\ k \in config
  /\ request' = [request EXCEPT ![q] =
                   [at |-> "list", key |-> k, email |-> email, raw |-> NoRecord]]
  /\ UNCHANGED <<host, late, config, call, counts, history>>

RequestEnds(q) == request' = [request EXCEPT ![q] = NoRequest]

SyncList(q) ==
  /\ request[q].at = "list"
  /\ IF listed[request[q].key] \in {NoRecord, request[q].email}
     THEN RequestEnds(q)
     ELSE request' = [request EXCEPT ![q].at = "read"]
  /\ UNCHANGED <<host, late, config, call, counts, history>>

(* Mutation of SyncRead: what was read is not checked to be JSON. *)
SyncReadTorn(q) ==
  /\ request[q].at = "read"
  /\ request' = [request EXCEPT ![q].at = "write", ![q].raw = files[request[q].key]]
  /\ UNCHANGED <<host, late, config, call, counts, history>>

SyncRead(q) ==
  /\ request[q].at = "read"
  /\ LET raw == files[request[q].key] IN
     IF raw \in {NoRecord, Torn} \/ ParseAuth(raw) = request[q].email
     THEN RequestEnds(q)
     ELSE request' = [request EXCEPT ![q].at = "write", ![q].raw = raw]
  /\ UNCHANGED <<host, late, config, call, counts, history>>

(* Mutation of WriteTemp: the auth file itself is rewritten. *)
WriteInPlace(q) ==
  /\ request[q].at = "write"
  /\ files' = [files EXCEPT ![request[q].key] = Torn]
  /\ events' = events \union {request[q].key}
  /\ request' = [request EXCEPT ![q].at = "rename"]
  /\ UNCHANGED <<listed, editing, late, config, call, counts, history>>

(* A name of its own, which the watcher does not look at. *)
WriteTemp(q) ==
  /\ request[q].at = "write"
  /\ request' = [request EXCEPT ![q].at = "rename"]
  /\ UNCHANGED <<host, late, config, call, counts, history>>

(* The file the operator is writing is no longer the one in the directory. *)
Rename(q) ==
  /\ request[q].at = "rename"
  /\ LET k == request[q].key IN
     /\ files' = [files EXCEPT ![k] = [request[q].raw EXCEPT !.email = request[q].email]]
     /\ editing' = editing \ {k}
     /\ events' = events \union {k}
  /\ RequestEnds(q)
  /\ UNCHANGED <<listed, late, config, call, counts, history>>

(* A step fails: the host's list, the read, the write of the copy.  The    *)
(* card is answered all the same.                                          *)
SyncFails(q) ==
  /\ request[q].at # "idle"
  /\ RequestEnds(q)
  /\ UNCHANGED <<host, late, config, call, counts, history>>

-----------------------------------------------------------------------------
(* The host dies, and the plugin with it; what is on disk is listed when   *)
(* it starts again.  An edit is left as far as it got.                     *)
Crash ==
  /\ crashes < MaxCrashes /\ crashes' = crashes + 1
  /\ listed' = [k \in Keys |-> ParseAuth(files[k])]
  /\ events' = {} /\ editing' = {}
  /\ late' = [k \in Keys |-> 0]
  /\ config' = {}
  /\ call' = NoCall
  /\ request' = [q \in Requests |-> NoRequest]
  /\ exposed' = exposed \union editing
  /\ UNCHANGED <<files, calls, edits, intent, gone>>

Next ==
  \/ \E keys \in KeyLists : CallBegins(keys)
  \/ ListRecords \/ SkipRecord \/ SaveRecord \/ SaveTimesOut \/ CallFails \/ CallSucceeds
  \/ \E q \in Requests :
       \/ \E k \in Keys, email \in Emails : RequestBegins(q, k, email)
       \/ SyncList(q) \/ SyncRead(q) \/ WriteTemp(q) \/ Rename(q) \/ SyncFails(q)
  \/ \E k \in Keys :
       \/ Watch(k) \/ LateSave(k) \/ EditBegins(k) \/ Delete(k)
       \/ \E email \in Emails \union {NoEmail} : EditEnds(k, email)
  \/ Crash

Spec == Init /\ [][Next]_vars

-----------------------------------------------------------------------------
(* Everything has its type; the plugin holds the bytes of a file only      *)
(* between the read and the rename.                                        *)
TypeOK ==
  /\ files \in [Keys -> File]
  /\ listed \in [Keys -> Emails \union {NoEmail, NoRecord}]
  /\ events \subseteq Keys /\ editing \subseteq Keys
  /\ late \in [Keys -> Nat]
  /\ config \subseteq Keys
  /\ call \in Call
  /\ request \in [Requests -> Request]
  /\ calls \in 0..MaxCalls /\ edits \in 0..MaxEdits /\ crashes \in 0..MaxCrashes
  /\ intent \in [Keys -> 0..MaxEdits]
  /\ exposed \subseteq Keys /\ gone \subseteq Keys

(* plugin.go:384 "idempotently": a call that succeeds, the first or one    *)
(* that repeats a call which failed, timed out or crashed half-way, leaves *)
(* a readable record of every key of its configuration, but for what the   *)
(* operator removes or is writing meanwhile.                               *)
Materialized ==
  [][CallSucceeds =>
       \A k \in Range(call.keys) : files[k] \in Record \/ k \in gone \/ k \in editing]_vars

(* plugin.go:385 "host-managed metadata is never overwritten", account_    *)
(* email.go:25 "survive byte for byte": a file says what the operator last *)
(* made it say, and is whole, unless the edit was made while an overwrite  *)
(* that could not know of it was under way (or the host died over it).     *)
(* These windows are real, so the comments hold with this exception only.  *)
RecordsKept ==
  \A k \in Keys \ (exposed \union editing) :
    files[k] # NoRecord => files[k] \in Record /\ files[k].meta = intent[k]

-----------------------------------------------------------------------------
(* Why: what was edited cannot be overwritten by anybody who did not see   *)
(* it.  A record that is there is listed; whoever is about to save one     *)
(* found, or was to find, none, and nobody has edited it since; who is     *)
(* about to rename has read the last edit.                                 *)

ListedIfThere ==
  \A k \in Keys \ exposed : files[k] # NoRecord => listed[k] # NoRecord

SavesAreFresh ==
  \A k \in Keys \ exposed :
    \/ late[k] > 0
    \/ NoRecord \in {files[k], listed[k]}
    \/ k \in Range(call.todo) \ call.existing
    => intent[k] = 0

CopiesAreFresh ==
  \A q \in Requests :
    request[q].raw # NoRecord /\ request[q].key \notin exposed =>
      request[q].raw.meta = intent[request[q].key] /\ files[request[q].key] # NoRecord

(* Only an edit leaves a file torn; once the host has died over it, it is  *)
(* not listed.                                                             *)
TornIsBeingWritten ==
  \A k \in Keys :
    /\ k \in editing => files[k] = Torn
    /\ files[k] = Torn /\ k \notin editing => listed[k] = NoRecord

(* What the call has found or saved is there. *)
Covered ==
  call.at = "save" =>
    /\ Range(call.keys) \subseteq Range(call.todo) \union call.existing
    /\ \A k \in call.existing : files[k] \in Record \/ k \in gone \/ k \in editing

IInv ==
  /\ TypeOK
  /\ RecordsKept
  /\ ListedIfThere
  /\ SavesAreFresh
  /\ CopiesAreFresh
  /\ TornIsBeingWritten
  /\ Covered

=============================================================================
