--------------------------- MODULE StreamEndProofs ---------------------------
(***************************************************************************)
(* Proofs about the end of a stream, from those about its blocks in        *)
(* StreamConvertersProofs: an answer closed as a success ends as the       *)
(* client's format demands, for every set of lines and every number.       *)
(*                                                                         *)
(* The argument.  While a stream is open, nothing that ends it was said    *)
(* (StreamOpen): a converter holds the finish reason back until its input  *)
(* is over, or tells it once and then only takes lines that no longer say  *)
(* anything of the answer.  When the input is over, every converter closes *)
(* what it takes to be open, which by StreamInv is all that is open, and   *)
(* says its last event; whatever makes it fail instead is an error and no  *)
(* success (WholeInv).                                                     *)
(***************************************************************************)
EXTENDS StreamConvertersProofs

EndEvents     == {"message_delta", "finish", "message_stop", "completed"}
ContentEvents == {"start", "stop", "delta", "content"}

Never(w, K) == \A k \in DOMAIN w : w[k].ev \notin K
Ever(w, ev) == \E k \in DOMAIN w : w[k].ev = ev

EndEvent(format) == IF format = "claude" THEN "message_stop" ELSE "completed"

(* The first half of EndIsWhole, of any sequence of events.                *)
EndLast(w, format) ==
  /\ \A k \in DOMAIN w : w[k].ev = EndEvent(format) => k = Len(w)
  /\ \A j, k \in DOMAIN w : w[j].ev = "message_delta" /\ w[k].ev = "message_delta" => j = k
  /\ \A e, k \in DOMAIN w :
       w[k].ev \in {"message_delta", "finish"} /\ w[e].ev \in ContentEvents => e < k

(* v is w and some events of the kinds K.                                  *)
Extends(v, w, K) ==
  /\ IsASequence(v) /\ IsASequence(w)
  /\ Len(w) <= Len(v)
  /\ \A k \in DOMAIN w : k \in DOMAIN v /\ v[k] = w[k]
  /\ \A k \in DOMAIN v : k \in DOMAIN w \/ v[k].ev \in K

(* The positions of a sequence of events.                                  *)
LEMMA SequenceFacts ==
  ASSUME NEW w, IsASequence(w)
  PROVE  Len(w) \in Nat /\ DOMAIN w = 1..Len(w)
BY DEF IsASequence

(* A sequence extends itself,                                              *)
LEMMA ExtendsNot ==
  ASSUME NEW w, IsASequence(w), NEW K
  PROVE  Extends(w, w, K)
BY SequenceFacts DEF Extends

(* ... what extends an extension extends the first,                        *)
LEMMA ExtendsTwice ==
  ASSUME NEW w, NEW v, NEW u, NEW K, Extends(v, w, K), Extends(u, v, K)
  PROVE  Extends(u, w, K)
<1>1. Len(w) \in Nat /\ Len(v) \in Nat /\ Len(u) \in Nat
  BY SequenceFacts DEF Extends
<1> QED
  BY <1>1 DEF Extends

(* ... and so does what is said in addition,                               *)
LEMMA ExtendsBy ==
  ASSUME NEW w, IsASequence(w), NEW e, IsASequence(e), NEW K, \A i \in DOMAIN e : e[i].ev \in K
  PROVE  Extends(w \o e, w, K)
<1> DEFINE v == w \o e
           n == Len(w)
           m == Len(e)
<1>1. /\ IsASequence(v) /\ n \in Nat /\ m \in Nat /\ DOMAIN w = 1..n /\ DOMAIN e = 1..m
      /\ DOMAIN v = 1..(n + m) /\ Len(v) \in Nat /\ DOMAIN v = 1..Len(v)
  BY Concatenated, SequenceFacts
<1>2. \A i \in 1..n : v[i] = w[i]
  BY Concatenated
<1>3. \A i \in 1..m : v[n + i] = e[i]
  BY Concatenated
<1> HIDE DEF v, n, m
<1>4. ASSUME NEW k \in DOMAIN v, k \notin DOMAIN w PROVE v[k].ev \in K
  <2>1. k - n \in 1..m /\ k = n + (k - n)
    BY <1>1, <1>4
  <2>2. v[k] = e[k - n]
    BY <1>3, <2>1
  <2> QED
    BY <1>1, <2>1, <2>2
<1>5. n <= Len(v)
  <2>1. n + m \in Nat /\ Len(v) = n + m
    BY <1>1
  <2> QED
    BY <1>1, <2>1
<1>6. Extends(v, w, K)
  BY <1>1, <1>2, <1>4, <1>5 DEF Extends, n
<1> QED
  BY <1>6 DEF v

(* ... be it one event.                                                    *)
LEMMA ExtendsOne ==
  ASSUME NEW w, IsASequence(w), NEW x, NEW K, x.ev \in K
  PROVE  Extends(w \o <<x>>, w, K)
<1>1. <<x>> \in Seq({x}) /\ DOMAIN <<x>> = {1} /\ <<x>>[1] = x
  OBVIOUS
<1> DEFINE e == <<x>>
<1>2. IsASequence(e) /\ \A i \in DOMAIN e : e[i].ev \in K
  BY <1>1 DEF IsASequence
<1> HIDE DEF e
<1>3. Extends(w \o e, w, K)
  BY <1>2, ExtendsBy
<1> QED
  BY <1>3 DEF e

(* More kinds of events may be allowed.                                    *)
LEMMA ExtendsMore ==
  ASSUME NEW w, NEW v, NEW K, Extends(v, w, K), NEW L, K \subseteq L
  PROVE  Extends(v, w, L)
BY DEF Extends

(* What the events that are added do not change.                           *)
LEMMA ExtendsNever ==
  ASSUME NEW w, NEW v, NEW K, Extends(v, w, K), NEW L, Never(w, L), K \cap L = {}
  PROVE  Never(v, L)
BY DEF Extends, Never

(* An event that may not be added has been told if it had been.            *)
LEMMA ExtendsEver ==
  ASSUME NEW w, NEW v, NEW K, Extends(v, w, K), NEW ev, ev \notin K
  PROVE  Ever(v, ev) <=> Ever(w, ev)
BY DEF Extends, Ever

(* A stream that has not ended may go on.                                  *)
LEMMA NoEndYet ==
  ASSUME NEW w, Never(w, EndEvents), NEW format
  PROVE  EndLast(w, format)
BY DEF Never, EndEvents, EndLast, EndEvent

(* An event at the end, of one kind or the other.                          *)
LEMMA EndsWithDelta ==
  ASSUME NEW w, IsASequence(w), Never(w, EndEvents), NEW x, x.ev \in {"message_delta", "finish"},
         NEW format
  PROVE  EndLast(w \o <<x>>, format)
<1> DEFINE v == w \o <<x>>
           n == Len(w)
<1>1. /\ n \in Nat /\ DOMAIN w = 1..n /\ Len(v) = n + 1 /\ DOMAIN v = 1..(n + 1)
      /\ v[n + 1] = x /\ \A i \in 1..n : v[i] = w[i]
  BY Appended
<1> HIDE DEF v, n
<1>2. \A k \in DOMAIN v : k # n + 1 => v[k].ev \notin EndEvents /\ k < n + 1
  BY <1>1 DEF Never
<1>3. EndLast(v, format)
  BY <1>1, <1>2 DEF EndLast, EndEvents, EndEvent, ContentEvents
<1> QED
  BY <1>3 DEF v

(* The last event of a stream that is otherwise whole.                     *)
LEMMA EndsWithEnd ==
  ASSUME NEW w, IsASequence(w), NEW format, EndLast(w, format),
         Never(w, {"message_stop", "completed"}), NEW x, x.ev = EndEvent(format)
  PROVE  EndLast(w \o <<x>>, format)
<1> DEFINE v == w \o <<x>>
           n == Len(w)
<1>1. /\ n \in Nat /\ DOMAIN w = 1..n /\ Len(v) = n + 1 /\ DOMAIN v = 1..(n + 1)
      /\ v[n + 1] = x /\ \A i \in 1..n : v[i] = w[i]
  BY Appended
<1> HIDE DEF v, n
<1>2. \A k \in DOMAIN v : k = n + 1 \/ (k \in DOMAIN w /\ v[k] = w[k])
  BY <1>1
<1>3. x.ev \notin ContentEvents \union {"message_delta", "finish"}
  BY DEF EndEvent, ContentEvents
<1>4. \A k \in DOMAIN v : v[k].ev = EndEvent(format) => k = Len(v)
  BY <1>1, <1>2 DEF Never, EndEvent
<1>5. \A j, k \in DOMAIN v : v[j].ev = "message_delta" /\ v[k].ev = "message_delta" => j = k
  BY <1>1, <1>2, <1>3 DEF EndLast
<1>6. \A e, k \in DOMAIN v :
       v[k].ev \in {"message_delta", "finish"} /\ v[e].ev \in ContentEvents => e < k
  BY <1>1, <1>2, <1>3 DEF EndLast
<1>7. EndLast(v, format)
  BY <1>4, <1>5, <1>6 DEF EndLast
<1> QED
  BY <1>7 DEF v

(* Events that neither end the stream nor speak of its content, said when  *)
(* it may not be over yet, and a finish that is repeated.                  *)
LEMMA EndStays ==
  ASSUME NEW w, NEW v, NEW K, Extends(v, w, K), NEW format, EndLast(w, format),
         Never(w, {EndEvent(format)}), EndEvent(format) \notin K, "message_delta" \notin K,
         K \cap ContentEvents = {}
  PROVE  EndLast(v, format)
<1>1. /\ Len(w) \in Nat /\ Len(v) \in Nat /\ DOMAIN w = 1..Len(w) /\ DOMAIN v = 1..Len(v)
  BY SequenceFacts DEF Extends
<1>2. \A k \in DOMAIN v : k \notin DOMAIN w => v[k].ev \in K /\ k > Len(w)
  BY <1>1 DEF Extends
<1>3. \A k \in DOMAIN w : k \in DOMAIN v /\ v[k] = w[k] /\ k <= Len(w)
  BY <1>1 DEF Extends
<1>4. \A k \in DOMAIN v : v[k].ev # EndEvent(format)
  BY <1>2, <1>3 DEF Never
<1>5. \A j, k \in DOMAIN v : v[j].ev = "message_delta" /\ v[k].ev = "message_delta" => j = k
  BY <1>2, <1>3 DEF EndLast
<1>6. ASSUME NEW e \in DOMAIN v, NEW k \in DOMAIN v,
             v[k].ev \in {"message_delta", "finish"}, v[e].ev \in ContentEvents
      PROVE  e < k
  <2>1. e \in DOMAIN w /\ w[e].ev \in ContentEvents
    BY <1>2, <1>3, <1>6
  <2>2. CASE k \in DOMAIN w
    BY <1>3, <1>6, <2>1, <2>2 DEF EndLast
  <2>3. CASE k \notin DOMAIN w
    BY <1>1, <1>2, <1>3, <2>1, <2>3
  <2> QED
    BY <2>2, <2>3
<1> QED
  BY <1>4, <1>5, <1>6 DEF EndLast
-----------------------------------------------------------------------------
(* What is said before the end.                                            *)
QuietEvents == ContentEvents \union {"role", "message_start", "created", "raw", "ping", "error"}

(* t is s, with events of the kinds K said, as far as the end knows of it. *)
Goes(t, s, K) ==
  /\ {"said", "sourceFormat", "terminalSeen", "done", "finished"} \subseteq DOMAIN t
  /\ t.sourceFormat = s.sourceFormat /\ t.terminalSeen = s.terminalSeen
  /\ t.done = s.done /\ t.finished = s.finished
  /\ Extends(t.said, s.said, K)

Speaks(e, K) == IsASequence(e) /\ \A i \in DOMAIN e : e[i].ev \in K

(* One event,                                                              *)
LEMMA SpeaksOne ==
  ASSUME NEW x, NEW K, x.ev \in K
  PROVE  Speaks(<<x>>, K)
<1>1. DOMAIN <<x>> = {1} /\ <<x>>[1] = x
  OBVIOUS
<1>2. IsASequence(<<x>>)
  BY Single
<1> DEFINE e == <<x>>
<1>3. IsASequence(e) /\ DOMAIN e = {1} /\ e[1] = x
  BY <1>1, <1>2
<1> HIDE DEF e
<1>4. Speaks(e, K)
  BY <1>3 DEF Speaks
<1> QED
  BY <1>4 DEF e

(* ... two,                                                                *)
LEMMA SpeaksTwo ==
  ASSUME NEW x, NEW y, NEW K, x.ev \in K, y.ev \in K
  PROVE  Speaks(<<x, y>>, K)
<1> DEFINE e == <<x, y>>
<1>1. DOMAIN e = {1, 2} /\ e[1] = x /\ e[2] = y /\ e \in Seq({x, y})
  OBVIOUS
<1> HIDE DEF e
<1>2. Speaks(e, K)
  BY <1>1 DEF Speaks, IsASequence
<1> QED
  BY <1>2 DEF e

(* ... or none.                                                            *)
LEMMA SpeaksNot ==
  ASSUME NEW K
  PROVE  Speaks(<<>>, K)
<1> DEFINE e == <<>>
<1>1. DOMAIN e = {} /\ e \in Seq({})
  OBVIOUS
<1> HIDE DEF e
<1>2. Speaks(e, K)
  BY <1>1 DEF Speaks, IsASequence
<1> QED
  BY <1>2 DEF e

(* To do nothing goes nowhere.                                             *)
LEMMA GoesNowhere ==
  ASSUME NEW s, IsASequence(s.said), BaseFields \subseteq DOMAIN s, NEW K
  PROVE  Goes(s, s, K)
BY ExtendsNot DEF Goes, BaseFields

(* What is said in addition.                                               *)
LEMMA GoesSaying ==
  ASSUME NEW r, NEW s, NEW K, Goes(r, s, K), NEW e, Speaks(e, K)
  PROVE  Goes([r EXCEPT !.said = @ \o e], s, K)
<1> DEFINE w == r.said \o e
           t == [r EXCEPT !.said = w]
<1>1. Extends(r.said, s.said, K) /\ IsASequence(r.said)
  BY DEF Goes, Extends
<1>2. Extends(w, r.said, K)
  BY <1>1, ExtendsBy DEF Speaks
<1>3. Extends(w, s.said, K)
  BY <1>1, <1>2, ExtendsTwice
<1> HIDE DEF w
<1>4. /\ DOMAIN t = DOMAIN r /\ t.said = w /\ t.sourceFormat = r.sourceFormat
      /\ t.terminalSeen = r.terminalSeen /\ t.done = r.done /\ t.finished = r.finished
  BY DEF Goes
<1>5. Goes(t, s, K)
  BY <1>3, <1>4 DEF Goes
<1> QED
  BY <1>5 DEF w

(* The Responses converter's Say.                                          *)
LEMMA ResponsesSpeaks ==
  ASSUME NEW r, NEW s, NEW K, Goes(r, s, K), NEW e, Speaks(e, K)
  PROVE  Goes(Responses!Say(r, e), s, K)
BY GoesSaying DEF Responses!Say

(* closeOpenBlocks tells content only.                                     *)
LEMMA ResponsesClosesOn ==
  ASSUME NEW r, NEW s, Goes(r, s, QuietEvents), r.openBlocks \in Seq(Nat)
  PROVE  Goes(Responses!CloseOpenBlocks(r), s, QuietEvents)
<1> DEFINE q == r.openBlocks
           e == [k \in DOMAIN q |-> Responses!Stop(q[k])]
           u == [r EXCEPT !.openBlocks = <<>>, !.text = Responses!Closed]
<1>1. Responses!CloseOpenBlocks(r) = IF q = <<>> THEN r ELSE Responses!Say(u, e)
  BY DEF Responses!CloseOpenBlocks
<1>2. Goes(u, s, QuietEvents)
  BY DEF Goes
<1>3. StopsOf(e, q)
  BY StopsAre
<1>4. DOMAIN e = DOMAIN q
  OBVIOUS
<1> HIDE DEF u, e, q
<1>5. Speaks(e, QuietEvents)
  BY <1>3, <1>4 DEF Speaks, StopsOf, QuietEvents, ContentEvents
<1> QED
  BY <1>1, <1>2, <1>5, ResponsesSpeaks

(* So does a new block,                                                    *)
LEMMA ResponsesOpensOn ==
  ASSUME NEW r, NEW s, Goes(r, s, QuietEvents), r.openBlocks \in Seq(Nat), NEW b, NEW kind
  PROVE  Goes(Responses!OpenBlock(r, b, kind), s, QuietEvents)
<1> DEFINE c == Responses!CloseOpenBlocks(r)
           u == [c EXCEPT !.openBlocks = Append(@, b)]
           x == Responses!Start(b, kind)
<1>1. Responses!OpenBlock(r, b, kind) = Responses!Say(u, <<x>>)
  BY DEF Responses!OpenBlock
<1>2. Goes(c, s, QuietEvents)
  BY ResponsesClosesOn
<1> HIDE DEF c
<1>3. Goes(u, s, QuietEvents)
  BY <1>2 DEF Goes
<1>4. x.ev \in QuietEvents
  BY DEF Responses!Start, QuietEvents, ContentEvents
<1> HIDE DEF u, x
<1> QED
  BY <1>1, <1>3, <1>4, SpeaksOne, ResponsesSpeaks

(* ... text,                                                               *)
LEMMA ResponsesTextOn ==
  ASSUME NEW s, Goes(s, s, QuietEvents), s.openBlocks \in Seq(Nat)
  PROVE  Goes(Responses!ClaudeText(s), s, QuietEvents)
<1> DEFINE p == Responses!OpenBlock(s, s.next, "text")
           u == [p EXCEPT !.text = s.next, !.next = @ + 1]
           o == IF s.text # Responses!Closed THEN s ELSE u
           x == Responses!Delta(o.text, 1)
<1>1. Responses!ClaudeText(s) = Responses!Say(o, <<x>>)
  BY DEF Responses!ClaudeText
<1>2. Goes(p, s, QuietEvents)
  BY ResponsesOpensOn
<1> HIDE DEF p
<1>3. Goes(u, s, QuietEvents)
  BY <1>2 DEF Goes
<1> HIDE DEF u
<1>4. Goes(o, s, QuietEvents)
  BY <1>3
<1>5. x.ev \in QuietEvents
  BY DEF Responses!Delta, QuietEvents, ContentEvents
<1> HIDE DEF o, x
<1> QED
  BY <1>1, <1>4, <1>5, SpeaksOne, ResponsesSpeaks

(* A call that has been looked up.                                         *)
LEMMA ResponsesTracksOn ==
  ASSUME NEW s, ResponsesInv(s), NEW key, NEW alias, NEW t, t = Responses!Track(s, key, alias)
  PROVE  Goes(t.s, s, QuietEvents) /\ t.s.openBlocks = s.openBlocks
<1> DEFINE known == {key, alias} \cap DOMAIN s.calls
           block == IF known = {} THEN s.next
                    ELSE s.calls[IF key \in known THEN key ELSE alias]
           ids == IF key \in known THEN {alias} ELSE {key, alias}
           n == IF known = {} THEN s.next + 1 ELSE s.next
           c == Responses!Bound(s.calls, ids, block)
           u == [s EXCEPT !.next = n, !.calls = c]
<1>1. t.s = u
  BY DEF Responses!Track
<1> HIDE DEF n, c
<1>2. DOMAIN s = ResponsesFields /\ IsASequence(s.said)
  BY LawfulFacts DEF ResponsesInv, ResponsesHalf, Common
<1>3. u.openBlocks = s.openBlocks
  BY <1>2 DEF ResponsesFields
<1>4. Goes(s, s, QuietEvents)
  BY <1>2, GoesNowhere DEF ResponsesFields
<1>5. Goes(u, s, QuietEvents)
  BY <1>4 DEF Goes
<1> QED
  BY <1>1, <1>3, <1>5

(* ... and the announcement of a call.                                     *)
LEMMA ResponsesAnnouncesOn ==
  ASSUME NEW s, NEW t, Goes(t.s, s, QuietEvents), t.s.openBlocks \in Seq(Nat), NEW n \in 0..1
  PROVE  Goes(Responses!Announce(t, n), s, QuietEvents)
<1> DEFINE x == Responses!Start(t.block, "tool")
           y == Responses!Delta(t.block, 1)
           z == Responses!Delta(t.block, n)
           e == [k \in 1..n |-> Responses!Delta(t.block, 1)]
           o == Responses!OpenBlock(t.s, t.block, "tool")
           p == Responses!Opening(t.block, n)
<1>1. x.ev \in QuietEvents /\ y.ev \in QuietEvents /\ z.ev \in QuietEvents
  BY DEF Responses!Start, Responses!Delta, QuietEvents, ContentEvents
<1>2. e = IF n = 0 THEN <<>> ELSE <<y>>
  BY FewDeltas
<1>3. p = IF n = 0 THEN <<x>> ELSE <<x, z>>
  BY DEF Responses!Opening
<1>4. Responses!Announce(t, n) =
        IF t.s.sourceFormat = "openai"
        THEN Responses!Say(t.s, IF t.first THEN p ELSE e)
        ELSE Responses!Say(IF t.first THEN o ELSE t.s, e)
  BY DEF Responses!Announce
<1>5. Goes(o, s, QuietEvents)
  BY ResponsesOpensOn
<1> HIDE DEF x, y, z, e, o, p
<1>6. Speaks(e, QuietEvents)
  BY <1>1, <1>2, SpeaksOne, SpeaksNot
<1>7. Speaks(p, QuietEvents)
  BY <1>1, <1>3, SpeaksOne, SpeaksTwo
<1>8. CASE t.s.sourceFormat = "openai" /\ t.first
  BY <1>4, <1>7, <1>8, ResponsesSpeaks
<1>9. CASE t.s.sourceFormat = "openai" /\ ~t.first
  BY <1>4, <1>6, <1>9, ResponsesSpeaks
<1>10. CASE t.s.sourceFormat # "openai" /\ t.first
  BY <1>4, <1>5, <1>6, <1>10, ResponsesSpeaks
<1>11. CASE t.s.sourceFormat # "openai" /\ ~t.first
  BY <1>4, <1>6, <1>11, ResponsesSpeaks
<1> QED
  BY <1>8, <1>9, <1>10, <1>11

(* A frame that does not end the stream.                                   *)
LEMMA ResponsesConvertsOn ==
  ASSUME NEW s, ResponsesInv(s), s.sourceFormat # "openai-response", ~s.done,
         NEW l, Responses!IsLine(l), l.kind \notin {"completed", "incomplete"}
  PROVE  Goes(Responses!ConvertEvent(s, l), s, QuietEvents)
<1> DEFINE t == Responses!ConvertEvent(s, l)
<1>1. /\ DOMAIN s = ResponsesFields /\ IsASequence(s.said) /\ s.openBlocks \in Seq(Nat)
      /\ s.sourceFormat \in {"openai", "claude"}
  BY LawfulFacts DEF ResponsesInv, ResponsesHalf, Common, Formats
<1>2. Goes(s, s, QuietEvents)
  BY <1>1, GoesNowhere DEF ResponsesFields
<1>3. CASE l.kind = "created"
  <2> DEFINE x == Responses!Named(IF s.sourceFormat = "openai" THEN "role" ELSE "message_start")
  <2>1. t = Responses!Say(s, <<x>>)
    BY <1>3 DEF Responses!ConvertEvent
  <2>2. x.ev \in QuietEvents
    BY DEF Responses!Named, QuietEvents
  <2> HIDE DEF x
  <2> QED
    BY <1>2, <2>1, <2>2, SpeaksOne, ResponsesSpeaks
<1>4. CASE l.kind = "text"
  <2> DEFINE x == Responses!Named("content")
  <2>1. t = IF s.sourceFormat = "openai" THEN Responses!Say(s, <<x>>) ELSE Responses!ClaudeText(s)
    BY <1>4 DEF Responses!ConvertEvent, Responses!TextDelta
  <2>2. x.ev \in QuietEvents
    BY DEF Responses!Named, QuietEvents, ContentEvents
  <2> HIDE DEF x
  <2>3. Goes(Responses!Say(s, <<x>>), s, QuietEvents)
    BY <1>2, <2>2, SpeaksOne, ResponsesSpeaks
  <2>4. Goes(Responses!ClaudeText(s), s, QuietEvents)
    BY <1>1, <1>2, ResponsesTextOn
  <2> QED
    BY <2>1, <2>3, <2>4
<1>5. ASSUME NEW key, NEW alias, NEW k, k = Responses!Track(s, key, alias), NEW n \in 0..1,
             NEW D, NEW seen
      PROVE  Goes(Responses!Announce([k EXCEPT !.s.delivered = D, !.s.toolCallsSeen = seen], n),
                  s, QuietEvents)
  <2> DEFINE d == [k EXCEPT !.s.delivered = D, !.s.toolCallsSeen = seen]
             u == [k.s EXCEPT !.delivered = D, !.toolCallsSeen = seen]
  <2>1. Tracked(k)
    BY <1>5, TrackFinds
  <2>2. Goes(k.s, s, QuietEvents) /\ k.s.openBlocks = s.openBlocks
    BY <1>5, ResponsesTracksOn
  <2>3. d.s = u
    BY <2>1 DEF Tracked
  <2>4. u.openBlocks = k.s.openBlocks
    BY <2>1 DEF Tracked, ResponsesHalf, ResponsesFields
  <2>5. Goes(u, s, QuietEvents)
    BY <2>2 DEF Goes
  <2> HIDE DEF d, u
  <2>6. Goes(Responses!Announce(d, n), s, QuietEvents)
    BY <1>1, <1>5, <2>2, <2>3, <2>4, <2>5, ResponsesAnnouncesOn
  <2> QED
    BY <2>6 DEF d
<1>6. CASE l.kind = "item"
  <2> DEFINE k == Responses!Track(s, l.callID, l.itemID)
             deliver == l.args # "none" /\ k.block \notin s.delivered
             n == IF deliver THEN 1 ELSE 0
             D == IF deliver THEN k.s.delivered \union {k.block} ELSE k.s.delivered
  <2>1. t = Responses!Announce([k EXCEPT !.s.delivered =
                                     IF deliver THEN @ \union {k.block} ELSE @,
                                   !.s.toolCallsSeen = TRUE], n)
    BY <1>6 DEF Responses!ConvertEvent, Responses!OutputItem
  <2>2. n \in 0..1
    OBVIOUS
  <2> HIDE DEF k, deliver, n, t
  <2>3. t = Responses!Announce([k EXCEPT !.s.delivered = D, !.s.toolCallsSeen = TRUE], n)
    BY <2>1
  <2>4. k = Responses!Track(s, l.callID, l.itemID)
    BY DEF k
  <2> HIDE DEF D
  <2>5. Goes(t, s, QuietEvents)
    BY <1>5, <2>2, <2>3, <2>4
  <2> QED
    BY <2>5 DEF t
<1>7. CASE l.kind = "args"
  <2> DEFINE k == Responses!Track(s, l.itemID, "")
             D == k.s.delivered \union {k.block}
             seen == s.toolCallsSeen \/ s.sourceFormat = "openai"
  <2>1. t = Responses!Announce([k EXCEPT !.s.delivered = D, !.s.toolCallsSeen = seen], 1)
    BY <1>7 DEF Responses!ConvertEvent, Responses!ArgsFragment
  <2>2. k = Responses!Track(s, l.itemID, "") /\ 1 \in 0..1
    OBVIOUS
  <2> HIDE DEF D, k, seen, t
  <2>3. Goes(t, s, QuietEvents)
    BY <1>5, <2>1, <2>2
  <2> QED
    BY <2>3 DEF t
<1>8. CASE l.kind \in {"failed", "part", "other"}
  <2>1. t = IF l.kind = "failed" THEN Responses!Fail(s) ELSE s
    BY <1>8 DEF Responses!ConvertEvent
  <2>2. Goes(Responses!Fail(s), s, QuietEvents)
    BY <1>2 DEF Goes, Responses!Fail
  <2> QED
    BY <1>2, <2>1, <2>2
<1> QED
  BY <1>3, <1>4, <1>6, <1>7, <1>8 DEF Responses!IsLine

(* What is demanded of a stream that ends as a success: the second half of *)
(* EndIsWhole, of any converter.                                           *)
Rises(q) == \A i, j \in DOMAIN q : i < j => q[i] < q[j]

WholeEnd(s, way) ==
  /\ s.sourceFormat = "openai" => Ever(s.said, "finish")
  /\ s.sourceFormat = "claude" =>
       /\ Ever(s.said, "message_stop")
       /\ Opened(s.said) = Shut(s.said)
       /\ Ever(s.said, "message_delta") <=> (s.finished \/ way = "responses")
  /\ s.sourceFormat = "openai-response" =>
       /\ Ever(s.said, "completed")
       /\ way = "chat" => Opened(s.said) = Shut(s.said)
       /\ Range(s.said[Len(s.said)].output) = Opened(s.said)
       /\ Rises(s.said[Len(s.said)].output)

(* What has been told once another event has.                              *)
LEMMA EverAppended ==
  ASSUME NEW w, IsASequence(w), NEW x
  PROVE  /\ Ever(w \o <<x>>, x.ev)
         /\ \A ev : Ever(w, ev) => Ever(w \o <<x>>, ev)
         /\ \A ev : ev # x.ev => (Ever(w \o <<x>>, ev) <=> Ever(w, ev))
<1> DEFINE v == w \o <<x>>
           n == Len(w)
<1>1. /\ n \in Nat /\ DOMAIN w = 1..n /\ DOMAIN v = 1..(n + 1)
      /\ v[n + 1] = x /\ \A i \in 1..n : v[i] = w[i]
  BY Appended
<1> HIDE DEF v, n
<1>2. n + 1 \in DOMAIN v
  BY <1>1
<1>3. \A k \in DOMAIN v : k = n + 1 \/ k \in DOMAIN w
  BY <1>1
<1>4. \A k \in DOMAIN w : k \in DOMAIN v /\ v[k] = w[k]
  BY <1>1
<1>5. Ever(v, x.ev)
  BY <1>1, <1>2 DEF Ever
<1>6. ASSUME NEW ev PROVE Ever(w, ev) => Ever(v, ev)
  BY <1>4 DEF Ever
<1>7. ASSUME NEW ev, ev # x.ev PROVE Ever(v, ev) => Ever(w, ev)
  BY <1>1, <1>3, <1>4, <1>7 DEF Ever
<1> QED
  BY <1>5, <1>6, <1>7 DEF v

(* An event of another kind is added.                                      *)
LEMMA NeverAppended ==
  ASSUME NEW w, IsASequence(w), NEW K, Never(w, K), NEW x, x.ev \notin K
  PROVE  Never(w \o <<x>>, K)
<1> DEFINE v == w \o <<x>>
           n == Len(w)
<1>1. /\ n \in Nat /\ DOMAIN w = 1..n /\ DOMAIN v = 1..(n + 1)
      /\ v[n + 1] = x /\ \A i \in 1..n : v[i] = w[i]
  BY Appended
<1> HIDE DEF v, n
<1>2. \A k \in DOMAIN v : k = n + 1 \/ k \in DOMAIN w
  BY <1>1
<1>3. Never(v, K)
  BY <1>1, <1>2 DEF Never
<1> QED
  BY <1>3 DEF v

(* Fewer kinds of events.                                                  *)
LEMMA NeverLess ==
  ASSUME NEW w, NEW K, Never(w, K), NEW L, L \subseteq K
  PROVE  Never(w, L)
BY DEF Never

(* Messages events that end a stream whose blocks are all shut.            *)
LEMMA EndsInMessages ==
  ASSUME NEW w, Lawful(w, "claude"), Never(w, EndEvents), Opened(w) = Shut(w),
         NEW x, x.ev = "message_delta", NEW y, y.ev = "message_stop",
         NEW v, v = (w \o <<x>>) \o <<y>>
  PROVE  /\ EndLast(v, "claude") /\ Ever(v, "message_stop") /\ Ever(v, "message_delta")
         /\ Opened(v) = Shut(v)
<1> DEFINE u == w \o <<x>>
<1>1. IsASequence(w) /\ IsASequence(u)
  BY Appended, LawfulFacts
<1>2. EndLast(u, "claude")
  BY <1>1, EndsWithDelta
<1>3. Never(w, {"message_stop", "completed"})
  BY NeverLess DEF EndEvents
<1>4. Never(u, {"message_stop", "completed"})
  BY <1>1, <1>3, NeverAppended
<1>5. Ever(u, "message_delta")
  BY <1>1, EverAppended
<1>6. Opened(u) = Shut(u)
  BY <1>1, Summary
<1> HIDE DEF u
<1>7. v = u \o <<y>>
  BY DEF u
<1>8. EndLast(u \o <<y>>, "claude")
  <2>1. y.ev = EndEvent("claude")
    BY DEF EndEvent
  <2> QED
    BY <1>1, <1>2, <1>4, <2>1, EndsWithEnd
<1>9. Ever(v, "message_stop") /\ Ever(v, "message_delta")
  <2>1. Ever(u \o <<y>>, y.ev) /\ (Ever(u, "message_delta") => Ever(u \o <<y>>, "message_delta"))
    BY <1>1, EverAppended
  <2> QED
    BY <1>5, <1>7, <2>1
<1>10. Opened(u \o <<y>>) = Shut(u \o <<y>>)
  BY <1>1, <1>6, Summary
<1> QED
  BY <1>7, <1>8, <1>9, <1>10

(* Two events said at once are said one after the other.                   *)
LEMMA PairTold ==
  ASSUME NEW w, IsASequence(w), NEW x, NEW y
  PROVE  w \o <<x, y>> = (w \o <<x>>) \o <<y>>
BY Pair, Single, Associative

(* The terminal event of a Responses upstream, to a Messages client: every *)
(* block is closed, then come message_delta and message_stop.              *)
LEMMA ResponsesEndsMessages ==
  ASSUME NEW s, ResponsesInv(s), s.sourceFormat = "claude", Never(s.said, EndEvents),
         NEW reason, NEW t, t = Responses!ClaudeTerminal(s, reason)
  PROVE  /\ EndLast(t.said, "claude")
         /\ Ever(t.said, "message_stop") /\ Ever(t.said, "message_delta")
         /\ Opened(t.said) = Shut(t.said)
         /\ BaseFields \subseteq DOMAIN t
         /\ t.sourceFormat = s.sourceFormat /\ t.done = s.done /\ t.finished = s.finished
<1> DEFINE q == s.openBlocks
           e == [k \in DOMAIN q |-> Responses!Stop(q[k])]
           x == Responses!Ending("message_delta", reason)
           y == Responses!Named("message_stop")
           r == [s EXCEPT !.openBlocks = <<>>]
           w == s.said
           u == w \o e
<1>1. /\ ResponsesHalf(s, {}) /\ Lawful(w, "claude") /\ DOMAIN s = ResponsesFields
      /\ Shut(w) \subseteq Opened(w) /\ IsASequence(w)
  BY LawfulFacts DEF ResponsesInv, ResponsesHalf, Common
<1>2. /\ q \in Seq(Nat) /\ \A i, j \in DOMAIN q : q[i] = q[j] => i = j
      /\ Range(q) = Opened(w) \ Shut(w)
  BY <1>1 DEF ResponsesHalf
<1>3. StopsOf(e, q) /\ DOMAIN e = DOMAIN q
  BY <1>2, StopsAre
<1>4. x.ev = "message_delta" /\ y.ev = "message_stop"
  BY DEF Responses!Ending, Responses!Named
<1>5. t = Responses!Say(r, e \o <<x, y>>)
  BY DEF Responses!ClaudeTerminal
<1> HIDE DEF q, e, x, y
<1>6. /\ t.said = w \o (e \o <<x, y>>) /\ BaseFields \subseteq DOMAIN t
      /\ t.sourceFormat = s.sourceFormat /\ t.done = s.done /\ t.finished = s.finished
  BY <1>1, <1>5 DEF Responses!Say, ResponsesFields, BaseFields
<1> HIDE DEF w
<1>7. Closable(w, q)
  BY <1>2 DEF Closable, Range
<1>8. /\ Lawful(u, "claude") /\ Opened(u) = Opened(w) /\ Shut(u) = Shut(w) \union Range(q)
  BY <1>1, <1>3, <1>7, StopsTold
<1>9. Opened(u) = Shut(u)
  BY <1>1, <1>2, <1>8
<1>10. Never(u, EndEvents)
  <2>1. IsASequence(e) /\ \A i \in DOMAIN e : e[i].ev \in ContentEvents
    BY <1>3 DEF StopsOf, ContentEvents
  <2>2. Extends(u, w, ContentEvents)
    BY <1>1, <2>1, ExtendsBy
  <2>3. ContentEvents \cap EndEvents = {}
    BY DEF ContentEvents, EndEvents
  <2>4. Never(w, EndEvents)
    BY DEF w
  <2> QED
    BY <2>2, <2>3, <2>4, ExtendsNever
<1>11. t.said = (u \o <<x>>) \o <<y>>
  <2>1. w \o (e \o <<x, y>>) = u \o <<x, y>>
    BY <1>1, <1>3, PairLater DEF StopsOf
  <2>2. IsASequence(u)
    BY <1>8, LawfulFacts
  <2> HIDE DEF u
  <2>3. u \o <<x, y>> = (u \o <<x>>) \o <<y>>
    BY <2>2, PairTold
  <2> QED
    BY <1>6, <2>1, <2>3
<1> HIDE DEF u
<1>12. /\ EndLast(t.said, "claude") /\ Ever(t.said, "message_stop") /\ Ever(t.said, "message_delta")
       /\ Opened(t.said) = Shut(t.said)
  BY <1>4, <1>8, <1>9, <1>10, <1>11, EndsInMessages
<1> QED
  BY <1>6, <1>12

(* ObserveFrame says nothing.                                              *)
LEMMA ResponsesObservesOn ==
  ASSUME NEW s, ResponsesInv(s), NEW l, Responses!IsLine(l),
         NEW t, t = Responses!ObserveFrame(s, l)
  PROVE  /\ t.said = s.said /\ t.sourceFormat = s.sourceFormat /\ t.done = s.done
         /\ t.finished = s.finished
         /\ l.kind \notin {"completed", "incomplete"} => t.terminalSeen = s.terminalSeen
<1> DEFINE seen == IF l.kind = "item" THEN l.call ELSE Responses!Closed
<1>1. DOMAIN s = ResponsesFields
  BY DEF ResponsesInv, ResponsesHalf
<1>2. CASE l.kind = "created"
  <2>1. t = IF s.started THEN s
            ELSE [[s EXCEPT !.started = TRUE] EXCEPT !.progress = @ + 1]
    BY <1>2 DEF Responses!ObserveFrame, Responses!StateStart, Responses!Advance,
                Responses!HasContent
  <2> QED
    BY <1>1, <1>2, <2>1 DEF ResponsesFields, BaseFields
<1>3. CASE l.kind \in {"text", "args"}
  <2>1. t = [s EXCEPT !.progress = @ + 1]
    BY <1>3 DEF Responses!ObserveFrame, Responses!HasContent, Responses!Advance
  <2> QED
    BY <1>1, <1>3, <2>1 DEF ResponsesFields, BaseFields
<1>4. CASE l.kind = "part" \/ (l.kind = "item" /\ ~l.done)
  <2>1. t = IF seen \notin s.seenItems
            THEN [[s EXCEPT !.seenItems = @ \union {seen}] EXCEPT !.progress = @ + 1]
            ELSE [s EXCEPT !.seenItems = @ \union {seen}]
    BY <1>4 DEF Responses!ObserveFrame, Responses!HasContent, Responses!Advance,
                Responses!AdvanceIf
  <2> HIDE DEF seen
  <2> QED
    BY <1>1, <1>4, <2>1 DEF ResponsesFields, BaseFields
<1>5. CASE l.kind \in {"completed", "incomplete"}
  <2>1. t = [[[s EXCEPT !.progress = @ + 1] EXCEPT !.terminalSeen = TRUE]
               EXCEPT !.progress = @ + 1]
    BY <1>5 DEF Responses!ObserveFrame, Responses!HasContent, Responses!Advance,
                Responses!Terminal
  <2> QED
    BY <1>1, <1>5, <2>1 DEF ResponsesFields, BaseFields
<1>6. CASE l.kind \in {"failed", "other"} \/ (l.kind = "item" /\ l.done)
  <2>1. t = s
    BY <1>6 DEF Responses!ObserveFrame, Responses!HasContent
  <2> QED
    BY <2>1
<1> QED
  BY <1>2, <1>3, <1>4, <1>5, <1>6 DEF Responses!IsLine

(* The stream that is open has not ended.                                  *)
ResponsesOpen(s) == Never(s.said, EndEvents) /\ ~s.terminalSeen

(* A frame of a Responses upstream: either no end has been told and the    *)
(* stream is open, or it is told whole and the converter is done.          *)
LEMMA ResponsesWhole ==
  ASSUME NEW s, ResponsesInv(s), ~s.done, ResponsesOpen(s), NEW l, Responses!IsLine(l),
         NEW t, t = Responses!HandleLine(s, l), ~t.failed
  PROVE  /\ EndLast(t.said, t.sourceFormat)
         /\ ~t.done => ResponsesOpen(t)
         /\ t.done /\ t.sourceFormat # "openai-response" => WholeEnd(t, "responses")
<1> DEFINE d == IF s.sourceFormat = "openai-response" THEN Responses!PassthroughEvent(s, l)
                ELSE Responses!ConvertEvent(s, l)
<1>1. /\ DOMAIN s = ResponsesFields /\ IsASequence(s.said)
      /\ s.sourceFormat \in {"openai", "claude", "openai-response"}
  BY LawfulFacts DEF ResponsesInv, ResponsesHalf, Common, Formats
<1>2. Goes(s, s, QuietEvents)
  BY <1>1, GoesNowhere DEF ResponsesFields
<1>3. QuietEvents \cap EndEvents = {}
  BY DEF QuietEvents, ContentEvents, EndEvents
<1>4. t = IF d.failed THEN d ELSE Responses!ObserveFrame(d, l)
  BY DEF Responses!HandleLine
<1>5. ResponsesInv(d)
  BY ResponsesConverts, ResponsesPasses
<1>6. ~d.failed /\ t = Responses!ObserveFrame(d, l)
  BY <1>4
<1>7. /\ t.said = d.said /\ t.sourceFormat = d.sourceFormat /\ t.done = d.done
      /\ t.finished = d.finished
      /\ l.kind \notin {"completed", "incomplete"} => t.terminalSeen = d.terminalSeen
  <2> HIDE DEF d
  <2> QED
    BY <1>5, <1>6, ResponsesObservesOn
<1>8. ASSUME Goes(d, s, QuietEvents)
      PROVE  EndLast(t.said, t.sourceFormat) /\ Never(t.said, EndEvents) /\ t.done = s.done
             /\ (l.kind \notin {"completed", "incomplete"} => ~t.terminalSeen)
  <2> HIDE DEF d
  <2>1. Extends(d.said, s.said, QuietEvents) /\ d.done = s.done /\ d.terminalSeen = s.terminalSeen
    BY <1>8 DEF Goes
  <2>2. Never(d.said, EndEvents)
    BY <1>3, <2>1, ExtendsNever DEF ResponsesOpen
  <2> QED
    BY <1>7, <2>1, <2>2, NoEndYet DEF ResponsesOpen
<1>9. CASE s.sourceFormat = "openai-response"
  <2> DEFINE r == [s EXCEPT !.done = (l.kind \in {"completed", "incomplete"})]
             x == Responses!Named("raw")
  <2>1. d = IF l.kind = "failed" THEN Responses!Fail(s) ELSE Responses!Say(r, <<x>>)
    BY <1>9 DEF Responses!PassthroughEvent
  <2>2. l.kind # "failed"
    BY <1>1, <1>6, <2>1 DEF Responses!Fail, ResponsesFields, BaseFields
  <2>3. Goes(r, r, QuietEvents)
    BY <1>2 DEF Goes
  <2>4. /\ r.said = s.said /\ r.done = (l.kind \in {"completed", "incomplete"})
        /\ r.terminalSeen = s.terminalSeen /\ r.sourceFormat = s.sourceFormat
    BY <1>1 DEF ResponsesFields, BaseFields
  <2>5. x.ev \in QuietEvents
    BY DEF Responses!Named, QuietEvents
  <2> HIDE DEF r, x, d
  <2>6. Goes(d, r, QuietEvents)
    BY <2>1, <2>2, <2>3, <2>5, SpeaksOne, ResponsesSpeaks
  <2>7. /\ Extends(d.said, s.said, QuietEvents) /\ d.done = r.done
        /\ d.terminalSeen = s.terminalSeen /\ d.sourceFormat = s.sourceFormat
    BY <2>4, <2>6 DEF Goes
  <2>8. Never(d.said, EndEvents)
    BY <1>3, <2>7, ExtendsNever DEF ResponsesOpen
  <2>9. EndLast(t.said, t.sourceFormat) /\ Never(t.said, EndEvents)
    BY <1>7, <2>8, NoEndYet
  <2>10. ~t.done => l.kind \notin {"completed", "incomplete"}
    BY <1>7, <2>4, <2>7
  <2> QED
    BY <1>7, <1>9, <2>7, <2>9, <2>10 DEF ResponsesOpen
<1>10. CASE s.sourceFormat # "openai-response" /\ l.kind \notin {"completed", "incomplete"}
  <2>1. d = Responses!ConvertEvent(s, l)
    BY <1>10
  <2>2. Goes(d, s, QuietEvents)
    BY <1>10, <2>1, ResponsesConvertsOn
  <2> QED
    BY <1>8, <1>10, <2>2 DEF ResponsesOpen
<1>11. CASE s.sourceFormat # "openai-response" /\ l.kind \in {"completed", "incomplete"}
  <2> DEFINE r == [s EXCEPT !.done = TRUE]
             reason == Responses!TerminalReason(r.toolCallsSeen, Responses!ReasonOf(l.kind))
             x == Responses!Ending("finish", reason)
  <2>1. d = IF r.sourceFormat = "openai" THEN Responses!Say(r, <<x>>)
            ELSE Responses!ClaudeTerminal(r, reason)
    BY <1>11 DEF Responses!ConvertEvent, Responses!TerminalEvent
  <2>2. x.ev = "finish"
    BY DEF Responses!Ending
  <2>3. /\ DOMAIN r = ResponsesFields /\ r.sourceFormat = s.sourceFormat /\ r.said = s.said
        /\ ResponsesInv(r)
    <3>1. /\ DOMAIN r = ResponsesFields /\ r.done /\ r.done \in BOOLEAN
          /\ r.sourceFormat = s.sourceFormat /\ r.next = s.next /\ r.said = s.said
          /\ r.progress = s.progress /\ r.started = s.started /\ r.finished = s.finished
          /\ r.terminalSeen = s.terminalSeen /\ r.failed = s.failed
          /\ r.calls = s.calls /\ r.delivered = s.delivered /\ r.openBlocks = s.openBlocks
          /\ r.text = s.text
      BY <1>1 DEF ResponsesFields, BaseFields
    <3> HIDE DEF r
    <3>2. ResponsesHalf(s, {}) /\ Common(s)
      BY DEF ResponsesInv, ResponsesHalf
    <3>3. /\ r.progress \in Nat
          /\ {r.started, r.finished, r.terminalSeen, r.done, r.failed} \subseteq BOOLEAN
      BY <3>1, <3>2 DEF Common
    <3>4. ResponsesHalf(r, {})
      BY <3>1, <3>2, <3>3, ResponsesFlags
    <3> QED
      BY <3>1, <3>4 DEF ResponsesInv
  <2>4. r.done
    BY <1>1 DEF ResponsesFields, BaseFields
  <2> HIDE DEF r, reason, x, d
  <2>5. CASE s.sourceFormat = "openai"
    <3>1. /\ d.said = s.said \o <<x>> /\ d.sourceFormat = "openai" /\ d.done
      BY <2>1, <2>3, <2>4, <2>5 DEF Responses!Say, ResponsesFields, BaseFields
    <3>2. EndLast(s.said \o <<x>>, "openai")
      BY <1>1, <2>2, EndsWithDelta DEF ResponsesOpen
    <3>3. Ever(s.said \o <<x>>, "finish")
      BY <1>1, <2>2, EverAppended
    <3> QED
      BY <1>7, <3>1, <3>2, <3>3 DEF WholeEnd
  <2>6. CASE s.sourceFormat = "claude"
    <3>1. d = Responses!ClaudeTerminal(r, reason)
      BY <2>1, <2>3, <2>6
    <3>2. Never(r.said, EndEvents)
      BY <2>3 DEF ResponsesOpen
    <3>3. /\ EndLast(d.said, "claude")
          /\ Ever(d.said, "message_stop") /\ Ever(d.said, "message_delta")
          /\ Opened(d.said) = Shut(d.said)
          /\ d.sourceFormat = r.sourceFormat /\ d.done = r.done
      BY <2>3, <2>6, <3>1, <3>2, ResponsesEndsMessages
    <3> QED
      BY <1>7, <2>3, <2>4, <2>6, <3>3 DEF WholeEnd
  <2> QED
    BY <1>1, <1>11, <2>5, <2>6
<1> QED
  BY <1>9, <1>10, <1>11

(* Without a terminal frame the stream fails.                              *)
LEMMA ResponsesFailsOpen ==
  ASSUME NEW s, ResponsesInv(s), ResponsesOpen(s)
  PROVE  Responses!FinalizeStream(s).failed /\ Responses!FlushWithError(s).failed
BY ResponsesFails DEF ResponsesOpen, Responses!FinalizeStream, Responses!FlushWithError
-----------------------------------------------------------------------------
(* The numbers of a set, in their order.                                   *)
Lists(q, S, k) ==
  /\ q \in Seq(Nat)
  /\ Range(q) = S \cap 0..(k - 1)
  /\ Rises(q)

(* No index is below zero.                                                 *)
LEMMA ListsNone ==
  ASSUME NEW S
  PROVE  Lists(<<>>, S, 0)
<1> DEFINE q == <<>>
<1>1. q \in Seq(Nat) /\ DOMAIN q = {}
  OBVIOUS
<1> HIDE DEF q
<1>2. Lists(q, S, 0)
  BY <1>1 DEF Lists, Rises, Range
<1> QED
  BY <1>2 DEF q

(* One index more.                                                         *)
LEMMA ListsNext ==
  ASSUME NEW S, NEW k \in Nat, NEW q, Lists(q, S, k)
  PROVE  Lists(IF k \in S THEN Append(q, k) ELSE q, S, k + 1)
<1>1. q \in Seq(Nat) /\ Range(q) = S \cap 0..(k - 1) /\ Rises(q)
  BY DEF Lists
<1>2. CASE k \notin S
  BY <1>1, <1>2 DEF Lists
<1>3. CASE k \in S
  <2> DEFINE p == Append(q, k)
             n == Len(q)
  <2>1. /\ p \in Seq(Nat) /\ n \in Nat /\ DOMAIN q = 1..n /\ DOMAIN p = 1..(n + 1)
        /\ p[n + 1] = k /\ \A i \in 1..n : p[i] = q[i]
    BY <1>1
  <2> HIDE DEF p, n
  <2>2. \A i \in 1..n : q[i] \in Range(q) /\ q[i] \in 0..(k - 1)
    BY <1>1, <2>1 DEF Range
  <2>3. Rises(p)
    <3> SUFFICES ASSUME NEW i \in DOMAIN p, NEW j \in DOMAIN p, i < j PROVE p[i] < p[j]
      BY DEF Rises
    <3>1. i \in 1..n
      BY <2>1
    <3>2. CASE j \in 1..n
      BY <1>1, <2>1, <3>1, <3>2 DEF Rises
    <3>3. CASE j = n + 1
      BY <2>1, <2>2, <3>1, <3>3
    <3> QED
      BY <2>1, <3>2, <3>3
  <2>4. Range(p) = Range(q) \union {k}
    <3>1. Range(p) \subseteq Range(q) \union {k}
      BY <2>1 DEF Range
    <3>2. n + 1 \in DOMAIN p /\ k \in Range(p)
      BY <2>1 DEF Range
    <3>3. Range(q) \subseteq Range(p)
      BY <2>1 DEF Range
    <3> QED
      BY <3>1, <3>2, <3>3
  <2>5. S \cap 0..((k + 1) - 1) = (S \cap 0..(k - 1)) \union {k}
    BY <1>3
  <2>6. Lists(p, S, k + 1)
    BY <1>1, <2>1, <2>3, <2>4, <2>5 DEF Lists
  <2> QED
    BY <1>3, <2>6 DEF p
<1> QED
  BY <1>2, <1>3

(* Listed, for every set and bound: sort.Ints of the indexes.              *)
LEMMA ListedIs ==
  ASSUME NEW S, NEW n \in Nat
  PROVE  Lists(Chat!Listed(S, n), S, n)
<1> DEFINE step == [k \in 1..n |-> [q \in Seq(Nat) |-> IF k - 1 \in S THEN Append(q, k - 1) ELSE q]]
           Is(f) == f = [k \in 0..n |-> IF k = 0 THEN <<>>
                                        ELSE IF k - 1 \in S THEN Append(f[k - 1], k - 1)
                                        ELSE f[k - 1]]
           c == CHOOSE f : Is(f)
<1>1. \E f : IsRunOf(f, n, Seq(Nat), <<>>, step)
  <2>1. \A k \in 1..n, q \in Seq(Nat) :
          (IF k - 1 \in S THEN Append(q, k - 1) ELSE q) \in Seq(Nat)
    OBVIOUS
  <2>2. step \in [1..n -> [Seq(Nat) -> Seq(Nat)]]
    BY <2>1
  <2>3. <<>> \in Seq(Nat)
    OBVIOUS
  <2> HIDE DEF step
  <2> QED
    BY <2>2, <2>3, RunOfLoop
<1>2. PICK f : IsRunOf(f, n, Seq(Nat), <<>>, step)
  BY <1>1
<1>3. Is(f)
  <2>1. f \in [0..n -> Seq(Nat)] /\ f[0] = <<>>
    BY <1>2 DEF IsRunOf
  <2>2. \A k \in 1..n : step[k] = [q \in Seq(Nat) |-> IF k - 1 \in S THEN Append(q, k - 1) ELSE q]
    OBVIOUS
  <2> HIDE DEF step
  <2>a. \A k \in 1..n : f[k - 1] \in Seq(Nat) /\ f[k] = step[k][f[k - 1]]
    BY <1>2, <2>1 DEF IsRunOf
  <2>b. ASSUME NEW k \in 1..n, NEW q \in Seq(Nat)
        PROVE  step[k][q] = IF k - 1 \in S THEN Append(q, k - 1) ELSE q
    BY <2>2
  <2>3. \A k \in 1..n : f[k] = IF k - 1 \in S THEN Append(f[k - 1], k - 1) ELSE f[k - 1]
    BY <2>a, <2>b
  <2>4. ASSUME NEW k \in 0..n
        PROVE  f[k] = IF k = 0 THEN <<>>
                      ELSE IF k - 1 \in S THEN Append(f[k - 1], k - 1) ELSE f[k - 1]
    <3>1. k = 0 \/ k \in 1..n
      OBVIOUS
    <3>2. CASE k = 0
      BY <2>1, <3>2
    <3>3. CASE k \in 1..n
      <4>1. k # 0
        BY <3>3
      <4> QED
        BY <2>3, <3>3, <4>1
    <3> QED
      BY <3>1, <3>2, <3>3
  <2> QED
    BY <2>1, <2>4
<1>4. Is(c)
  BY <1>3
<1>5. Chat!Listed(S, n) = c[n]
  BY DEF Chat!Listed
<1> HIDE DEF c, step
<1>6. /\ c[0] = <<>>
      /\ \A k \in 1..n : c[k] = IF k - 1 \in S THEN Append(c[k - 1], k - 1) ELSE c[k - 1]
  <2>1. \A k \in 0..n : c[k] = IF k = 0 THEN <<>>
                               ELSE IF k - 1 \in S THEN Append(c[k - 1], k - 1) ELSE c[k - 1]
    BY <1>4
  <2>2. ASSUME NEW k \in 1..n
        PROVE  c[k] = IF k - 1 \in S THEN Append(c[k - 1], k - 1) ELSE c[k - 1]
    <3>1. k \in 0..n /\ k # 0
      OBVIOUS
    <3> QED
      BY <2>1, <3>1
  <2> QED
    BY <2>1, <2>2
<1> DEFINE T == {k \in 0..n : Lists(c[k], S, k)}
<1>7. 0 \in T
  BY <1>6, ListsNone
<1>8. ASSUME NEW k \in 0..n, k \in T, k + 1 <= n PROVE k + 1 \in T
  <2>1. Lists(c[k], S, k) /\ k \in Nat /\ k + 1 \in 1..n /\ (k + 1) - 1 = k
    BY <1>8
  <2>2. c[k + 1] = IF k \in S THEN Append(c[k], k) ELSE c[k]
    BY <1>6, <2>1
  <2>3. Lists(c[k + 1], S, k + 1)
    BY <2>1, <2>2, ListsNext
  <2> QED
    BY <2>1, <2>3
<1> HIDE DEF T
<1>9. 0..n \subseteq T
  BY <1>7, <1>8, BoundedInduction
<1>10. n \in T
  BY <1>9
<1> QED
  BY <1>5, <1>10 DEF T

(* The same of the Messages converter.                                     *)
LEMMA MessagesListedIs ==
  ASSUME NEW S, NEW n \in Nat
  PROVE  Lists(Messages!Listed(S, n), S, n)
<1>1. Messages!Listed(S, n) = Chat!Listed(S, n)
  BY DEF Chat!Listed, Messages!Listed
<1> QED
  BY <1>1, ListedIs
-----------------------------------------------------------------------------
(* The Messages converter.                                                 *)
LEMMA MessagesSpeaks ==
  ASSUME NEW r, NEW s, NEW K, Goes(r, s, K), NEW e, Speaks(e, K)
  PROVE  Goes(Messages!Say(r, e), s, K)
BY GoesSaying DEF Messages!Say

(* An error tells nothing.                                                 *)
LEMMA MessagesFailsOn ==
  ASSUME NEW r, NEW s, NEW K, Goes(r, s, K)
  PROVE  Goes(Messages!Fail(r), s, K)
BY DEF Goes, Messages!Fail

(* The role chunk is no content that comes late.                           *)
LEMMA MessagesRoleOn ==
  ASSUME NEW r, NEW s, Goes(r, s, QuietEvents)
  PROVE  Goes(Messages!EmitRole(r), s, QuietEvents)
<1> DEFINE u == [r EXCEPT !.role = TRUE]
           x == Messages!Named("role")
<1>1. Messages!EmitRole(r) = IF r.role THEN r ELSE Messages!Say(u, <<x>>)
  BY DEF Messages!EmitRole
<1>2. Goes(u, s, QuietEvents)
  BY DEF Goes
<1>3. x.ev \in QuietEvents
  BY DEF Messages!Named, QuietEvents
<1> HIDE DEF u, x
<1> QED
  BY <1>1, <1>2, <1>3, SpeaksOne, MessagesSpeaks

(* Keeping a blockState tells nothing.                                     *)
LEMMA MessagesPutsOn ==
  ASSUME NEW r, NEW s, NEW K, Goes(r, s, K), NEW i, NEW b
  PROVE  Goes(Messages!WithBlock(r, i, b), s, K)
<1> DEFINE B == [j \in DOMAIN r.blocks \union {i} |-> IF j = i THEN b ELSE r.blocks[j]]
<1>1. Messages!WithBlock(r, i, b) = [r EXCEPT !.blocks = B]
  BY DEF Messages!WithBlock
<1> HIDE DEF B
<1> QED
  BY <1>1 DEF Goes

(* The entry that opens a tool call.                                       *)
LEMMA OpeningSpeaks ==
  ASSUME NEW b, NEW n
  PROVE  Speaks(Messages!Opening(b, n), QuietEvents)
<1> DEFINE x == Messages!Start(b, "tool")
           y == Messages!Delta(b, n)
<1>1. x.ev \in QuietEvents /\ y.ev \in QuietEvents
  BY DEF Messages!Start, Messages!Delta, QuietEvents, ContentEvents
<1>2. Messages!Opening(b, n) = IF n = 0 THEN <<x>> ELSE <<x, y>>
  BY DEF Messages!Opening
<1> HIDE DEF x, y
<1> QED
  BY <1>1, <1>2, SpeaksOne, SpeaksTwo

(* A delta for an openai client tells content only.                        *)
LEMMA MessagesChatDeltaOn ==
  ASSUME NEW s, Goes(s, s, QuietEvents), NEW l, Messages!IsLine(l), l.kind = "block_delta"
  PROVE  Goes(Messages!ChatDelta(s, l), s, QuietEvents)
<1>1. l.type \in {"text", "tool_use", "thinking"}
  BY DEF Messages!IsLine, Messages!BlockKinds
<1>2. CASE l.type = "thinking"
  BY <1>2 DEF Messages!ChatDelta
<1>3. CASE l.type = "text"
  <2> DEFINE x == Messages!Named("content")
  <2>1. Messages!ChatDelta(s, l) = Messages!Say(Messages!EmitRole(s), <<x>>)
    BY <1>3 DEF Messages!ChatDelta
  <2>2. x.ev \in QuietEvents
    BY DEF Messages!Named, QuietEvents, ContentEvents
  <2> HIDE DEF x
  <2> QED
    BY <2>1, <2>2, MessagesRoleOn, SpeaksOne, MessagesSpeaks
<1>4. CASE l.type = "tool_use"
  <2> DEFINE b == s.blocks[l.index]
             n == Messages!Parts(l)
             u == [s EXCEPT !.blocks[l.index].emitted = TRUE]
             x == Messages!Delta(b.block, n)
             e == IF b.emitted THEN <<x>> ELSE Messages!Opening(b.block, n)
  <2>1. Messages!ChatDelta(s, l) =
          IF ~Messages!IsTool(s, l.index) THEN Messages!Fail(s)
          ELSE Messages!Say(Messages!EmitRole(u), e)
    BY <1>4 DEF Messages!ChatDelta
  <2>2. x.ev \in QuietEvents
    BY DEF Messages!Delta, QuietEvents, ContentEvents
  <2>3. Goes(u, s, QuietEvents)
    BY DEF Goes
  <2> HIDE DEF x, b, n, u
  <2>4. Speaks(e, QuietEvents)
    BY <2>2, SpeaksOne, OpeningSpeaks
  <2> HIDE DEF e
  <2> QED
    BY <2>1, <2>3, <2>4, MessagesRoleOn, MessagesSpeaks, MessagesFailsOn
<1> QED
  BY <1>1, <1>2, <1>3, <1>4

(* openai: before the finish.                                              *)
LEMMA MessagesOpenAIOn ==
  ASSUME NEW s, Goes(s, s, QuietEvents), NEW l, Messages!IsLine(l),
         l.kind \notin {"finish", "message_stop"}
  PROVE  Goes(Messages!DispatchOpenAI(s, l), s, QuietEvents)
<1>1. CASE l.kind = "message_start"
  BY <1>1, MessagesRoleOn DEF Messages!DispatchOpenAI
<1>2. CASE l.kind = "block_start"
  <2> DEFINE u == [s EXCEPT !.next = IF l.type = "tool_use" THEN @ + 1 ELSE @]
             b == Messages!NewBlock(l.type, IF l.type = "tool_use" THEN s.next ELSE Messages!Closed)
  <2>1. Messages!DispatchOpenAI(s, l) = Messages!WithBlock(u, l.index, b)
    BY <1>2 DEF Messages!DispatchOpenAI
  <2>2. Goes(u, s, QuietEvents)
    BY DEF Goes
  <2> HIDE DEF u, b
  <2> QED
    BY <2>1, <2>2, MessagesPutsOn
<1>3. CASE l.kind = "block_delta"
  BY <1>3, MessagesChatDeltaOn DEF Messages!DispatchOpenAI
<1>4. CASE l.kind = "error"
  BY <1>4, MessagesFailsOn DEF Messages!DispatchOpenAI
<1>5. CASE l.kind = "ping"
  BY <1>5 DEF Messages!DispatchOpenAI
<1> QED
  BY <1>1, <1>2, <1>3, <1>4, <1>5 DEF Messages!IsLine

(* openai-response: before the end.                                        *)
LEMMA MessagesResponsesOn ==
  ASSUME NEW s, Goes(s, s, QuietEvents), NEW l, Messages!IsLine(l), l.kind # "message_stop"
  PROVE  Goes(Messages!DispatchResponses(s, l), s, QuietEvents)
<1>1. CASE l.kind = "message_start"
  <2> DEFINE x == Messages!Named("created")
  <2>1. Messages!DispatchResponses(s, l) = Messages!Say(s, <<x>>)
    BY <1>1 DEF Messages!DispatchResponses
  <2>2. x.ev \in QuietEvents
    BY DEF Messages!Named, QuietEvents
  <2> HIDE DEF x
  <2> QED
    BY <2>1, <2>2, SpeaksOne, MessagesSpeaks
<1>2. CASE l.kind = "block_start"
  <2> DEFINE item == IF l.type = "text" /\ s.message # Messages!Closed THEN s.message ELSE s.next
             u == [s EXCEPT !.next = @ + 1, !.message = IF l.type = "text" THEN item ELSE @]
             x == Messages!Start(item, IF l.type = "text" THEN "text" ELSE "tool")
             b == Messages!NewBlock(l.type, IF l.type = "thinking" THEN Messages!Closed ELSE item)
             v == IF ~(l.type # "thinking" /\ item = s.next) THEN s ELSE Messages!Say(u, <<x>>)
  <2>1. Messages!DispatchResponses(s, l) = Messages!WithBlock(v, l.index, b)
    BY <1>2 DEF Messages!DispatchResponses, Messages!ResponsesBlockStart
  <2>2. Goes(u, s, QuietEvents)
    BY DEF Goes
  <2>3. x.ev \in QuietEvents
    BY DEF Messages!Start, QuietEvents, ContentEvents
  <2> HIDE DEF u, b, x, item
  <2>4. Goes(v, s, QuietEvents)
    BY <2>2, <2>3, SpeaksOne, MessagesSpeaks
  <2> HIDE DEF v
  <2> QED
    BY <2>1, <2>4, MessagesPutsOn
<1>3. CASE l.kind = "block_delta"
  <2> DEFINE t == Messages!ResponsesDelta(s, l)
             u == [s EXCEPT !.blocks[l.index].args = Messages!Joined(@, l.args)]
             x == Messages!Delta(IF s.message # Messages!Closed THEN s.message ELSE l.index, 1)
             y == Messages!Delta(s.blocks[l.index].block, Messages!Parts(l))
  <2>1. Messages!DispatchResponses(s, l) = t /\ l.type \in {"text", "tool_use", "thinking"}
    BY <1>3 DEF Messages!DispatchResponses, Messages!IsLine, Messages!BlockKinds
  <2>2. /\ l.type = "thinking" => t = s
        /\ l.type = "text" => t = Messages!Say(s, <<x>>)
        /\ l.type = "tool_use" => t = IF ~Messages!IsTool(s, l.index) THEN Messages!Fail(s)
                                      ELSE Messages!Say(u, <<y>>)
    BY DEF Messages!ResponsesDelta
  <2>3. x.ev \in QuietEvents /\ y.ev \in QuietEvents
    BY DEF Messages!Delta, QuietEvents, ContentEvents
  <2>4. Goes(u, s, QuietEvents)
    BY DEF Goes
  <2> HIDE DEF u, x, y, t
  <2> QED
    BY <2>1, <2>2, <2>3, <2>4, SpeaksOne, MessagesSpeaks, MessagesFailsOn
<1>4. CASE l.kind = "finish"
  BY <1>4 DEF Messages!DispatchResponses, Goes
<1>5. CASE l.kind = "error"
  BY <1>5, MessagesFailsOn DEF Messages!DispatchResponses
<1>6. CASE l.kind = "ping"
  BY <1>6 DEF Messages!DispatchResponses
<1> QED
  BY <1>1, <1>2, <1>3, <1>4, <1>5, <1>6 DEF Messages!IsLine

(* observeFrame tells nothing; only a finish or a stop is noted as one.    *)
LEMMA MessagesObservesOn ==
  ASSUME NEW s, MessagesInv(s), NEW l, Messages!IsLine(l),
         NEW t, t = Messages!ObserveFrame(s, l)
  PROVE  /\ t.said = s.said /\ t.sourceFormat = s.sourceFormat /\ t.blocks = s.blocks
         /\ t.message = s.message /\ t.next = s.next /\ t.done = s.done
         /\ t.emitted = s.emitted /\ t.flushed = s.flushed
         /\ l.kind # "finish" => t.finished = s.finished
         /\ l.kind # "message_stop" => t.terminalSeen = s.terminalSeen
<1>1. DOMAIN s = MessagesFields
  BY DEF MessagesInv, MessagesHalf, MessagesTyped
<1>2. CASE l.kind = "message_start"
  <2>1. t = s \/ t = [[s EXCEPT !.started = TRUE] EXCEPT !.progress = @ + 1]
    BY <1>2 DEF Messages!ObserveFrame, Messages!StateStart, Messages!Advance
  <2> QED
    BY <1>1, <2>1 DEF MessagesFields, BaseFields
<1>3. CASE l.kind = "block_start"
  <2> DEFINE q == [j \in DOMAIN s.seenStarts \union {l.index} |->
                     IF j = l.index THEN l.type ELSE s.seenStarts[j]]
  <2>1. t = s \/ t = [[s EXCEPT !.seenStarts = q] EXCEPT !.progress = @ + 1]
    BY <1>3 DEF Messages!ObserveFrame, Messages!Advance
  <2> HIDE DEF q
  <2> QED
    BY <1>1, <2>1 DEF MessagesFields, BaseFields
<1>4. CASE l.kind = "block_delta"
  <2>1. t = s \/ t = [s EXCEPT !.progress = @ + 1]
    BY <1>4 DEF Messages!ObserveFrame, Messages!Advance, Messages!AdvanceIf
  <2> QED
    BY <1>1, <2>1 DEF MessagesFields, BaseFields
<1>5. CASE l.kind = "finish"
  <2> DEFINE f == IF l.stop = "none" THEN s ELSE Messages!Finish(s)
             u == [f EXCEPT !.usage = l.usage]
             Like(r) ==
               /\ DOMAIN r = MessagesFields
               /\ r.said = s.said /\ r.sourceFormat = s.sourceFormat /\ r.blocks = s.blocks
               /\ r.message = s.message /\ r.next = s.next /\ r.done = s.done
               /\ r.emitted = s.emitted /\ r.flushed = s.flushed
               /\ r.terminalSeen = s.terminalSeen
  <2>1. t = u \/ t = [u EXCEPT !.progress = @ + 1]
    BY <1>5 DEF Messages!ObserveFrame, Messages!Advance, Messages!AdvanceIf
  <2>2. f = s \/ f = [[s EXCEPT !.finished = TRUE] EXCEPT !.progress = @ + 1]
    BY DEF Messages!Finish, Messages!Advance
  <2> HIDE DEF f
  <2>3. Like(f)
    BY <1>1, <2>2 DEF MessagesFields, BaseFields
  <2>4. Like(u)
    BY <2>3 DEF MessagesFields, BaseFields
  <2> HIDE DEF u
  <2>5. Like(t)
    BY <2>1, <2>4 DEF MessagesFields, BaseFields
  <2> QED
    BY <1>5, <2>5
<1>6. CASE l.kind = "message_stop"
  <2>1. t = [[[s EXCEPT !.progress = @ + 1] EXCEPT !.terminalSeen = TRUE]
               EXCEPT !.progress = @ + 1]
    BY <1>6 DEF Messages!ObserveFrame, Messages!Advance, Messages!Terminal
  <2> QED
    BY <1>1, <1>6, <2>1 DEF MessagesFields, BaseFields
<1>7. CASE l.kind \in {"error", "ping"}
  <2>1. t = s
    BY <1>7 DEF Messages!ObserveFrame
  <2> QED
    BY <2>1
<1> QED
  BY <1>2, <1>3, <1>4, <1>5, <1>6, <1>7 DEF Messages!IsLine

(* A frame that does not fail, by what Dispatch made of it.                *)
LEMMA MessagesHandled ==
  ASSUME NEW s, NEW l, Messages!IsLine(l), NEW d, d = Messages!Dispatch(s, l), MessagesInv(d),
         NEW t, t = Messages!HandleLine(s, l), ~t.failed
  PROVE  /\ ~d.failed
         /\ t.said = d.said /\ t.sourceFormat = d.sourceFormat /\ t.blocks = d.blocks
         /\ t.message = d.message /\ t.next = d.next /\ t.done = d.done
         /\ t.flushed = d.flushed
         /\ t.emitted = (d.emitted \/ d.said # s.said)
         /\ l.kind # "finish" => t.finished = d.finished
         /\ l.kind # "message_stop" => t.terminalSeen = d.terminalSeen
<1> DEFINE emitted == d.emitted \/ d.said # s.said
           e == [d EXCEPT !.emitted = emitted]
<1>1. t = IF d.failed THEN d
          ELSE IF d.done /\ ~Messages!ToolsWellFormed(d) THEN Messages!Fail(d)
          ELSE IF s.typed THEN Messages!ObserveFrame(e, l) ELSE e
  BY DEF Messages!HandleLine
<1>2. DOMAIN d = MessagesFields /\ d.emitted \in BOOLEAN
  BY DEF MessagesInv, MessagesHalf, MessagesTyped
<1>3. emitted \in BOOLEAN
  OBVIOUS
<1>4. Messages!Fail(d).failed
  BY <1>2 DEF Messages!Fail, MessagesFields, BaseFields
<1>5. t = Messages!ObserveFrame(e, l) \/ t = e
  BY <1>1, <1>4
<1>6. ~d.failed
  BY <1>1
<1> HIDE DEF emitted
<1>7. MessagesLike(e, d)
  BY <1>2, <1>3 DEF MessagesInv, MessagesHalf, Common, MessagesTyped, MessagesFields, BaseFields,
                    MessagesLike
<1>8. /\ e.said = d.said /\ e.sourceFormat = d.sourceFormat /\ e.blocks = d.blocks
      /\ e.message = d.message /\ e.next = d.next /\ e.done = d.done
      /\ e.flushed = d.flushed /\ e.finished = d.finished /\ e.terminalSeen = d.terminalSeen
      /\ e.emitted = emitted
  BY <1>2 DEF MessagesFields, BaseFields
<1> HIDE DEF e
<1>9. MessagesInv(e)
  BY <1>7, MessagesKeepsLike
<1>10. CASE t = e
  BY <1>6, <1>8, <1>10 DEF emitted
<1>11. CASE t = Messages!ObserveFrame(e, l)
  <2>1. /\ t.said = e.said /\ t.sourceFormat = e.sourceFormat /\ t.blocks = e.blocks
        /\ t.message = e.message /\ t.next = e.next /\ t.done = e.done
        /\ t.emitted = e.emitted /\ t.flushed = e.flushed
        /\ l.kind # "finish" => t.finished = e.finished
        /\ l.kind # "message_stop" => t.terminalSeen = e.terminalSeen
    BY <1>9, <1>11, MessagesObservesOn
  <2> QED
    BY <1>6, <1>8, <2>1 DEF emitted
<1> QED
  BY <1>5, <1>10, <1>11

(* What is heard of the upstream's start and finish.                       *)
LEMMA HeardSoFar ==
  ASSUME NEW u, UpTyped(u), NEW l, Messages!IsLine(l), NEW v, v = Messages!Heard(u, l)
  PROVE  /\ IF l.kind = "finish" THEN v.finish = TRUE ELSE v.finish = u.finish
         /\ IF l.kind = "message_start" THEN v.start = TRUE ELSE v.start = u.start
         /\ l.kind \notin {"block_start", "block_delta"} => v.blocks = u.blocks
<1>1. DOMAIN u = {"start", "blocks", "finish", "stop"}
  BY DEF UpTyped
<1>2. CASE l.kind = "block_start"
  <2> DEFINE q == Append(u.blocks, [type |-> l.type, args |-> "none", told |-> FALSE, parts |-> 0])
  <2>1. v = [u EXCEPT !.blocks = q]
    BY <1>2 DEF Messages!Heard
  <2> HIDE DEF q
  <2> QED
    BY <1>1, <1>2, <2>1
<1>3. CASE l.kind = "block_delta"
  <2> DEFINE k == l.index + 1
             z == u.blocks[k]
             y == [z EXCEPT !.args = Messages!Joined(@, l.args), !.told = TRUE,
                            !.parts = @ + Messages!Parts(l)]
             q == [u.blocks EXCEPT ![k] = y]
  <2>1. v.finish = u.finish /\ v.start = u.start
    BY <1>1, <1>3 DEF Messages!Heard
  <2> QED
    BY <1>3, <2>1
<1>4. CASE l.kind \notin {"block_start", "block_delta"}
  <2>1. v = CASE l.kind = "message_start" -> [u EXCEPT !.start = TRUE]
              [] l.kind = "finish"        -> [u EXCEPT !.finish = TRUE, !.stop = l.stop]
              [] OTHER                    -> u
    BY <1>4 DEF Messages!Heard
  <2>2. CASE l.kind = "message_start"
    BY <1>1, <2>1, <2>2
  <2>3. CASE l.kind = "finish"
    BY <1>1, <2>1, <2>3
  <2>4. CASE l.kind \notin {"message_start", "finish"}
    <3>1. v = u
      BY <2>1, <2>4
    <3> QED
      BY <2>4, <3>1
  <2> QED
    BY <2>2, <2>3, <2>4
<1> QED
  BY <1>2, <1>3, <1>4

(* What an open stream's converter knows of the upstream.                  *)
Awaits(s, u) ==
  /\ s.finished => u.finish
  /\ u.finish => u.start
  /\ ~s.terminalSeen

(* A frame that is not message_stop leaves the stream waiting for it.      *)
LEMMA MessagesAwaits ==
  ASSUME NEW s, NEW u, UpTyped(u), Awaits(s, u), NEW l, Messages!IsLine(l),
         Messages!MayFollow(u, l), l.kind # "message_stop",
         NEW d, d = Messages!Dispatch(s, l), MessagesInv(d),
         d.finished = s.finished, d.terminalSeen = s.terminalSeen,
         NEW t, t = Messages!HandleLine(s, l), ~t.failed,
         NEW v, v = Messages!Heard(u, l)
  PROVE  Awaits(t, v)
<1>1. /\ l.kind # "finish" => t.finished = s.finished
      /\ t.terminalSeen = s.terminalSeen
  BY MessagesHandled
<1>2. /\ IF l.kind = "finish" THEN v.finish = TRUE ELSE v.finish = u.finish
      /\ IF l.kind = "message_start" THEN v.start = TRUE ELSE v.start = u.start
  BY HeardSoFar
<1>3. l.kind = "finish" => u.start
  BY DEF Messages!MayFollow
<1>4. CASE l.kind = "finish"
  BY <1>1, <1>2, <1>3, <1>4 DEF Awaits
<1>5. CASE l.kind = "message_start"
  BY <1>1, <1>2, <1>5 DEF Awaits
<1>6. CASE l.kind \notin {"finish", "message_start"}
  BY <1>1, <1>2, <1>6 DEF Awaits
<1> QED
  BY <1>4, <1>5, <1>6

(* claude: the frames are passed on.                                       *)
LEMMA MessagesWholeClaude ==
  ASSUME NEW s, MessagesInv(s), s.sourceFormat = "claude", Never(s.said, EndEvents),
         NEW u, UpTyped(u), Awaits(s, u), NEW l, Messages!IsLine(l), Messages!MayFollow(u, l),
         NEW t, t = Messages!HandleLine(s, l), ~t.failed, NEW v, v = Messages!Heard(u, l)
  PROVE  /\ t.sourceFormat = "claude"
         /\ Never(t.said, EndEvents) /\ EndLast(t.said, "claude")
         /\ ~t.done => Awaits(t, v)
<1> DEFINE d == Messages!Dispatch(s, l)
           r == [s EXCEPT !.done = (l.kind = "message_stop")]
           x == Messages!Named("raw")
<1>1. d = IF l.kind = "error" THEN Messages!Fail(s) ELSE Messages!Say(r, <<x>>)
  BY DEF Messages!Dispatch, Messages!DispatchClaude
<1>2. MessagesInv(d)
  BY MessagesDispatches
<1>3. DOMAIN s = MessagesFields /\ IsASequence(s.said)
  BY LawfulFacts DEF MessagesInv, MessagesHalf, MessagesTyped, Common
<1>4. /\ r.done = (l.kind = "message_stop") /\ r.finished = s.finished
      /\ r.terminalSeen = s.terminalSeen /\ r.sourceFormat = s.sourceFormat
      /\ r.said = s.said /\ DOMAIN r = MessagesFields
  BY <1>3 DEF MessagesFields, BaseFields
<1>5. x.ev = "raw"
  BY DEF Messages!Named
<1>6. Messages!Fail(s).failed
  BY <1>3 DEF Messages!Fail, MessagesFields, BaseFields
<1>7. d = Messages!Dispatch(s, l)
  OBVIOUS
<1> HIDE DEF d, r, x
<1>8. /\ ~d.failed /\ t.said = d.said /\ t.sourceFormat = d.sourceFormat /\ t.done = d.done
  BY <1>2, <1>7, MessagesHandled
<1>9. d = Messages!Say(r, <<x>>)
  BY <1>1, <1>6, <1>8
<1>10. /\ d.said = s.said \o <<x>> /\ d.sourceFormat = s.sourceFormat /\ d.done = r.done
       /\ d.finished = s.finished /\ d.terminalSeen = s.terminalSeen
  BY <1>4, <1>9 DEF Messages!Say, MessagesFields, BaseFields
<1>11. Never(s.said \o <<x>>, EndEvents)
  <2>1. x.ev \notin EndEvents
    BY <1>5 DEF EndEvents
  <2> QED
    BY <1>3, <2>1, NeverAppended
<1>12. EndLast(s.said \o <<x>>, "claude")
  BY <1>11, NoEndYet
<1>13. ASSUME ~t.done PROVE Awaits(t, v)
  <2>1. l.kind # "message_stop"
    BY <1>4, <1>8, <1>10, <1>13
  <2> QED
    BY <1>2, <1>7, <1>10, <2>1, MessagesAwaits
<1> QED
  BY <1>8, <1>10, <1>11, <1>12, <1>13

(* openai: a finish chunk for each message_delta.                          *)
FinishTold(s, u) ==
  /\ Never(s.said, {"message_delta", "message_stop", "completed"})
  /\ u.finish <=> Ever(s.said, "finish")

(* Without a finish chunk an openai stream has nothing of an end.          *)
LEMMA NeverEver ==
  ASSUME NEW w, Never(w, {"message_delta", "message_stop", "completed"}), ~Ever(w, "finish")
  PROVE  Never(w, EndEvents)
BY DEF Never, Ever, EndEvents

(* What was never told was not told.                                       *)
LEMMA EverNot ==
  ASSUME NEW w, Never(w, EndEvents), NEW ev \in EndEvents
  PROVE  ~Ever(w, ev)
BY DEF Never, Ever

(* A frame for an openai client: the finish chunk is told with the         *)
(* upstream's message_delta, once, after all content, and the stream is    *)
(* done with its message_stop.                                             *)
LEMMA MessagesWholeOpenAI ==
  ASSUME NEW s, MessagesInv(s), s.sourceFormat = "openai", ~s.done,
         NEW u, UpTyped(u), Awaits(s, u), EndLast(s.said, "openai"), FinishTold(s, u),
         NEW l, Messages!IsLine(l), Messages!MayFollow(u, l),
         NEW t, t = Messages!HandleLine(s, l), ~t.failed, NEW v, v = Messages!Heard(u, l)
  PROVE  /\ t.sourceFormat = "openai" /\ EndLast(t.said, "openai")
         /\ ~t.done => Awaits(t, v) /\ FinishTold(t, v)
         /\ t.done => WholeEnd(t, "messages")
<1> DEFINE d == Messages!Dispatch(s, l)
<1>1. d = Messages!DispatchOpenAI(s, l)
  BY DEF Messages!Dispatch
<1>2. MessagesInv(d) /\ d = Messages!Dispatch(s, l)
  BY MessagesDispatches
<1>3. DOMAIN s = MessagesFields /\ IsASequence(s.said)
  BY LawfulFacts DEF MessagesInv, MessagesHalf, MessagesTyped, Common
<1>4. Goes(s, s, QuietEvents)
  BY <1>3, GoesNowhere DEF MessagesFields
<1> HIDE DEF d
<1>5. /\ ~d.failed /\ t.said = d.said /\ t.sourceFormat = d.sourceFormat /\ t.done = d.done
  BY <1>2, MessagesHandled
<1>6. ASSUME d.finished = s.finished, d.terminalSeen = s.terminalSeen, l.kind # "message_stop"
      PROVE  Awaits(t, v)
  BY <1>2, <1>6, MessagesAwaits
<1>7. IF l.kind = "finish" THEN v.finish = TRUE ELSE v.finish = u.finish
  BY HeardSoFar
<1>8. CASE l.kind \notin {"finish", "message_stop", "ping", "message_start"}
  <2>1. Goes(d, s, QuietEvents)
    BY <1>1, <1>4, <1>8, MessagesOpenAIOn
  <2>2. /\ Extends(d.said, s.said, QuietEvents) /\ d.finished = s.finished
        /\ d.terminalSeen = s.terminalSeen /\ d.done = s.done /\ d.sourceFormat = s.sourceFormat
    BY <2>1 DEF Goes
  <2>3. l.kind # "error"
    <3>1. Messages!Fail(s).failed
      BY <1>3 DEF Messages!Fail, MessagesFields, BaseFields
    <3> QED
      BY <1>1, <1>5, <3>1 DEF Messages!DispatchOpenAI
  <2>4. ~u.finish
    BY <1>8, <2>3 DEF Messages!MayFollow, Messages!IsLine
  <2>5. Never(s.said, EndEvents)
    BY <2>4, NeverEver DEF FinishTold
  <2>6. QuietEvents \cap EndEvents = {}
    BY DEF QuietEvents, ContentEvents, EndEvents
  <2>7. Never(d.said, EndEvents)
    BY <2>2, <2>5, <2>6, ExtendsNever
  <2>8. ~Ever(d.said, "finish")
    BY <2>7, EverNot DEF EndEvents
  <2>9. Never(d.said, {"message_delta", "message_stop", "completed"})
    BY <2>7, NeverLess DEF EndEvents
  <2>10. FinishTold(t, v)
    BY <1>5, <1>7, <1>8, <2>4, <2>8, <2>9 DEF FinishTold
  <2>11. Awaits(t, v)
    BY <1>6, <1>8, <2>2
  <2> QED
    BY <1>5, <2>2, <2>7, <2>10, <2>11, NoEndYet
<1>9. CASE l.kind \in {"ping", "message_start"}
  <2>1. d = s \/ d = Messages!EmitRole(s)
    BY <1>1, <1>9 DEF Messages!DispatchOpenAI
  <2>2. Goes(d, s, {"role"})
    <3> DEFINE r == [s EXCEPT !.role = TRUE]
               x == Messages!Named("role")
    <3>1. d = s \/ d = Messages!Say(r, <<x>>)
      BY <2>1 DEF Messages!EmitRole
    <3>2. x.ev \in {"role"}
      BY DEF Messages!Named
    <3>3. Goes(s, s, {"role"})
      BY <1>3, GoesNowhere DEF MessagesFields
    <3>4. Goes(r, s, {"role"})
      BY <3>3 DEF Goes
    <3> HIDE DEF r, x
    <3> QED
      BY <3>1, <3>2, <3>3, <3>4, SpeaksOne, MessagesSpeaks
  <2>3. /\ Extends(d.said, s.said, {"role"}) /\ d.finished = s.finished
        /\ d.terminalSeen = s.terminalSeen /\ d.done = s.done /\ d.sourceFormat = s.sourceFormat
    BY <2>2 DEF Goes
  <2>4. Never(s.said, {EndEvent("openai")})
    BY DEF FinishTold, Never, EndEvent
  <2>5. EndLast(d.said, "openai")
    <3>1. /\ EndEvent("openai") \notin {"role"} /\ "message_delta" \notin {"role"}
          /\ {"role"} \cap ContentEvents = {}
      BY DEF EndEvent, ContentEvents
    <3> QED
      BY <2>3, <2>4, <3>1, EndStays
  <2>6. Ever(d.said, "finish") <=> Ever(s.said, "finish")
    BY <2>3, ExtendsEver
  <2>7. Never(d.said, {"message_delta", "message_stop", "completed"})
    <3>1. {"role"} \cap {"message_delta", "message_stop", "completed"} = {}
      OBVIOUS
    <3> QED
      BY <2>3, <3>1, ExtendsNever DEF FinishTold
  <2>8. FinishTold(t, v)
    BY <1>5, <1>7, <1>9, <2>6, <2>7 DEF FinishTold
  <2>9. Awaits(t, v)
    BY <1>6, <1>9, <2>3
  <2> QED
    BY <1>5, <2>3, <2>5, <2>8, <2>9
<1>10. CASE l.kind = "finish"
  <2> DEFINE reason == Messages!TerminalReason(\E i \in DOMAIN s.blocks : Messages!IsTool(s, i),
                                               Messages!FinishOf(l.stop))
             x == Messages!Ending("finish", reason)
  <2>1. d = Messages!Say(s, <<x>>)
    BY <1>1, <1>10 DEF Messages!DispatchOpenAI
  <2>2. x.ev = "finish"
    BY DEF Messages!Ending
  <2> HIDE DEF x, reason
  <2>3. /\ d.said = s.said \o <<x>> /\ d.finished = s.finished /\ d.sourceFormat = s.sourceFormat
        /\ d.terminalSeen = s.terminalSeen /\ d.done = s.done
    BY <1>3, <2>1 DEF Messages!Say, MessagesFields, BaseFields
  <2> DEFINE w == s.said \o <<x>>
  <2>4. EndLast(w, "openai")
    <3>1. CASE ~Ever(s.said, "finish")
      <4>1. Never(s.said, EndEvents)
        BY <3>1, NeverEver DEF FinishTold
      <4> QED
        BY <1>3, <2>2, <4>1, EndsWithDelta
    <3>2. CASE Ever(s.said, "finish")
      <4>1. Extends(w, s.said, {"finish"})
        BY <1>3, <2>2, ExtendsOne
      <4>2. Never(s.said, {EndEvent("openai")})
        BY DEF FinishTold, Never, EndEvent
      <4>3. /\ EndEvent("openai") \notin {"finish"} /\ "message_delta" \notin {"finish"}
            /\ {"finish"} \cap ContentEvents = {}
        BY DEF EndEvent, ContentEvents
      <4> HIDE DEF w
      <4> QED
        BY <4>1, <4>2, <4>3, EndStays
    <3> QED
      BY <3>1, <3>2
  <2>5. Ever(w, "finish")
    BY <1>3, <2>2, EverAppended
  <2>6. Never(w, {"message_delta", "message_stop", "completed"})
    BY <1>3, <2>2, NeverAppended DEF FinishTold
  <2> HIDE DEF w
  <2>7. d.said = w
    BY <2>3 DEF w
  <2>8. FinishTold(t, v)
    BY <1>5, <1>7, <1>10, <2>5, <2>6, <2>7 DEF FinishTold
  <2>9. Awaits(t, v)
    BY <1>6, <1>10, <2>3
  <2> QED
    BY <1>5, <2>3, <2>4, <2>7, <2>8, <2>9
<1>11. CASE l.kind = "message_stop"
  <2>1. d = [s EXCEPT !.done = TRUE]
    BY <1>1, <1>11 DEF Messages!DispatchOpenAI
  <2>2. d.said = s.said /\ d.sourceFormat = s.sourceFormat /\ d.done
    BY <1>3, <2>1 DEF MessagesFields, BaseFields
  <2>3. u.finish
    BY <1>11 DEF Messages!MayFollow
  <2>4. Ever(t.said, "finish")
    BY <1>5, <2>2, <2>3 DEF FinishTold
  <2> QED
    BY <1>5, <2>2, <2>4 DEF WholeEnd
<1> QED
  BY <1>8, <1>9, <1>10, <1>11

(* The end of the upstream stream or of the finish grace, for both.        *)
LEMMA MessagesWholeEnds ==
  ASSUME NEW s, MessagesInv(s), s.sourceFormat # "openai-response", NEW u, Awaits(s, u),
         NEW t, t = Messages!FinalizeStream(s), ~t.failed
  PROVE  u.finish /\ t.said = s.said /\ t.sourceFormat = s.sourceFormat
<1>1. DOMAIN s = MessagesFields
  BY DEF MessagesInv, MessagesHalf, MessagesTyped
<1>2. t = IF ~s.finished \/ ~Messages!ToolsWellFormed(s) THEN Messages!Fail(s)
          ELSE Messages!Terminal([s EXCEPT !.flushed = TRUE])
  BY DEF Messages!FinalizeStream, Messages!Flush, Awaits
<1>3. Messages!Fail(s).failed
  BY <1>1 DEF Messages!Fail, MessagesFields, BaseFields
<1>4. s.finished /\ t = Messages!Terminal([s EXCEPT !.flushed = TRUE])
  BY <1>2, <1>3
<1>5. t.said = s.said /\ t.sourceFormat = s.sourceFormat
  BY <1>1, <1>4 DEF Messages!Terminal, Messages!Advance, MessagesFields, BaseFields
<1> QED
  BY <1>4, <1>5 DEF Awaits
-----------------------------------------------------------------------------
(* The items a Messages upstream's blocks are to an openai-response client *)
(* come in the order of the blocks: B are the c blocks, m the message item *)
(* and O the items announced.                                              *)
Placed(B, i) ==
  \/ B[i].type = "tool_use"
  \/ B[i].type = "text" /\ \A j \in DOMAIN B : B[j].type = "text" => i <= j

InOrder(B, m, O, c) ==
  /\ DOMAIN B = 0..(c - 1)
  /\ \A i \in DOMAIN B : B[i].type \in {"text", "tool_use", "thinking"}
  /\ \A i \in DOMAIN B : B[i].type = "text" => B[i].block = m
  /\ \A i \in DOMAIN B : B[i].type # "thinking" => B[i].block \in O
  /\ \A b \in O : \E i \in DOMAIN B : B[i].type # "thinking" /\ B[i].block = b
  /\ m # Closed => \E i \in DOMAIN B : /\ B[i].type = "text"
                                       /\ \A j \in DOMAIN B : B[j].type = "text" => i <= j
  /\ \A i, j \in DOMAIN B : i < j /\ Placed(B, i) /\ Placed(B, j) => B[i].block < B[j].block

(* What a block's arguments and fragments are does not matter.             *)
LEMMA InOrderSame ==
  ASSUME NEW B, NEW m, NEW O, NEW c, InOrder(B, m, O, c), NEW C, DOMAIN C = DOMAIN B,
         \A i \in DOMAIN B : C[i].type = B[i].type /\ C[i].block = B[i].block
  PROVE  InOrder(C, m, O, c)
<1>1. \A i \in DOMAIN B : Placed(C, i) <=> Placed(B, i)
  BY DEF Placed
<1>2. \A i, j \in DOMAIN C : i < j /\ Placed(C, i) /\ Placed(C, j) => C[i].block < C[j].block
  BY <1>1 DEF InOrder
<1>3. m # Closed => \E i \in DOMAIN C : /\ C[i].type = "text"
                                        /\ \A j \in DOMAIN C : C[j].type = "text" => i <= j
  BY DEF InOrder
<1> QED
  BY <1>2, <1>3 DEF InOrder

(* The next block, of each kind.                                           *)
NextOf(C, B, c) ==
  /\ DOMAIN C = 0..c
  /\ \A i \in 0..(c - 1) : C[i] = B[i]

(* A thinking block takes no item.                                         *)
LEMMA InOrderThinking ==
  ASSUME NEW B, NEW m, NEW O, NEW c \in Nat, InOrder(B, m, O, c), NEW C, NextOf(C, B, c),
         C[c].type = "thinking"
  PROVE  InOrder(C, m, O, c + 1)
<1>1. DOMAIN B = 0..(c - 1) /\ DOMAIN C = 0..((c + 1) - 1)
  BY DEF InOrder, NextOf
<1>2. \A i \in DOMAIN C : i \in DOMAIN B \/ i = c
  BY <1>1
<1>3. \A i \in DOMAIN B : i \in DOMAIN C /\ C[i] = B[i]
  BY <1>1 DEF NextOf
<1>4. \A i \in DOMAIN C : Placed(C, i) => i \in DOMAIN B /\ Placed(B, i)
  BY <1>2, <1>3 DEF Placed
<1>5. \A i, j \in DOMAIN C : i < j /\ Placed(C, i) /\ Placed(C, j) => C[i].block < C[j].block
  BY <1>3, <1>4 DEF InOrder
<1>6. m # Closed => \E i \in DOMAIN C : /\ C[i].type = "text"
                                        /\ \A j \in DOMAIN C : C[j].type = "text" => i <= j
  BY <1>2, <1>3 DEF InOrder
<1>7. \A b \in O : \E i \in DOMAIN C : C[i].type # "thinking" /\ C[i].block = b
  BY <1>3 DEF InOrder
<1>8. /\ \A i \in DOMAIN C : C[i].type \in {"text", "tool_use", "thinking"}
      /\ \A i \in DOMAIN C : C[i].type = "text" => C[i].block = m
      /\ \A i \in DOMAIN C : C[i].type # "thinking" => C[i].block \in O
  BY <1>2, <1>3 DEF InOrder
<1> QED
  BY <1>1, <1>5, <1>6, <1>7, <1>8 DEF InOrder

(* A second text block takes none either: it shares the message item.      *)
LEMMA InOrderText ==
  ASSUME NEW B, NEW m, m # Closed, NEW O, m \in O, NEW c \in Nat, InOrder(B, m, O, c),
         NEW C, NextOf(C, B, c), C[c].type = "text", C[c].block = m
  PROVE  InOrder(C, m, O, c + 1)
<1>1. DOMAIN B = 0..(c - 1) /\ DOMAIN C = 0..((c + 1) - 1)
  BY DEF InOrder, NextOf
<1>2. \A i \in DOMAIN C : i \in DOMAIN B \/ i = c
  BY <1>1
<1>3. \A i \in DOMAIN B : i \in DOMAIN C /\ C[i] = B[i] /\ i < c
  BY <1>1 DEF NextOf
<1>a. PICK f \in DOMAIN B : /\ B[f].type = "text"
                            /\ \A j \in DOMAIN B : B[j].type = "text" => f <= j
  BY DEF InOrder
<1>b. f \in DOMAIN C /\ C[f].type = "text" /\ \A j \in DOMAIN C : C[j].type = "text" => f <= j
  BY <1>1, <1>2, <1>3, <1>a
<1>c. ~Placed(C, c)
  BY <1>1, <1>3, <1>a, <1>b DEF Placed
<1>4. \A i \in DOMAIN C : Placed(C, i) => i \in DOMAIN B /\ Placed(B, i)
  <2> SUFFICES ASSUME NEW i \in DOMAIN C, Placed(C, i) PROVE i \in DOMAIN B /\ Placed(B, i)
    OBVIOUS
  <2>1. i \in DOMAIN B
    BY <1>2, <1>c
  <2> QED
    BY <1>3, <2>1 DEF Placed
<1>5. \A i, j \in DOMAIN C : i < j /\ Placed(C, i) /\ Placed(C, j) => C[i].block < C[j].block
  BY <1>3, <1>4 DEF InOrder
<1>7. \A b \in O : \E i \in DOMAIN C : C[i].type # "thinking" /\ C[i].block = b
  BY <1>3 DEF InOrder
<1>8. /\ \A i \in DOMAIN C : C[i].type \in {"text", "tool_use", "thinking"}
      /\ \A i \in DOMAIN C : C[i].type = "text" => C[i].block = m
      /\ \A i \in DOMAIN C : C[i].type # "thinking" => C[i].block \in O
  BY <1>2, <1>3 DEF InOrder
<1>9. \E i \in DOMAIN C : /\ C[i].type = "text"
                          /\ \A j \in DOMAIN C : C[j].type = "text" => i <= j
  BY <1>b
<1> QED
  BY <1>1, <1>5, <1>7, <1>8, <1>9 DEF InOrder

(* A new item comes after all others.                                      *)
LEMMA InOrderNew ==
  ASSUME NEW B, NEW m, NEW n \in Nat, NEW O, O \subseteq 0..(n - 1), NEW c \in Nat,
         InOrder(B, m, O, c), NEW C, NextOf(C, B, c), C[c].block = n,
         NEW p, \/ C[c].type = "tool_use" /\ p = m
                \/ C[c].type = "text" /\ m = Closed /\ p = n
  PROVE  InOrder(C, p, O \union {n}, c + 1)
<1>1. DOMAIN B = 0..(c - 1) /\ DOMAIN C = 0..((c + 1) - 1) /\ c \in DOMAIN C
  BY DEF InOrder, NextOf
<1>2. \A i \in DOMAIN C : i \in DOMAIN B \/ i = c
  BY <1>1
<1>3. \A i \in DOMAIN B : i \in DOMAIN C /\ C[i] = B[i] /\ i < c
  BY <1>1 DEF NextOf
<1>a. \A i \in DOMAIN B :
        B[i].type # "thinking" => B[i].block \in O /\ B[i].block \in 0..(n - 1) /\ B[i].block < n
  <2> SUFFICES ASSUME NEW i \in DOMAIN B, B[i].type # "thinking"
               PROVE  B[i].block \in O /\ B[i].block \in 0..(n - 1) /\ B[i].block < n
    OBVIOUS
  <2>1. B[i].block \in O
    BY DEF InOrder
  <2>2. B[i].block \in 0..(n - 1)
    BY <2>1
  <2> QED
    BY <2>1, <2>2
<1>b. m = Closed => \A i \in DOMAIN B : B[i].type # "text"
  <2> SUFFICES ASSUME m = Closed, NEW i \in DOMAIN B, B[i].type = "text" PROVE FALSE
    OBVIOUS
  <2>1. B[i].block = -1 /\ B[i].block \in 0..(n - 1)
    BY <1>a DEF InOrder, Closed
  <2> QED
    BY <2>1
<1>4. \A i \in DOMAIN B : Placed(C, i) => Placed(B, i)
  BY <1>3 DEF Placed
<1>5. \A i, j \in DOMAIN C : i < j /\ Placed(C, i) /\ Placed(C, j) => C[i].block < C[j].block
  <2> SUFFICES ASSUME NEW i \in DOMAIN C, NEW j \in DOMAIN C, i < j, Placed(C, i), Placed(C, j)
               PROVE  C[i].block < C[j].block
    OBVIOUS
  <2>1. i \in DOMAIN B
    BY <1>1, <1>2
  <2>2. CASE j \in DOMAIN B
    BY <1>3, <1>4, <2>1, <2>2 DEF InOrder
  <2>3. CASE j = c
    <3>1. B[i].type # "thinking"
      BY <1>4, <2>1 DEF Placed
    <3> QED
      BY <1>3, <1>a, <2>1, <2>3, <3>1
  <2> QED
    BY <1>2, <2>2, <2>3
<1>6. p # Closed => \E i \in DOMAIN C : /\ C[i].type = "text"
                                        /\ \A j \in DOMAIN C : C[j].type = "text" => i <= j
  <2>1. CASE C[c].type = "tool_use" /\ p = m
    BY <1>2, <1>3, <2>1 DEF InOrder
  <2>2. CASE C[c].type = "text" /\ m = Closed /\ p = n
    <3>1. \A j \in DOMAIN C : C[j].type = "text" => c <= j
      BY <1>2, <1>3, <1>b, <2>2
    <3> QED
      BY <1>1, <2>2, <3>1
  <2> QED
    BY <2>1, <2>2
<1>7. \A b \in O \union {n} : \E i \in DOMAIN C : C[i].type # "thinking" /\ C[i].block = b
  <2>1. \A b \in O : \E i \in DOMAIN C : C[i].type # "thinking" /\ C[i].block = b
    BY <1>3 DEF InOrder
  <2>2. C[c].type # "thinking" /\ C[c].block = n
    OBVIOUS
  <2> QED
    BY <1>1, <2>1, <2>2
<1>8. \A i \in DOMAIN C : C[i].type \in {"text", "tool_use", "thinking"}
  BY <1>2, <1>3 DEF InOrder
<1>9. \A i \in DOMAIN C : C[i].type = "text" => C[i].block = p
  BY <1>2, <1>3, <1>b DEF InOrder
<1>10. \A i \in DOMAIN C : C[i].type # "thinking" => C[i].block \in O \union {n}
  BY <1>2, <1>3 DEF InOrder
<1> QED
  BY <1>1, <1>5, <1>6, <1>7, <1>8, <1>9, <1>10 DEF InOrder

(* What response.completed lists.                                          *)
LEMMA UpperBound ==
  ASSUME NEW c \in Nat
  PROVE  /\ 1 + Messages!Max({0} \union 0..(c - 1)) \in Nat
         /\ \A i \in 0..(c - 1) : i \in 0..((1 + Messages!Max({0} \union 0..(c - 1))) - 1)
<1> DEFINE S == {0} \union 0..(c - 1)
<1>1. \E x \in S : \A y \in S : x >= y
  <2>1. CASE c = 0
    BY <2>1
  <2>2. CASE c # 0
    <3>1. c - 1 \in S /\ \A y \in S : c - 1 >= y
      BY <2>2
    <3> QED
      BY <3>1
  <2> QED
    BY <2>1, <2>2
<1> DEFINE x == Messages!Max(S)
<1>2. x \in S /\ \A y \in S : x >= y
  BY <1>1 DEF Messages!Max
<1> HIDE DEF x
<1>3. x \in Nat /\ \A i \in 0..(c - 1) : i \in 0..((1 + x) - 1)
  BY <1>2
<1> QED
  BY <1>3 DEF x

(* The output of response.completed: the items announced, each once, in    *)
(* the order of their indexes.                                             *)
LEMMA OutputLists ==
  ASSUME NEW s, NEW m, NEW O, O \subseteq Nat, NEW c \in Nat, InOrder(s.blocks, m, O, c)
  PROVE  Range(Messages!OutputItems(s)) = O /\ Rises(Messages!OutputItems(s))
<1> DEFINE B == s.blocks
           P == {i \in DOMAIN B : \/ B[i].type = "tool_use"
                                  \/ /\ B[i].type = "text"
                                     /\ \A j \in DOMAIN B : B[j].type = "text" => i <= j}
           n == 1 + Messages!Max({0} \union DOMAIN B)
           q == Messages!Listed(P, n)
           out == [k \in DOMAIN q |-> B[q[k]].block]
<1>1. Messages!OutputItems(s) = out
  BY DEF Messages!OutputItems
<1>2. DOMAIN B = 0..(c - 1)
  BY DEF InOrder
<1>3. \A i \in DOMAIN B : i \in P <=> Placed(B, i)
  BY DEF Placed
<1>4. P \subseteq DOMAIN B
  OBVIOUS
<1>5. n \in Nat /\ P \cap 0..(n - 1) = P
  <2>1. n = 1 + Messages!Max({0} \union 0..(c - 1))
    BY <1>2
  <2> HIDE DEF n, P
  <2>2. n \in Nat /\ \A i \in 0..(c - 1) : i \in 0..(n - 1)
    BY <2>1, UpperBound
  <2> QED
    BY <1>2, <1>4, <2>2
<1> HIDE DEF n, P
<1>6. q \in Seq(Nat) /\ Range(q) = P /\ Rises(q)
  BY <1>5, MessagesListedIs DEF Lists
<1>7. DOMAIN out = DOMAIN q /\ \A k \in DOMAIN q : out[k] = B[q[k]].block
  OBVIOUS
<1> HIDE DEF q, out, B
<1>8. \A k \in DOMAIN q : q[k] \in P
  BY <1>6 DEF Range
<1>9. Rises(out)
  <2> SUFFICES ASSUME NEW i \in DOMAIN out, NEW j \in DOMAIN out, i < j PROVE out[i] < out[j]
    BY DEF Rises
  <2>1. q[i] < q[j] /\ q[i] \in P /\ q[j] \in P
    BY <1>6, <1>7, <1>8 DEF Rises
  <2>2. InOrder(B, m, O, c)
    BY DEF B
  <2> QED
    BY <1>3, <1>4, <1>7, <2>1, <2>2 DEF InOrder
<1>10. Range(out) = O
  <2>1. InOrder(B, m, O, c)
    BY DEF B
  <2>2. ASSUME NEW b \in Range(out) PROVE b \in O
    <3>1. PICK k \in DOMAIN q : b = B[q[k]].block
      BY <1>7 DEF Range
    <3>2. q[k] \in DOMAIN B /\ Placed(B, q[k])
      BY <1>3, <1>4, <1>8
    <3>3. B[q[k]].type # "thinking"
      BY <3>2 DEF Placed
    <3> QED
      BY <2>1, <3>1, <3>2, <3>3 DEF InOrder
  <2>3. ASSUME NEW b \in O PROVE b \in Range(out)
    <3>1. PICK i \in DOMAIN B : B[i].type # "thinking" /\ B[i].block = b
      BY <2>1 DEF InOrder
    <3>2. PICK p \in DOMAIN B : Placed(B, p) /\ B[p].block = b
      <4>1. CASE B[i].type = "tool_use"
        BY <3>1, <4>1 DEF Placed
      <4>2. CASE B[i].type = "text"
        <5>1. B[i].block = m
          BY <2>1, <4>2 DEF InOrder
        <5>2. CASE m = Closed
          <6>1. b = -1 /\ b \in Nat
            BY <3>1, <5>1, <5>2 DEF Closed
          <6> QED
            BY <6>1
        <5>3. CASE m # Closed
          <6>1. PICK f \in DOMAIN B : /\ B[f].type = "text"
                                      /\ \A j \in DOMAIN B : B[j].type = "text" => f <= j
            BY <2>1, <5>3 DEF InOrder
          <6>2. Placed(B, f)
            BY <6>1 DEF Placed
          <6>3. B[f].block = m
            BY <2>1, <6>1 DEF InOrder
          <6> QED
            BY <3>1, <5>1, <6>2, <6>3
        <5> QED
          BY <5>2, <5>3
      <4> QED
        BY <2>1, <3>1, <4>1, <4>2 DEF InOrder
    <3>3. p \in Range(q)
      BY <1>3, <1>6, <3>2
    <3>4. PICK k \in DOMAIN q : q[k] = p
      BY <3>3 DEF Range
    <3>5. out[k] = b /\ k \in DOMAIN out
      BY <1>7, <3>2, <3>4
    <3> QED
      BY <3>5 DEF Range
  <2> QED
    BY <2>2, <2>3
<1> QED
  BY <1>1, <1>9, <1>10

(* One block more is heard with a content_block_start.                     *)
LEMMA HeardLength ==
  ASSUME NEW u, UpTyped(u), NEW l, Messages!IsLine(l), NEW v, v = Messages!Heard(u, l)
  PROVE  /\ Len(u.blocks) \in Nat
         /\ Len(v.blocks) = IF l.kind = "block_start" THEN Len(u.blocks) + 1 ELSE Len(u.blocks)
<1>1. DOMAIN u = {"start", "blocks", "finish", "stop"} /\ IsASequence(u.blocks)
  BY DEF UpTyped
<1>2. PICK S : u.blocks \in Seq(S)
  BY <1>1 DEF IsASequence
<1>3. Len(u.blocks) \in Nat
  BY <1>2
<1>4. CASE l.kind = "block_start"
  <2> DEFINE x == [type |-> l.type, args |-> "none", told |-> FALSE, parts |-> 0]
             q == Append(u.blocks, x)
             T == S \union {x}
  <2>1. v = [u EXCEPT !.blocks = q]
    BY <1>4 DEF Messages!Heard
  <2> HIDE DEF x
  <2>2. u.blocks \in Seq(T) /\ x \in T
    BY <1>2
  <2> HIDE DEF T
  <2>3. Len(q) = Len(u.blocks) + 1
    BY <2>2
  <2> HIDE DEF q
  <2>4. v.blocks = q
    BY <1>1, <2>1
  <2> QED
    BY <1>3, <1>4, <2>3, <2>4
<1>5. CASE l.kind = "block_delta"
  <2> DEFINE k == l.index + 1
             z == u.blocks[k]
             y == [z EXCEPT !.args = Messages!Joined(@, l.args), !.told = TRUE,
                            !.parts = @ + Messages!Parts(l)]
             q == [u.blocks EXCEPT ![k] = y]
             N == Len(u.blocks)
             T == S \union {y}
  <2>1. v.blocks = q
    BY <1>1, <1>5 DEF Messages!Heard
  <2> HIDE DEF y, z, k
  <2>2. u.blocks \in [1..N -> S] /\ N \in Nat
    BY <1>2
  <2>3. q \in [1..N -> T]
    BY <2>2
  <2>4. q \in Seq(T) /\ DOMAIN q = 1..N
    BY <2>2, <2>3
  <2> HIDE DEF q, T
  <2>5. Len(q) = N
    <3> HIDE DEF N
    <3>1. Len(q) \in Nat /\ DOMAIN q = 1..Len(q)
      BY <2>4
    <3> QED
      BY <2>2, <2>4, <3>1
  <2> QED
    BY <1>3, <1>5, <2>1, <2>5
<1>6. CASE l.kind \notin {"block_start", "block_delta"}
  <2>1. v.blocks = u.blocks
    BY <1>6, HeardSoFar
  <2> QED
    BY <1>3, <1>6, <2>1
<1> QED
  BY <1>3, <1>4, <1>5, <1>6

(* What is kept of s by t, and what items are in order.                    *)
Beside(t, s) ==
  /\ {"emitted", "flushed", "blocks", "message", "next", "said"} \subseteq DOMAIN t
  /\ t.emitted = s.emitted /\ t.flushed = s.flushed

Items(s, c) == InOrder(s.blocks, s.message, Opened(s.said), c)

(* openai-response: the items stay in order.                               *)
LEMMA MessagesStartsInOrder ==
  ASSUME NEW s, MessagesInv(s), s.sourceFormat = "openai-response",
         NEW c \in Nat, Items(s, c),
         NEW l, Messages!IsLine(l), l.kind = "block_start", l.index = c,
         NEW t, t = Messages!ResponsesBlockStart(s, l)
  PROVE  Items(t, c + 1) /\ Beside(t, s)
<1>1. /\ DOMAIN s = MessagesFields /\ IsASequence(s.said) /\ s.next \in Nat
      /\ s.message \in Messages!Closed..(s.next - 1) /\ Opened(s.said) \subseteq 0..(s.next - 1)
      /\ s.message # Messages!Closed => s.message \in Opened(s.said)
  BY LawfulFacts DEF MessagesInv, MessagesHalf, MessagesTyped, Common, MessageItems,
                     Closed, Messages!Closed
<1>2. l.type \in {"text", "tool_use", "thinking"}
  BY DEF Messages!IsLine, Messages!BlockKinds
<1> DEFINE old == l.type = "text" /\ s.message # Messages!Closed
           item == IF old THEN s.message ELSE s.next
           x == Messages!Start(item, IF l.type = "text" THEN "text" ELSE "tool")
           r == [s EXCEPT !.next = @ + 1, !.message = IF l.type = "text" THEN item ELSE @]
           y == IF ~(l.type # "thinking" /\ item = s.next) THEN s ELSE Messages!Say(r, <<x>>)
           b == Messages!NewBlock(l.type, IF l.type = "thinking" THEN Messages!Closed ELSE item)
           C == [j \in DOMAIN s.blocks \union {l.index} |-> IF j = l.index THEN b ELSE s.blocks[j]]
<1>3. t = Messages!WithBlock(y, l.index, b)
  BY DEF Messages!ResponsesBlockStart
<1>4. y.blocks = s.blocks /\ DOMAIN y = MessagesFields /\ y.emitted = s.emitted /\ y.flushed = s.flushed
  BY <1>1 DEF Messages!Say, MessagesFields, BaseFields
<1>5. /\ r.said = s.said /\ r.message = (IF l.type = "text" THEN item ELSE s.message)
      /\ DOMAIN r = MessagesFields
  BY <1>1 DEF MessagesFields, BaseFields
<1>6. x.ev = "start" /\ x.block = item
  BY DEF Messages!Start
<1>7. b.type = l.type /\ b.block = (IF l.type = "thinking" THEN Messages!Closed ELSE item)
  BY DEF Messages!NewBlock
<1>8. old => item = s.message /\ item # s.next /\ item \in Opened(s.said)
  BY <1>1 DEF Messages!Closed
<1>9. ~old => item = s.next
  OBVIOUS
<1>10. DOMAIN s.blocks = 0..(c - 1)
  BY DEF Items, InOrder
<1>11. NextOf(C, s.blocks, c) /\ C[c] = b
  <2> HIDE DEF b
  <2>1. DOMAIN C = 0..c
    BY <1>10
  <2>2. \A i \in 0..(c - 1) : C[i] = s.blocks[i]
    BY <1>10
  <2>3. C[c] = b
    BY <1>10
  <2> QED
    BY <2>1, <2>2, <2>3 DEF NextOf
<1> DEFINE new == l.type # "thinking" /\ item = s.next
<1>12. y = IF new THEN Messages!Say(r, <<x>>) ELSE s
  OBVIOUS
<1>13. new <=> l.type # "thinking" /\ ~old
  BY <1>8, <1>9
<1> HIDE DEF y
<1>14. t = [y EXCEPT !.blocks = C]
  BY <1>3, <1>4 DEF Messages!WithBlock
<1> HIDE DEF C
<1>15. /\ t.blocks = C /\ t.message = y.message /\ t.said = y.said /\ DOMAIN t = MessagesFields
       /\ t.emitted = s.emitted /\ t.flushed = s.flushed
  BY <1>4, <1>14 DEF MessagesFields, BaseFields
<1>16. Beside(t, s)
  BY <1>15 DEF Beside, MessagesFields, BaseFields
<1> HIDE DEF x, r, b
<1>17. CASE ~new
  <2>1. t.message = s.message /\ t.said = s.said
    BY <1>12, <1>15, <1>17
  <2>2. CASE l.type = "thinking"
    <3>1. InOrder(C, s.message, Opened(s.said), c + 1)
      BY <1>7, <1>11, <2>2, InOrderThinking DEF Items
    <3> QED
      BY <1>15, <1>16, <2>1, <3>1 DEF Items
  <2>3. CASE old
    <3>1. s.message # Closed /\ s.message \in Opened(s.said) /\ b.block = s.message /\ l.type = "text"
      BY <1>7, <1>8, <2>3 DEF Closed, Messages!Closed
    <3>2. InOrder(C, s.message, Opened(s.said), c + 1)
      BY <1>7, <1>11, <3>1, InOrderText DEF Items
    <3> QED
      BY <1>15, <1>16, <2>1, <3>2 DEF Items
  <2> QED
    BY <1>13, <1>17, <2>2, <2>3
<1>18. CASE new
  <2>1. y.message = r.message /\ y.said = s.said \o <<x>>
    BY <1>5, <1>12, <1>18 DEF Messages!Say, MessagesFields, BaseFields
  <2>2. Opened(s.said \o <<x>>) = Opened(s.said) \union {s.next}
    BY <1>1, <1>6, <1>18, Summary
  <2>3. b.block = s.next /\ item = s.next /\ l.type # "thinking" /\ ~old
    BY <1>7, <1>13, <1>18
  <2>4. \/ l.type = "tool_use" /\ r.message = s.message
        \/ l.type = "text" /\ s.message = Closed /\ r.message = s.next
    BY <1>2, <1>5, <2>3 DEF Closed, Messages!Closed
  <2> HIDE DEF item, old, new
  <2> DEFINE m == r.message
             O == Opened(s.said)
  <2>5. InOrder(C, m, O \union {s.next}, c + 1)
    <3>1. O \subseteq 0..(s.next - 1) /\ InOrder(s.blocks, s.message, O, c) /\ s.next \in Nat
      BY <1>1 DEF Items
    <3>2. \/ C[c].type = "tool_use" /\ m = s.message
          \/ C[c].type = "text" /\ s.message = Closed /\ m = s.next
      BY <1>7, <1>11, <2>4
    <3>3. C[c].block = s.next /\ NextOf(C, s.blocks, c)
      BY <1>11, <2>3
    <3> HIDE DEF m, O
    <3> QED
      BY <3>1, <3>2, <3>3, InOrderNew
  <2>6. t.message = m /\ Opened(t.said) = O \union {s.next}
    BY <1>15, <2>1, <2>2
  <2> QED
    BY <1>15, <1>16, <2>5, <2>6 DEF Items
<1> QED
  BY <1>17, <1>18

(* No other frame changes the items.                                       *)
LEMMA MessagesKeepsOrder ==
  ASSUME NEW s, MessagesInv(s), s.sourceFormat = "openai-response",
         NEW c \in Nat, Items(s, c),
         NEW l, Messages!IsLine(l), l.kind \notin {"block_start", "message_stop"},
         NEW t, t = Messages!DispatchResponses(s, l)
  PROVE  /\ Items(t, c) /\ Beside(t, s)
         /\ l.kind = "message_start" => t.said # s.said
<1>1. DOMAIN s = MessagesFields /\ IsASequence(s.said)
  BY LawfulFacts DEF MessagesInv, MessagesHalf, MessagesTyped, Common
<1>2. Beside(s, s)
  BY <1>1 DEF Beside, MessagesFields, BaseFields
<1>3. ASSUME NEW r, DOMAIN r = MessagesFields, r.said = s.said, r.message = s.message,
             Items(r, c), r.emitted = s.emitted, r.flushed = s.flushed,
             NEW x, x.ev # "start"
      PROVE  Items(Messages!Say(r, <<x>>), c) /\ Beside(Messages!Say(r, <<x>>), s)
  <2> DEFINE w == s.said \o <<x>>
             y == Messages!Say(r, <<x>>)
  <2>1. Opened(w) = Opened(s.said)
    BY <1>1, <1>3, Summary
  <2>2. /\ DOMAIN y = MessagesFields /\ y.said = w /\ y.blocks = r.blocks
        /\ y.message = r.message /\ y.emitted = r.emitted /\ y.flushed = r.flushed
    BY <1>3 DEF Messages!Say, MessagesFields, BaseFields
  <2> HIDE DEF y, w
  <2>3. Items(y, c)
    BY <1>3, <2>1, <2>2 DEF Items
  <2>4. Beside(y, s)
    BY <1>3, <2>2 DEF Beside, MessagesFields, BaseFields
  <2> QED
    BY <2>3, <2>4 DEF y
<1>4. CASE l.kind = "message_start"
  <2> DEFINE x == Messages!Named("created")
  <2>1. t = Messages!Say(s, <<x>>)
    BY <1>4 DEF Messages!DispatchResponses
  <2>2. x.ev = "created"
    BY DEF Messages!Named
  <2> HIDE DEF x
  <2>3. Items(t, c) /\ Beside(t, s)
    BY <1>1, <1>3, <2>1, <2>2
  <2>4. t.said = s.said \o <<x>>
    BY <1>1, <2>1 DEF Messages!Say, MessagesFields, BaseFields
  <2>5. Len(s.said \o <<x>>) = Len(s.said) + 1 /\ Len(s.said) \in Nat
    BY <1>1, Appended
  <2>6. t.said # s.said
    BY <2>4, <2>5
  <2> QED
    BY <2>3, <2>6
<1>5. CASE l.kind = "block_delta"
  <2> DEFINE b == s.blocks[l.index]
             a == Messages!Joined(b.args, l.args)
             B == [s.blocks EXCEPT ![l.index] = [b EXCEPT !.args = a]]
             r == [s EXCEPT !.blocks = B]
             x == Messages!Delta(IF s.message # Messages!Closed THEN s.message ELSE l.index, 1)
             y == Messages!Delta(b.block, Messages!Parts(l))
  <2>1. t = Messages!ResponsesDelta(s, l) /\ l.type \in {"text", "tool_use", "thinking"}
    BY <1>5 DEF Messages!DispatchResponses, Messages!IsLine, Messages!BlockKinds
  <2>2. /\ l.type = "thinking" => t = s
        /\ l.type = "text" => t = Messages!Say(s, <<x>>)
        /\ l.type = "tool_use" => t = IF ~Messages!IsTool(s, l.index) THEN Messages!Fail(s)
                                      ELSE Messages!Say(r, <<y>>)
    BY <2>1 DEF Messages!ResponsesDelta
  <2>3. x.ev = "delta" /\ y.ev = "delta"
    BY DEF Messages!Delta
  <2>4. DOMAIN B = DOMAIN s.blocks /\ \A i \in DOMAIN B : B[i].type = s.blocks[i].type /\ B[i].block = s.blocks[i].block
    <3> HIDE DEF a
    <3>1. \A i \in DOMAIN s.blocks : s.blocks[i] \in Messages!Block
      BY DEF MessagesInv, MessagesHalf, MessagesTyped
    <3> QED
      BY <3>1 DEF Messages!Block
  <2> HIDE DEF x, y, a, B
  <2>5. /\ DOMAIN r = MessagesFields /\ r.said = s.said /\ r.message = s.message /\ r.blocks = B
        /\ r.emitted = s.emitted /\ r.flushed = s.flushed
    BY <1>1 DEF MessagesFields, BaseFields
  <2> HIDE DEF r
  <2>6. Items(r, c)
    BY <2>4, <2>5, InOrderSame DEF Items
  <2>7. Items(Messages!Say(r, <<y>>), c) /\ Beside(Messages!Say(r, <<y>>), s)
    BY <1>3, <2>3, <2>5, <2>6
  <2>8. Items(Messages!Say(s, <<x>>), c) /\ Beside(Messages!Say(s, <<x>>), s)
    BY <1>1, <1>3, <2>3
  <2>9. Items(Messages!Fail(s), c) /\ Beside(Messages!Fail(s), s)
    BY <1>1 DEF Messages!Fail, Items, Beside, MessagesFields, BaseFields
  <2>10. Items(t, c) /\ Beside(t, s)
    BY <1>2, <2>1, <2>2, <2>7, <2>8, <2>9
  <2> QED
    BY <1>5, <2>10
<1>6. CASE l.kind = "finish"
  <2>1. t = [s EXCEPT !.stop = l.stop]
    BY <1>6 DEF Messages!DispatchResponses
  <2> QED
    BY <1>1, <1>6, <2>1 DEF Items, Beside, MessagesFields, BaseFields
<1>7. CASE l.kind = "error"
  <2>1. t = Messages!Fail(s)
    BY <1>7 DEF Messages!DispatchResponses
  <2> QED
    BY <1>1, <1>7, <2>1 DEF Messages!Fail, Items, Beside, MessagesFields, BaseFields
<1>8. CASE l.kind = "ping"
  <2>1. t = s
    BY <1>8 DEF Messages!DispatchResponses
  <2> QED
    BY <1>2, <1>8, <2>1
<1> QED
  BY <1>4, <1>5, <1>6, <1>7, <1>8 DEF Messages!IsLine

(* openai-response: an open stream, and response.completed.                *)
ItemsOpen(s, u) ==
  /\ Awaits(s, u)
  /\ Never(s.said, EndEvents)
  /\ ~s.flushed
  /\ u.start => s.emitted
  /\ Items(s, Len(u.blocks))

(* response.completed after a Messages stream.                             *)
LEMMA CompletesInOrder ==
  ASSUME NEW s, MessagesInv(s), s.sourceFormat = "openai-response", Never(s.said, EndEvents),
         NEW c \in Nat, Items(s, c), NEW t, t = Messages!ResponsesCompleted(s)
  PROVE  EndLast(t.said, "openai-response") /\ t.sourceFormat = "openai-response"
         /\ WholeEnd(t, "messages") /\ t.done = s.done
<1> DEFINE x == Messages!Completed(Messages!StatusOf(Messages!FinishOf(s.stop)), Messages!OutputItems(s))
           w == s.said
           v == w \o <<x>>
<1>1. /\ DOMAIN s = MessagesFields /\ IsASequence(w) /\ s.next \in Nat
      /\ Opened(w) \subseteq 0..(s.next - 1)
  BY LawfulFacts DEF MessagesInv, MessagesHalf, MessagesTyped, Common
<1>2. t = Messages!Say(s, <<x>>)
  BY DEF Messages!ResponsesCompleted
<1>3. x.ev = "completed" /\ x.output = Messages!OutputItems(s)
  BY DEF Messages!Completed
<1>4. Opened(w) \subseteq Nat
  BY <1>1
<1>5. Range(Messages!OutputItems(s)) = Opened(w) /\ Rises(Messages!OutputItems(s))
  BY <1>4, OutputLists DEF Items
<1> HIDE DEF x
<1>6. /\ t.said = v /\ t.sourceFormat = s.sourceFormat /\ t.done = s.done
  BY <1>1, <1>2 DEF Messages!Say, MessagesFields, BaseFields
<1>7. EndLast(v, "openai-response")
  <2>1. EndLast(w, "openai-response")
    BY NoEndYet
  <2>2. Never(w, {"message_stop", "completed"})
    BY NeverLess DEF EndEvents
  <2>3. x.ev = EndEvent("openai-response")
    BY <1>3 DEF EndEvent
  <2> QED
    BY <1>1, <2>1, <2>2, <2>3, EndsWithEnd
<1>8. Ever(v, "completed")
  BY <1>1, <1>3, EverAppended
<1>9. Opened(v) = Opened(w)
  BY <1>1, <1>3, Summary
<1>10. v[Len(v)] = x
  BY <1>1, Appended
<1> HIDE DEF v
<1>11. WholeEnd(t, "messages")
  BY <1>3, <1>5, <1>6, <1>8, <1>9, <1>10 DEF WholeEnd
<1> QED
  BY <1>6, <1>7, <1>11

(* A frame for an openai-response client: with message_stop, and not       *)
(* before, it has been told response.completed with all its items.         *)
LEMMA MessagesWholeResponses ==
  ASSUME NEW s, MessagesInv(s), s.sourceFormat = "openai-response", ~s.done,
         NEW u, UpTyped(u), ItemsOpen(s, u),
         NEW l, Messages!IsLine(l), Messages!MayFollow(u, l),
         l.kind = "block_delta" /\ l.type = "text" => s.message # Closed,
         NEW t, t = Messages!HandleLine(s, l), ~t.failed, NEW v, v = Messages!Heard(u, l)
  PROVE  /\ t.sourceFormat = "openai-response" /\ EndLast(t.said, "openai-response")
         /\ ~t.done => ItemsOpen(t, v)
         /\ t.done => WholeEnd(t, "messages")
<1> DEFINE d == Messages!Dispatch(s, l)
           c == Len(u.blocks)
<1>1. d = Messages!DispatchResponses(s, l)
  BY DEF Messages!Dispatch
<1>2. MessagesInv(d) /\ d = Messages!Dispatch(s, l)
  BY MessagesDispatches
<1>3. DOMAIN s = MessagesFields /\ IsASequence(s.said)
  BY LawfulFacts DEF MessagesInv, MessagesHalf, MessagesTyped, Common
<1>4. Goes(s, s, QuietEvents)
  BY <1>3, GoesNowhere DEF MessagesFields
<1>5. /\ Awaits(s, u) /\ Never(s.said, EndEvents) /\ ~s.flushed /\ (u.start => s.emitted)
      /\ Items(s, c)
  BY DEF ItemsOpen
<1>6. c \in Nat /\ Len(v.blocks) = IF l.kind = "block_start" THEN c + 1 ELSE c
  BY HeardLength
<1> HIDE DEF d, c
<1>7. /\ ~d.failed /\ t.said = d.said /\ t.sourceFormat = d.sourceFormat /\ t.done = d.done
      /\ t.blocks = d.blocks /\ t.message = d.message /\ t.flushed = d.flushed
      /\ t.emitted = (d.emitted \/ d.said # s.said)
  BY <1>2, MessagesHandled
<1>8. CASE l.kind # "message_stop"
  <2>1. Goes(d, s, QuietEvents)
    BY <1>1, <1>4, <1>8, MessagesResponsesOn
  <2>2. /\ Extends(d.said, s.said, QuietEvents) /\ d.finished = s.finished
        /\ d.terminalSeen = s.terminalSeen /\ d.done = s.done /\ d.sourceFormat = s.sourceFormat
    BY <2>1 DEF Goes
  <2>3. QuietEvents \cap EndEvents = {}
    BY DEF QuietEvents, ContentEvents, EndEvents
  <2>4. Never(d.said, EndEvents)
    BY <1>5, <2>2, <2>3, ExtendsNever
  <2>5. Awaits(t, v)
    BY <1>2, <1>5, <1>8, <2>2, MessagesAwaits
  <2>6. /\ Items(d, Len(v.blocks)) /\ Beside(d, s)
        /\ l.kind = "message_start" => d.said # s.said
    <3>1. CASE l.kind = "block_start"
      <4>1. l.index = c
        BY <3>1 DEF Messages!MayFollow, c
      <4>2. d = Messages!ResponsesBlockStart(s, l)
        BY <1>1, <3>1 DEF Messages!DispatchResponses
      <4>3. Items(d, c + 1) /\ Beside(d, s)
        BY <1>5, <1>6, <3>1, <4>1, <4>2, MessagesStartsInOrder
      <4> QED
        BY <1>6, <3>1, <4>3
    <3>2. CASE l.kind # "block_start"
      <4>1. Items(d, c) /\ Beside(d, s) /\ (l.kind = "message_start" => d.said # s.said)
        BY <1>1, <1>5, <1>6, <1>8, <3>2, MessagesKeepsOrder
      <4> QED
        BY <1>6, <3>2, <4>1
    <3> QED
      BY <3>1, <3>2
  <2>7. Items(t, Len(v.blocks))
    BY <1>7, <2>6 DEF Items
  <2>8. v.start => t.emitted
    <3>1. IF l.kind = "message_start" THEN v.start = TRUE ELSE v.start = u.start
      BY HeardSoFar
    <3>2. d.emitted = s.emitted
      BY <2>6 DEF Beside
    <3> QED
      BY <1>5, <1>7, <2>6, <3>1, <3>2
  <2>9. ~t.flushed
    BY <1>5, <1>7, <2>6 DEF Beside
  <2>10. ItemsOpen(t, v)
    BY <1>7, <2>4, <2>5, <2>7, <2>8, <2>9 DEF ItemsOpen
  <2> QED
    BY <1>7, <2>2, <2>4, <2>10, NoEndYet
<1>9. CASE l.kind = "message_stop"
  <2> DEFINE r == [s EXCEPT !.done = TRUE]
  <2>1. d = Messages!ResponsesCompleted(r)
    BY <1>1, <1>9 DEF Messages!DispatchResponses
  <2>2. /\ r.said = s.said /\ r.sourceFormat = s.sourceFormat /\ r.blocks = s.blocks
        /\ r.message = s.message /\ r.done
    BY <1>3 DEF MessagesFields, BaseFields
  <2>3. MessagesLike(r, s)
    BY <1>3 DEF MessagesInv, MessagesHalf, Common, MessagesTyped, MessagesFields, BaseFields,
                MessagesLike
  <2> HIDE DEF r
  <2>4. MessagesInv(r)
    BY <2>3, MessagesKeepsLike
  <2>5. Items(r, c)
    BY <1>5, <2>2 DEF Items
  <2>6. /\ EndLast(d.said, "openai-response") /\ d.sourceFormat = "openai-response"
        /\ WholeEnd(d, "messages") /\ d.done = r.done
    BY <1>5, <1>6, <2>1, <2>2, <2>4, <2>5, CompletesInOrder
  <2>7. WholeEnd(t, "messages")
    BY <1>7, <2>6 DEF WholeEnd
  <2> QED
    BY <1>7, <2>2, <2>6, <2>7
<1> QED
  BY <1>8, <1>9

(* The same at the end of the upstream stream.                             *)
LEMMA MessagesFlushesWhole ==
  ASSUME NEW s, MessagesInv(s), s.sourceFormat = "openai-response",
         NEW u, UpTyped(u), ItemsOpen(s, u),
         NEW t, t = Messages!FinalizeStream(s), ~t.failed
  PROVE  /\ t.sourceFormat = "openai-response" /\ EndLast(t.said, "openai-response")
         /\ WholeEnd(t, "messages")
<1> DEFINE r == [s EXCEPT !.flushed = TRUE]
           d == Messages!ResponsesCompleted(r)
           c == Len(u.blocks)
<1>1. DOMAIN s = MessagesFields
  BY DEF MessagesInv, MessagesHalf, MessagesTyped
<1>2. /\ Awaits(s, u) /\ Never(s.said, EndEvents) /\ ~s.flushed /\ (u.start => s.emitted)
      /\ Items(s, c)
  BY DEF ItemsOpen
<1>3. Messages!Fail(s).failed
  BY <1>1 DEF Messages!Fail, MessagesFields, BaseFields
<1>4. t = IF s.terminalSeen THEN s
          ELSE IF ~s.finished \/ ~Messages!ToolsWellFormed(s) THEN Messages!Fail(s)
          ELSE Messages!Terminal(Messages!Flush(s))
  BY DEF Messages!FinalizeStream
<1>5. s.finished /\ t = Messages!Terminal(Messages!Flush(s))
  BY <1>2, <1>3, <1>4 DEF Awaits
<1>6. s.emitted
  BY <1>2, <1>5 DEF Awaits
<1>7. Messages!Flush(s) = d
  BY <1>2, <1>6 DEF Messages!Flush
<1>8. /\ r.said = s.said /\ r.sourceFormat = s.sourceFormat /\ r.blocks = s.blocks
      /\ r.message = s.message
  BY <1>1 DEF MessagesFields, BaseFields
<1>9. MessagesLike(r, s)
  BY <1>1 DEF MessagesInv, MessagesHalf, Common, MessagesTyped, MessagesFields, BaseFields,
              MessagesLike
<1>a. c \in Nat
  <2>1. Messages!IsLine([kind |-> "ping"])
    BY DEF Messages!IsLine
  <2> QED
    BY <2>1, HeardLength
<1> HIDE DEF r, c
<1>10. MessagesInv(r)
  BY <1>9, MessagesKeepsLike
<1>11. Items(r, c)
  BY <1>2, <1>8 DEF Items
<1>12. /\ EndLast(d.said, "openai-response") /\ d.sourceFormat = "openai-response"
       /\ WholeEnd(d, "messages")
  BY <1>2, <1>8, <1>a, <1>10, <1>11, CompletesInOrder
<1>13. MessagesInv(d)
  BY <1>10, MessagesCompletes
<1> HIDE DEF d
<1>14. DOMAIN d = MessagesFields
  BY <1>13 DEF MessagesInv, MessagesHalf, MessagesTyped
<1>15. t.said = d.said /\ t.sourceFormat = d.sourceFormat
  BY <1>5, <1>7, <1>14 DEF Messages!Terminal, Messages!Advance, MessagesFields, BaseFields
<1>16. WholeEnd(t, "messages")
  BY <1>12, <1>15 DEF WholeEnd
<1> QED
  BY <1>12, <1>15, <1>16
-----------------------------------------------------------------------------
(* t is s with more of the content said: how far the stream is from its    *)
(* end is the same.                                                        *)
Flows(t, s) ==
  /\ DOMAIN t = ChatFields
  /\ t.sourceFormat = s.sourceFormat /\ t.started = s.started /\ t.finished = s.finished
  /\ t.terminalSeen = s.terminalSeen /\ t.done = s.done
  /\ t.held = s.held /\ t.terminalSent = s.terminalSent
  /\ t.order \in Seq(Nat)
  /\ Extends(t.said, s.said, ContentEvents)

(* To do nothing.                                                          *)
LEMMA FlowsNowhere ==
  ASSUME NEW s, ChatInv(s)
  PROVE  Flows(s, s)
<1>1. DOMAIN s = ChatFields /\ s.order \in Seq(Nat) /\ IsASequence(s.said)
  BY LawfulFacts DEF ChatInv, ChatHalf, ChatTyped, ChatTools, Common
<1> QED
  BY <1>1, ExtendsNot DEF Flows

(* To do one thing after another.                                          *)
LEMMA FlowsTwice ==
  ASSUME NEW s, NEW t, Flows(t, s), NEW u, Flows(u, t)
  PROVE  Flows(u, s)
BY ExtendsTwice DEF Flows

(* To tell content,                                                        *)
LEMMA FlowsSaying ==
  ASSUME NEW r, NEW s, Flows(r, s), NEW e, Speaks(e, ContentEvents)
  PROVE  Flows(Chat!Say(r, e), s)
<1> DEFINE w == r.said \o e
           t == Chat!Say(r, e)
<1>1. Extends(r.said, s.said, ContentEvents) /\ IsASequence(r.said)
  BY DEF Flows, Extends
<1>2. Extends(w, r.said, ContentEvents)
  BY <1>1, ExtendsBy DEF Speaks
<1>3. Extends(w, s.said, ContentEvents)
  BY <1>1, <1>2, ExtendsTwice
<1>4. DOMAIN r = ChatFields
  BY DEF Flows
<1>5. ChatSame(t, r) /\ t.said = w
  BY <1>4, ChatSaysAny
<1> HIDE DEF w, t
<1>6. Flows(t, s)
  BY <1>3, <1>5 DEF Flows, ChatSame
<1> QED
  BY <1>6 DEF t

(* ... one event of it.                                                    *)
LEMMA FlowsTelling ==
  ASSUME NEW r, NEW s, Flows(r, s), NEW x, x.ev \in ContentEvents
  PROVE  Flows(Chat!Say(r, <<x>>), s)
BY SpeaksOne, FlowsSaying

(* Starts, deltas and stops are content.                                   *)
LEMMA ContentIs ==
  ASSUME NEW b, NEW kind, NEW n
  PROVE  /\ Chat!Start(b, kind).ev \in ContentEvents
         /\ Chat!Delta(b, n).ev \in ContentEvents
         /\ Chat!Stop(b).ev \in ContentEvents
BY DEF Chat!Start, Chat!Delta, Chat!Stop, ContentEvents

(* Fields that only the blocks know of.                                    *)
LEMMA FlowsUntold ==
  ASSUME NEW r, NEW s, Flows(r, s), NEW x, NEW n
  PROVE  /\ Flows([r EXCEPT !.items = x], s) /\ Flows([r EXCEPT !.think = x], s)
         /\ Flows([r EXCEPT !.text = x], s) /\ Flows([r EXCEPT !.tools = x], s)
         /\ Flows([r EXCEPT !.next = n], s)
         /\ Flows([r EXCEPT !.think = x, !.next = n], s)
         /\ Flows([r EXCEPT !.text = x, !.next = n], s)
<1>1. Flows([r EXCEPT !.items = x], s)
  BY DEF Flows, ChatFields, BaseFields
<1>2. Flows([r EXCEPT !.think = x], s)
  BY DEF Flows, ChatFields, BaseFields
<1>3. Flows([r EXCEPT !.text = x], s)
  BY DEF Flows, ChatFields, BaseFields
<1>4. Flows([r EXCEPT !.tools = x], s)
  BY DEF Flows, ChatFields, BaseFields
<1>5. Flows([r EXCEPT !.next = n], s)
  BY DEF Flows, ChatFields, BaseFields
<1>6. Flows([r EXCEPT !.think = x, !.next = n], s)
  BY DEF Flows, ChatFields, BaseFields
<1>7. Flows([r EXCEPT !.text = x, !.next = n], s)
  BY DEF Flows, ChatFields, BaseFields
<1> QED
  BY <1>1, <1>2, <1>3, <1>4, <1>5, <1>6, <1>7

(* To close a block tells content only.                                    *)
LEMMA ClosesBlockOn ==
  ASSUME NEW r, NEW s, Flows(r, s), NEW b
  PROVE  Flows(Chat!CloseBlock(r, b), s)
<1> DEFINE d == IF r.sourceFormat = "openai-response" THEN r.items \union {b} ELSE r.items
           v == [r EXCEPT !.items = d]
           x == Chat!Stop(b)
<1>1. Chat!CloseBlock(r, b) = Chat!Say(v, <<x>>)
  BY DEF Chat!CloseBlock
<1>2. x.ev \in ContentEvents
  BY ContentIs
<1> HIDE DEF d, x
<1>3. Flows(v, s)
  BY FlowsUntold
<1> HIDE DEF v
<1> QED
  BY <1>1, <1>2, <1>3, FlowsTelling

(* So does to close the one for thinking, the one for text, or a tool's,   *)
LEMMA ClosesOn ==
  ASSUME NEW r, NEW s, Flows(r, s)
  PROVE  /\ Flows(Chat!CloseThinking(r), s) /\ Flows(Chat!CloseText(r), s)
         /\ \A i : Flows(Chat!CloseTool(r, i), s)
<1>1. Flows(Chat!CloseThinking(r), s)
  <2> DEFINE v == [r EXCEPT !.think = Chat!Closed]
  <2>1. Flows(v, s)
    BY FlowsUntold
  <2> HIDE DEF v
  <2>2. Flows(Chat!CloseBlock(v, r.think), s)
    BY <2>1, ClosesBlockOn
  <2> QED
    BY <2>2 DEF Chat!CloseThinking, v
<1>2. Flows(Chat!CloseText(r), s)
  <2> DEFINE v == [r EXCEPT !.text = Chat!Closed]
  <2>1. Flows(v, s)
    BY FlowsUntold
  <2> HIDE DEF v
  <2>2. Flows(Chat!CloseBlock(v, r.text), s)
    BY <2>1, ClosesBlockOn
  <2> QED
    BY <2>2 DEF Chat!CloseText, v
<1>3. ASSUME NEW i PROVE Flows(Chat!CloseTool(r, i), s)
  <2> DEFINE v == [r EXCEPT !.tools[i].stopped = TRUE]
             q == [r.tools EXCEPT ![i].stopped = TRUE]
  <2>1. v = [r EXCEPT !.tools = q]
    BY DEF Flows, ChatFields, BaseFields
  <2> HIDE DEF v, q
  <2>2. Flows(v, s)
    BY <2>1, FlowsUntold
  <2>3. Flows(Chat!CloseBlock(v, r.tools[i].block), s)
    BY <2>2, ClosesBlockOn
  <2> QED
    BY <2>3 DEF Chat!CloseTool, v
<1> QED
  BY <1>1, <1>2, <1>3

(* ... all tools',                                                         *)
LEMMA ClosesToolsOn ==
  ASSUME NEW r, NEW s, Flows(r, s)
  PROVE  Flows(Chat!CloseTools(r), s)
<1> DEFINE N == Len(r.order)
<1>1. r.order \in Seq(Nat) /\ N \in Nat
  BY DEF Flows
<1>2. PICK f : IsLoop(f, N, "CloseTools", r.order, r) /\ Chat!CloseTools(r) = f[N]
  BY <1>1, CloseToolsRuns
<1> DEFINE T == {n \in 0..N : Flows(f[n], s)}
<1> HIDE DEF N
<1>3. 0 \in T
  BY <1>1, <1>2 DEF IsLoop
<1>4. ASSUME NEW n \in 0..N, n \in T, n + 1 <= N
      PROVE  n + 1 \in T
  <2>1. n + 1 \in 1..N /\ (n + 1) - 1 = n /\ n + 1 \in 0..N
    BY <1>1, <1>4
  <2>2. f[n + 1] = Chat!CloseTool(f[n], r.order[n + 1])
    BY <1>2, <2>1 DEF IsLoop, Round
  <2>3. Flows(f[n + 1], s)
    BY <1>4, <2>2, ClosesOn
  <2> QED
    BY <2>1, <2>3
<1> HIDE DEF T
<1>5. 0..N \subseteq T
  BY <1>1, <1>3, <1>4, BoundedInduction
<1> QED
  BY <1>1, <1>2, <1>5 DEF T

(* ... and everything that is open.                                        *)
LEMMA StopsBlocksOn ==
  ASSUME NEW r, NEW s, Flows(r, s)
  PROVE  Flows(Chat!StopBlocks(r), s)
BY ClosesOn, ClosesToolsOn DEF Chat!StopBlocks

(* A stream whose blocks are all closed: stopBlocks says nothing.          *)
LEMMA NothingToStop ==
  ASSUME NEW s, s.think = Closed, s.text = Closed, s.order \in Seq(Nat),
         \A n \in DOMAIN s.order : s.tools[s.order[n]].stopped
  PROVE  Chat!StopBlocks(s) = s
<1> DEFINE N == Len(s.order)
<1>1. s.order \in Seq(Nat) /\ N \in Nat /\ DOMAIN s.order = 1..N
  OBVIOUS
<1>2. PICK f : IsLoop(f, N, "CloseTools", s.order, s) /\ Chat!CloseTools(s) = f[N]
  BY <1>1, CloseToolsRuns
<1> DEFINE T == {n \in 0..N : f[n] = s}
<1> HIDE DEF N
<1>3. 0 \in T
  BY <1>1, <1>2 DEF IsLoop
<1>4. ASSUME NEW n \in 0..N, n \in T, n + 1 <= N
      PROVE  n + 1 \in T
  <2>1. n + 1 \in 1..N /\ (n + 1) - 1 = n /\ n + 1 \in 0..N
    BY <1>1, <1>4
  <2>2. f[n + 1] = Chat!CloseTool(s, s.order[n + 1])
    BY <1>2, <1>4, <2>1 DEF IsLoop, Round
  <2>3. f[n + 1] = s
    BY <1>1, <2>1, <2>2 DEF Chat!CloseTool
  <2> QED
    BY <2>1, <2>3
<1> HIDE DEF T
<1>5. 0..N \subseteq T
  BY <1>1, <1>3, <1>4, BoundedInduction
<1>6. Chat!CloseTools(s) = s
  BY <1>1, <1>2, <1>5 DEF T
<1>7. Chat!CloseThinking(s) = s /\ Chat!CloseText(s) = s
  BY DEF Chat!CloseThinking, Chat!CloseText, Chat!Closed, Closed
<1> QED
  BY <1>6, <1>7 DEF Chat!StopBlocks
-----------------------------------------------------------------------------
(* To put a tool in its place tells nothing.                               *)
LEMMA WithToolOn ==
  ASSUME NEW r, NEW s, Flows(r, s), NEW i \in Nat, NEW t
  PROVE  Flows(Chat!WithTool(r, i, t), s)
<1> DEFINE v == Chat!WithTool(r, i, t)
           o == Append(r.order, i)
<1>1. DOMAIN r = ChatFields /\ r.order \in Seq(Nat)
  BY DEF Flows
<1>2. Put(v, r, i, t)
  BY <1>1, WithToolPuts
<1>3. o \in Seq(Nat)
  BY <1>1
<1>4. v.order \in {r.order, o}
  BY <1>2 DEF Put
<1> HIDE DEF v, o
<1>5. v.order \in Seq(Nat)
  BY <1>1, <1>3, <1>4
<1>6. Flows(v, s)
  BY <1>2, <1>5 DEF Flows, Put
<1> QED
  BY <1>6 DEF v

(* Thinking and text for a Messages client are content,                    *)
LEMMA ClaudeThinksOn ==
  ASSUME NEW r, NEW s, Flows(r, s)
  PROVE  Flows(Chat!ClaudeThinking(r), s) /\ Flows(Chat!ClaudeText(r), s)
<1> DEFINE c == Chat!StopBlocks(r)
           x == Chat!Start(r.next, "thinking")
           y == Chat!Start(r.next, "text")
           v == [c EXCEPT !.think = r.next, !.next = @ + 1]
           w == [c EXCEPT !.text = r.next, !.next = @ + 1]
<1>1. x.ev \in ContentEvents /\ y.ev \in ContentEvents
  BY ContentIs
<1>2. Flows(c, s)
  BY StopsBlocksOn
<1> HIDE DEF c, x, y
<1>3. Flows(v, s) /\ Flows(w, s)
  BY <1>2, FlowsUntold
<1> HIDE DEF v, w
<1>4. Flows(Chat!Say(v, <<x>>), s) /\ Flows(Chat!Say(w, <<y>>), s)
  BY <1>1, <1>3, FlowsTelling
<1>5. Flows(Chat!ClaudeThinking(r), s)
  <2> DEFINE o == IF r.think # Chat!Closed THEN r ELSE Chat!Say(v, <<x>>)
             z == Chat!Delta(o.think, 1)
  <2>1. Chat!ClaudeThinking(r) = Chat!Say(o, <<z>>)
    BY DEF Chat!ClaudeThinking, v, c, x
  <2>2. z.ev \in ContentEvents
    BY ContentIs
  <2>3. Flows(o, s)
    BY <1>4
  <2> HIDE DEF o, z
  <2> QED
    BY <2>1, <2>2, <2>3, FlowsTelling
<1>6. Flows(Chat!ClaudeText(r), s)
  <2> DEFINE o == IF r.text # Chat!Closed THEN r ELSE Chat!Say(w, <<y>>)
             z == Chat!Delta(o.text, 1)
  <2>1. Chat!ClaudeText(r) = Chat!Say(o, <<z>>)
    BY DEF Chat!ClaudeText, w, c, y
  <2>2. z.ev \in ContentEvents
    BY ContentIs
  <2>3. Flows(o, s)
    BY <1>4
  <2> HIDE DEF o, z
  <2> QED
    BY <2>1, <2>2, <2>3, FlowsTelling
<1> QED
  BY <1>5, <1>6

(* ... so is a call's fragment,                                            *)
LEMMA ClaudeCallOn ==
  ASSUME NEW r, NEW s, Flows(r, s), NEW call \in Chat!Calls
  PROVE  Flows(Chat!ClaudeCall(r, call), s)
<1> DEFINE i == call.index
           c == Chat!StopBlocks(r)
           d == [c EXCEPT !.next = @ + 1]
           w == Chat!WithTool(d, i, Chat!NewTool(r.next))
           x == Chat!Start(r.next, "tool")
           o == IF i \in DOMAIN r.tools THEN r ELSE Chat!Say(w, <<x>>)
           t == Chat!Grown(o.tools[i], call)
           v == Chat!WithTool(o, i, t)
           z == Chat!Delta(t.block, 1)
           e == IF call.args = "none" THEN <<>> ELSE <<z>>
<1>1. Chat!ClaudeCall(r, call) = Chat!Say(v, e)
  BY DEF Chat!ClaudeCall
<1>2. i \in Nat
  BY DEF Chat!Calls
<1>3. x.ev \in ContentEvents /\ z.ev \in ContentEvents
  BY ContentIs
<1>4. Flows(c, s)
  BY StopsBlocksOn
<1> HIDE DEF c, i, x, z
<1>5. Flows(d, s)
  BY <1>4, FlowsUntold
<1> HIDE DEF d
<1>6. Flows(w, s)
  BY <1>2, <1>5, WithToolOn
<1> HIDE DEF w
<1>7. Flows(o, s)
  BY <1>3, <1>6, FlowsTelling
<1> HIDE DEF o, t
<1>8. Flows(v, s)
  BY <1>2, <1>7, WithToolOn
<1>9. Speaks(e, ContentEvents)
  BY <1>3, SpeaksOne, SpeaksNot
<1> HIDE DEF v, e
<1> QED
  BY <1>1, <1>8, <1>9, FlowsSaying

(* ... so are all calls of a chunk.                                        *)
LEMMA ClaudeCallsOn ==
  ASSUME NEW r, NEW s, Flows(r, s), NEW calls \in Seq(Chat!Calls)
  PROVE  Flows(Chat!ClaudeCalls(r, calls), s)
<1> DEFINE N == Len(calls)
<1>1. N \in Nat /\ \A n \in 1..N : calls[n] \in Chat!Calls
  OBVIOUS
<1>2. PICK f : IsLoop(f, N, "ClaudeCalls", calls, r) /\ Chat!ClaudeCalls(r, calls) = f[N]
  BY ClaudeCallsRuns
<1> DEFINE T == {n \in 0..N : Flows(f[n], s)}
<1> HIDE DEF N
<1>3. 0 \in T
  BY <1>1, <1>2 DEF IsLoop
<1>4. ASSUME NEW n \in 0..N, n \in T, n + 1 <= N
      PROVE  n + 1 \in T
  <2>1. n + 1 \in 1..N /\ (n + 1) - 1 = n /\ n + 1 \in 0..N
    BY <1>1, <1>4
  <2>2. f[n + 1] = Chat!ClaudeCall(f[n], calls[n + 1])
    BY <1>2, <2>1 DEF IsLoop, Round
  <2>3. Flows(f[n + 1], s)
    BY <1>1, <1>4, <2>1, <2>2, ClaudeCallOn
  <2> QED
    BY <2>1, <2>3
<1> HIDE DEF T
<1>5. 0..N \subseteq T
  BY <1>1, <1>3, <1>4, BoundedInduction
<1> QED
  BY <1>1, <1>2, <1>5 DEF T

(* A chunk without calls.                                                  *)
LEMMA NoCalls ==
  ASSUME NEW r
  PROVE  Chat!ClaudeCalls(r, <<>>) = r /\ Chat!RespondCalls(r, <<>>) = r
<1> DEFINE q == <<>>
<1>1. q \in Seq(Chat!Calls) /\ Len(q) = 0
  OBVIOUS
<1> HIDE DEF q
<1>2. Chat!ClaudeCalls(r, q) = r
  <2>1. PICK f : IsLoop(f, Len(q), "ClaudeCalls", q, r) /\ Chat!ClaudeCalls(r, q) = f[Len(q)]
    BY <1>1, ClaudeCallsRuns
  <2>2. f[0] = r
    BY <2>1 DEF IsLoop
  <2> QED
    BY <1>1, <2>1, <2>2
<1>3. Chat!RespondCalls(r, q) = r
  <2>1. PICK f : IsLoop(f, Len(q), "RespondCalls", q, r) /\ Chat!RespondCalls(r, q) = f[Len(q)]
    BY <1>1, RespondCallsRuns
  <2>2. f[0] = r
    BY <2>1 DEF IsLoop
  <2> QED
    BY <1>1, <2>1, <2>2
<1> QED
  BY <1>2, <1>3 DEF q

-----------------------------------------------------------------------------
(* Thinking and text for a Responses client are content,                   *)
LEMMA RespondThinksOn ==
  ASSUME NEW r, NEW s, Flows(r, s)
  PROVE  Flows(Chat!RespondThinking(r), s) /\ Flows(Chat!RespondText(r), s)
<1>1. Flows(Chat!RespondThinking(r), s)
  <2> DEFINE c == Chat!CloseText(r)
             x == Chat!Start(c.next, "thinking")
             v == [c EXCEPT !.think = c.next, !.next = @ + 1]
             o == IF c.think # Chat!Closed THEN c ELSE Chat!Say(v, <<x>>)
             z == Chat!Delta(o.think, 1)
  <2>1. Chat!RespondThinking(r) = Chat!Say(o, <<z>>)
    BY DEF Chat!RespondThinking
  <2>2. x.ev \in ContentEvents /\ z.ev \in ContentEvents
    BY ContentIs
  <2>3. Flows(c, s)
    BY ClosesOn
  <2> HIDE DEF c, x, z
  <2>4. Flows(v, s)
    BY <2>3, FlowsUntold
  <2> HIDE DEF v
  <2>5. Flows(o, s)
    BY <2>2, <2>3, <2>4, FlowsTelling
  <2> HIDE DEF o
  <2> QED
    BY <2>1, <2>2, <2>5, FlowsTelling
<1>2. Flows(Chat!RespondText(r), s)
  <2> DEFINE c == Chat!CloseThinking(r)
             x == Chat!Start(c.next, "text")
             v == [c EXCEPT !.text = c.next, !.next = @ + 1]
             o == IF c.text # Chat!Closed THEN c ELSE Chat!Say(v, <<x>>)
             z == Chat!Delta(o.text, 1)
  <2>1. Chat!RespondText(r) = Chat!Say(o, <<z>>)
    BY DEF Chat!RespondText
  <2>2. x.ev \in ContentEvents /\ z.ev \in ContentEvents
    BY ContentIs
  <2>3. Flows(c, s)
    BY ClosesOn
  <2> HIDE DEF c, x, z
  <2>4. Flows(v, s)
    BY <2>3, FlowsUntold
  <2> HIDE DEF v
  <2>5. Flows(o, s)
    BY <2>2, <2>3, <2>4, FlowsTelling
  <2> HIDE DEF o
  <2> QED
    BY <2>1, <2>2, <2>5, FlowsTelling
<1> QED
  BY <1>1, <1>2

(* ... so are the fragments that were held back,                           *)
LEMMA SendsOn ==
  ASSUME NEW r, NEW s, Flows(r, s), NEW i
  PROVE  Flows(Chat!SendArguments(r, i), s)
<1> DEFINE t == r.tools[i]
           n == t.got - t.sent
           z == Chat!Delta(t.block, n)
           q == [r.tools EXCEPT ![i].sent = t.got]
           v == [r EXCEPT !.tools[i].sent = t.got]
<1>1. Chat!SendArguments(r, i) = r \/ Chat!SendArguments(r, i) = Chat!Say(v, <<z>>)
  BY DEF Chat!SendArguments
<1>2. v = [r EXCEPT !.tools = q]
  BY DEF Flows, ChatFields, BaseFields
<1>3. z.ev \in ContentEvents
  BY ContentIs
<1> HIDE DEF z, q, v
<1>4. Flows(v, s)
  BY <1>2, FlowsUntold
<1> QED
  BY <1>1, <1>3, <1>4, FlowsTelling

(* ... the announcement of an item,                                        *)
LEMMA AnnouncesOn ==
  ASSUME NEW r, NEW s, Flows(r, s), NEW i
  PROVE  /\ \A custom \in BOOLEAN : Flows(Chat!Announce(r, i, custom), s)
         /\ Flows(Chat!AnnounceNamed(r, i), s)
<1>1. ASSUME NEW custom \in BOOLEAN PROVE Flows(Chat!Announce(r, i, custom), s)
  <2> DEFINE kind == IF custom THEN "custom" ELSE "tool"
             x == Chat!Start(r.tools[i].block, kind)
             v == [r EXCEPT !.tools[i].announced = TRUE, !.tools[i].custom = custom]
             q == [[r.tools EXCEPT ![i].announced = TRUE] EXCEPT ![i].custom = custom]
  <2>1. Chat!Announce(r, i, custom) = Chat!Say(v, <<x>>)
    BY DEF Chat!Announce
  <2>2. v = [r EXCEPT !.tools = q]
    BY DEF Flows, ChatFields, BaseFields
  <2>3. x.ev \in ContentEvents
    BY ContentIs
  <2> HIDE DEF x, q, v
  <2>4. Flows(v, s)
    BY <2>2, FlowsUntold
  <2> QED
    BY <2>1, <2>3, <2>4, FlowsTelling
<1> DEFINE c == r.tools[i].name = "custom"
<1>2. c \in BOOLEAN
  OBVIOUS
<1>3. Chat!AnnounceNamed(r, i) = r \/ Chat!AnnounceNamed(r, i) = Chat!Announce(r, i, c)
  BY DEF Chat!AnnounceNamed
<1> HIDE DEF c
<1>4. Flows(Chat!AnnounceNamed(r, i), s)
  BY <1>1, <1>2, <1>3
<1> QED
  BY <1>1, <1>4

(* ... a call's fragment,                                                  *)
LEMMA RespondCallOn ==
  ASSUME NEW r, NEW s, Flows(r, s), NEW call \in Chat!Calls
  PROVE  Flows(Chat!RespondCall(r, call), s)
<1> DEFINE i == call.index
           c == Chat!CloseText(Chat!CloseThinking(r))
           d == [c EXCEPT !.next = @ + 1]
           o == IF i \in DOMAIN c.tools THEN c ELSE Chat!WithTool(d, i, Chat!NewTool(c.next))
           t == Chat!Grown(o.tools[i], call)
           g == [t EXCEPT !.name = IF t.announced THEN @ ELSE Chat!NameAfter(@, call.name)]
           v == Chat!WithTool(o, i, g)
           u == Chat!AnnounceNamed(v, i)
           h == Chat!RespondCall(r, call)
<1>1. h = Chat!Fail(r) \/ h = Chat!SendArguments(u, i)
  BY DEF Chat!RespondCall
<1>2. i \in Nat
  BY DEF Chat!Calls
<1>3. Flows(Chat!Fail(r), s)
  BY DEF Flows, ChatFields, BaseFields, Chat!Fail
<1>4. Flows(c, s)
  BY ClosesOn
<1> HIDE DEF c, i, h
<1>5. Flows(d, s)
  BY <1>4, FlowsUntold
<1> HIDE DEF d
<1>6. Flows(o, s)
  BY <1>2, <1>4, <1>5, WithToolOn
<1> HIDE DEF o, g
<1>7. Flows(v, s)
  BY <1>2, <1>6, WithToolOn
<1> HIDE DEF v
<1>8. Flows(u, s)
  BY <1>7, AnnouncesOn
<1> HIDE DEF u
<1>9. Flows(h, s)
  BY <1>1, <1>3, <1>8, SendsOn
<1> QED
  BY <1>9 DEF h

(* ... all calls of a chunk,                                               *)
LEMMA RespondCallsOn ==
  ASSUME NEW r, NEW s, Flows(r, s), NEW calls \in Seq(Chat!Calls)
  PROVE  Flows(Chat!RespondCalls(r, calls), s)
<1> DEFINE N == Len(calls)
<1>1. N \in Nat /\ \A n \in 1..N : calls[n] \in Chat!Calls
  OBVIOUS
<1>2. PICK f : IsLoop(f, N, "RespondCalls", calls, r) /\ Chat!RespondCalls(r, calls) = f[N]
  BY RespondCallsRuns
<1> DEFINE T == {n \in 0..N : Flows(f[n], s)}
<1> HIDE DEF N
<1>3. 0 \in T
  BY <1>1, <1>2 DEF IsLoop
<1>4. ASSUME NEW n \in 0..N, n \in T, n + 1 <= N
      PROVE  n + 1 \in T
  <2>1. n + 1 \in 1..N /\ (n + 1) - 1 = n /\ n + 1 \in 0..N
    BY <1>1, <1>4
  <2>2. f[n + 1] = Chat!RespondCall(f[n], calls[n + 1])
    BY <1>2, <2>1 DEF IsLoop, Round
  <2>3. Flows(f[n + 1], s)
    BY <1>1, <1>4, <2>1, <2>2, RespondCallOn
  <2> QED
    BY <2>1, <2>3
<1> HIDE DEF T
<1>5. 0..N \subseteq T
  BY <1>1, <1>3, <1>4, BoundedInduction
<1> QED
  BY <1>1, <1>2, <1>5 DEF T

(* ... and what is announced and sent at the finish.                       *)
LEMMA FinishesToolsOn ==
  ASSUME NEW r, NEW s, Flows(r, s)
  PROVE  Flows(Chat!FinishTools(r), s)
<1> DEFINE N == Len(r.order)
<1>1. r.order \in Seq(Nat) /\ N \in Nat
  BY DEF Flows
<1>2. PICK f : IsLoop(f, N, "FinishTools", r.order, r) /\ Chat!FinishTools(r) = f[N]
  BY <1>1, FinishToolsRuns
<1> DEFINE T == {n \in 0..N : Flows(f[n], s)}
<1> HIDE DEF N
<1>3. 0 \in T
  BY <1>1, <1>2 DEF IsLoop
<1>4. ASSUME NEW n \in 0..N, n \in T, n + 1 <= N
      PROVE  n + 1 \in T
  <2> DEFINE g == f[n]
             i == r.order[n + 1]
             a == IF g.tools[i].announced THEN g ELSE Chat!Announce(g, i, FALSE)
  <2>1. n + 1 \in 1..N /\ (n + 1) - 1 = n /\ n + 1 \in 0..N
    BY <1>1, <1>4
  <2>2. f[n + 1] = Chat!FinishTool(g, i)
    BY <1>2, <2>1 DEF IsLoop, Round
  <2>3. Flows(g, s)
    BY <1>4
  <2> HIDE DEF g, i
  <2>4. Flows(a, s)
    BY <2>3, AnnouncesOn
  <2>5. f[n + 1] = Chat!SendArguments(a, i)
    BY <2>2 DEF Chat!FinishTool
  <2> HIDE DEF a
  <2>6. Flows(f[n + 1], s)
    BY <2>4, <2>5, SendsOn
  <2> QED
    BY <2>1, <2>6
<1> HIDE DEF T
<1>5. 0..N \subseteq T
  BY <1>1, <1>3, <1>4, BoundedInduction
<1> QED
  BY <1>1, <1>2, <1>5 DEF T
-----------------------------------------------------------------------------
(* Nothing is said, and the end is as far as before.                       *)
Rests(t, s) ==
  /\ DOMAIN t = ChatFields
  /\ t.sourceFormat = s.sourceFormat /\ t.started = s.started /\ t.finished = s.finished
  /\ t.terminalSeen = s.terminalSeen /\ t.done = s.done
  /\ t.held = s.held /\ t.terminalSent = s.terminalSent
  /\ t.said = s.said

(* Progress, a failure and a usage record tell nothing.                    *)
LEMMA RestsOn ==
  ASSUME NEW s, DOMAIN s = ChatFields, NEW l
  PROVE  /\ Rests(s, s) /\ Rests(Chat!Advance(s), s) /\ Rests(Chat!Fail(s), s)
         /\ Rests(Chat!NoteUsage(s, l), s)
         /\ \A new : Rests(Chat!AdvanceIf(s, new), s)
<1>1. Rests(s, s)
  BY DEF Rests
<1>2. Rests(Chat!Advance(s), s)
  BY DEF Rests, ChatFields, BaseFields, Chat!Advance
<1>3. Rests(Chat!Fail(s), s)
  BY DEF Rests, ChatFields, BaseFields, Chat!Fail
<1>4. Rests(Chat!NoteUsage(s, l), s)
  <2> DEFINE v == [s EXCEPT !.usage = l.usage]
  <2>1. Rests(v, s)
    BY DEF Rests, ChatFields, BaseFields
  <2> HIDE DEF v
  <2>2. Rests(Chat!Advance(v), s)
    BY <2>1 DEF Rests, ChatFields, BaseFields, Chat!Advance
  <2> QED
    BY <1>1, <2>2 DEF Chat!NoteUsage, v
<1>5. ASSUME NEW new PROVE Rests(Chat!AdvanceIf(s, new), s)
  BY <1>1, <1>2 DEF Chat!AdvanceIf
<1> QED
  BY <1>1, <1>2, <1>3, <1>4, <1>5

(* A Messages stream that is open: the finish reason is held back until    *)
(* the line after it, or has been told in the one message_delta.           *)
ClaudeOpen(s, u) ==
  /\ s.finished => /\ u.finish # "none"
                   /\ Opened(s.said) \subseteq Shut(s.said)
                   /\ s.held # "none" <=> ~s.terminalSent
  /\ ~s.finished => s.held = "none" /\ ~s.terminalSent
  /\ s.terminalSent <=> Ever(s.said, "message_delta")
  /\ Never(s.said, {"message_stop", "finish", "completed"})

(* A Messages stream stays open when nothing is told.                      *)
LEMMA ClaudeRests ==
  ASSUME NEW s, NEW u, ClaudeOpen(s, u), NEW t, Rests(t, s)
  PROVE  ClaudeOpen(t, u)
BY DEF ClaudeOpen, Rests

(* Before message_delta nothing of the end has been told.                  *)
LEMMA DeltaNotTold ==
  ASSUME NEW w, Never(w, {"message_stop", "finish", "completed"}), ~Ever(w, "message_delta")
  PROVE  Never(w, EndEvents)
BY DEF Never, Ever, EndEvents

(* The message_delta.                                                      *)
LEMMA ClaudeTellsReason ==
  ASSUME NEW s, ClaudeInv(s), NEW u, ClaudeOpen(s, u), EndLast(s.said, "claude"),
         NEW t, t = Chat!ClaudeTerminal(s)
  PROVE  /\ ClaudeOpen(t, u) /\ EndLast(t.said, "claude") /\ t.held = "none"
         /\ t.finished = s.finished /\ t.done = s.done /\ t.terminalSeen = s.terminalSeen
         /\ Opened(t.said) = Opened(s.said) /\ Shut(t.said) = Shut(s.said)
<1> DEFINE v == [s EXCEPT !.held = "none", !.terminalSent = TRUE]
           x == Chat!Ending("message_delta", Chat!TerminalReason(s.order # <<>>, s.held))
<1>1. DOMAIN s = ChatFields /\ IsASequence(s.said) /\ s.finished \in BOOLEAN
  BY LawfulFacts DEF ClaudeInv, ChatInv, ChatHalf, ChatTyped, Common
<1>2. x.ev = "message_delta"
  BY DEF Chat!Ending
<1>3. t = IF s.held = "none" THEN s ELSE Chat!Say(v, <<x>>)
  BY DEF Chat!ClaudeTerminal
<1>4. CASE s.held = "none"
  BY <1>1, <1>3, <1>4
<1>5. CASE s.held # "none"
  <2>1. /\ DOMAIN v = ChatFields /\ v.said = s.said /\ v.finished = s.finished /\ v.done = s.done
        /\ v.terminalSeen = s.terminalSeen /\ v.held = "none" /\ v.terminalSent = TRUE
    BY <1>1 DEF ChatFields, BaseFields
  <2> HIDE DEF v, x
  <2> DEFINE w == s.said \o <<x>>
  <2>2. Opened(w) = Opened(s.said) /\ Shut(w) = Shut(s.said)
    BY <1>1, <1>2, Summary
  <2>3. Ever(w, "message_delta")
    BY <1>1, <1>2, EverAppended
  <2>4. Never(w, {"message_stop", "finish", "completed"})
    BY <1>1, <1>2, NeverAppended DEF ClaudeOpen
  <2>5. s.finished /\ ~Ever(s.said, "message_delta")
    BY <1>1, <1>5 DEF ClaudeOpen
  <2>6. Never(s.said, EndEvents)
    BY <2>5, DeltaNotTold DEF ClaudeOpen
  <2>7. EndLast(w, "claude")
    BY <1>1, <1>2, <2>6, EndsWithDelta
  <2>8. ChatSame(t, v) /\ t.said = w
    BY <1>3, <1>5, <2>1, ChatSaysAny
  <2> HIDE DEF w
  <2>9. /\ DOMAIN t = ChatFields /\ t.finished = s.finished /\ t.done = s.done
        /\ t.terminalSeen = s.terminalSeen /\ t.held = "none" /\ t.terminalSent = TRUE
    BY <2>1, <2>8 DEF ChatSame
  <2>10. ClaudeOpen(t, u)
    BY <2>2, <2>3, <2>4, <2>5, <2>8, <2>9 DEF ClaudeOpen
  <2> QED
    BY <2>2, <2>7, <2>8, <2>9, <2>10
<1> QED
  BY <1>4, <1>5

(* The message_stop.                                                       *)
LEMMA ClaudeSaysStop ==
  ASSUME NEW c, ClaudeInv(c), EndLast(c.said, "claude"),
         Never(c.said, {"message_stop", "completed"}),
         Opened(c.said) \subseteq Shut(c.said),
         Ever(c.said, "message_delta") <=> c.finished,
         NEW t, t = Chat!Say(c, <<Chat!Named("message_stop")>>)
  PROVE  EndLast(t.said, "claude") /\ WholeEnd(t, "chat") /\ ChatSame(t, c)
<1> DEFINE x == Chat!Named("message_stop")
           w == c.said \o <<x>>
<1>1. DOMAIN c = ChatFields /\ IsASequence(c.said) /\ c.sourceFormat = "claude"
      /\ Shut(c.said) \subseteq Opened(c.said)
  BY LawfulFacts DEF ClaudeInv, ChatInv, ChatHalf, ChatTyped, Common
<1>2. x.ev = "message_stop" /\ x.ev = EndEvent("claude")
  BY DEF Chat!Named, EndEvent
<1>3. t = Chat!Say(c, <<x>>)
  OBVIOUS
<1> HIDE DEF x
<1>4. EndLast(w, "claude")
  BY <1>1, <1>2, EndsWithEnd
<1>5. /\ Ever(w, "message_stop")
      /\ Ever(w, "message_delta") <=> Ever(c.said, "message_delta")
  <2>1. Ever(w, x.ev) /\ ("message_delta" # x.ev =>
          (Ever(w, "message_delta") <=> Ever(c.said, "message_delta")))
    BY <1>1, EverAppended
  <2> QED
    BY <1>2, <2>1
<1>6. Opened(w) = Opened(c.said) /\ Shut(w) = Shut(c.said)
  BY <1>1, <1>2, Summary
<1>7. ChatSame(t, c) /\ t.said = w
  BY <1>1, <1>3, ChatSaysAny
<1> HIDE DEF w
<1>8. t.sourceFormat = "claude" /\ t.finished = c.finished
  BY <1>1, <1>7 DEF ChatSame
<1>9. WholeEnd(t, "chat")
  <2>1. Ever(t.said, "message_stop") /\ Opened(t.said) = Shut(t.said)
    BY <1>1, <1>5, <1>6, <1>7
  <2>2. Ever(t.said, "message_delta") <=> t.finished
    BY <1>5, <1>7, <1>8
  <2>3. Ever(t.said, "message_delta") <=> (t.finished \/ "chat" = "responses")
    BY <2>2
  <2> QED
    BY <1>8, <2>1, <2>3 DEF WholeEnd
<1> QED
  BY <1>4, <1>7, <1>9

(* What is open no more need not be stopped.                               *)
LEMMA ClaudeIsStopped ==
  ASSUME NEW s, ClaudeInv(s), Opened(s.said) \subseteq Shut(s.said)
  PROVE  Chat!StopBlocks(s) = s
<1>1. /\ ChatBlocks(s) /\ ClaudeTold(s) /\ ChatTools(s) /\ Tooled(s.said) \subseteq Opened(s.said)
  BY LawfulFacts DEF ClaudeInv, ChatInv, ChatHalf, Common
<1>2. s.think = Closed /\ s.text = Closed
  BY <1>1 DEF ChatBlocks, OpenFor
<1>3. \A i \in DOMAIN s.tools : s.tools[i].stopped
  BY <1>1 DEF ChatBlocks, ClaudeTold
<1>4. s.order \in Seq(Nat) /\ \A n \in DOMAIN s.order : s.tools[s.order[n]].stopped
  BY <1>1, <1>3 DEF ChatTools
<1> QED
  BY <1>2, <1>4, NothingToStop

(* What was heard of a finish reason is not forgotten.                     *)
LEMMA ChatHears ==
  ASSUME NEW u, NEW l, NEW v, v = Chat!Heard(u, l)
  PROVE  /\ u.finish # "none" => v.finish # "none"
         /\ l.kind = "chunk" /\ l.finish # "none" => v.finish # "none"
BY DEF Chat!Heard
-----------------------------------------------------------------------------
(* The message_start.                                                      *)
LEMMA ClaudeStartsOn ==
  ASSUME NEW s, ClaudeInv(s), NEW u, ClaudeOpen(s, u), EndLast(s.said, "claude"),
         NEW t, t = Chat!ClaudeStart(s)
  PROVE  /\ ClaudeOpen(t, u) /\ EndLast(t.said, "claude") /\ t.held = s.held
         /\ t.finished = s.finished /\ t.done = s.done /\ t.terminalSeen = s.terminalSeen
<1> DEFINE v == Chat!StateStart(s)
           x == Chat!Named("message_start")
<1>1. DOMAIN s = ChatFields /\ IsASequence(s.said)
  BY LawfulFacts DEF ClaudeInv, ChatInv, ChatHalf, ChatTyped, Common
<1>2. x.ev = "message_start"
  BY DEF Chat!Named
<1>3. t = IF s.started THEN s ELSE Chat!Say(v, <<x>>)
  BY DEF Chat!ClaudeStart
<1>4. /\ DOMAIN v = ChatFields /\ v.said = s.said /\ v.held = s.held
      /\ v.finished = s.finished /\ v.done = s.done /\ v.terminalSeen = s.terminalSeen
      /\ v.terminalSent = s.terminalSent
  BY <1>1 DEF ChatFields, BaseFields, Chat!StateStart, Chat!Advance
<1> HIDE DEF v, x
<1>5. CASE s.started
  BY <1>3, <1>5
<1>6. CASE ~s.started
  <2> DEFINE w == s.said \o <<x>>
             K == {"message_start"}
  <2>1. ChatSame(t, v) /\ t.said = w
    BY <1>3, <1>4, <1>6, ChatSaysAny
  <2>2. Opened(w) = Opened(s.said) /\ Shut(w) = Shut(s.said)
    BY <1>1, <1>2, Summary
  <2>3. Ever(w, "message_delta") <=> Ever(s.said, "message_delta")
    <3>1. "message_delta" # x.ev => (Ever(w, "message_delta") <=> Ever(s.said, "message_delta"))
      BY <1>1, EverAppended
    <3> QED
      BY <1>2, <3>1
  <2>4. Never(w, {"message_stop", "finish", "completed"})
    BY <1>1, <1>2, NeverAppended DEF ClaudeOpen
  <2>5. Extends(w, s.said, K)
    BY <1>1, <1>2, ExtendsOne
  <2>6. EndEvent("claude") = "message_stop"
    BY DEF EndEvent
  <2>7. Never(s.said, {EndEvent("claude")})
    BY <2>6, NeverLess DEF ClaudeOpen
  <2>8. EndLast(w, "claude")
    BY <2>5, <2>6, <2>7, EndStays DEF ContentEvents
  <2> HIDE DEF w
  <2>9. /\ t.held = s.held /\ t.finished = s.finished /\ t.done = s.done
        /\ t.terminalSeen = s.terminalSeen /\ t.terminalSent = s.terminalSent
    BY <1>4, <2>1 DEF ChatSame
  <2>10. ClaudeOpen(t, u)
    BY <2>1, <2>2, <2>3, <2>4, <2>9 DEF ClaudeOpen
  <2> QED
    BY <2>1, <2>8, <2>9, <2>10
<1> QED
  BY <1>5, <1>6

(* Before the finish reason nothing of an end has been told.               *)
LEMMA ClaudeUnfinished ==
  ASSUME NEW s, NEW u, ClaudeOpen(s, u), ~s.finished
  PROVE  Never(s.said, EndEvents) /\ s.held = "none" /\ ~s.terminalSent
<1>1. s.held = "none" /\ ~s.terminalSent /\ ~Ever(s.said, "message_delta")
  BY DEF ClaudeOpen
<1> QED
  BY <1>1, DeltaNotTold DEF ClaudeOpen

(* Content before the finish reason leaves a Messages stream open.         *)
LEMMA ClaudeSoFar ==
  ASSUME NEW s, ClaudeInv(s), NEW t, Flows(t, s), Never(s.said, EndEvents), ~s.finished,
         s.held = "none", ~s.terminalSent, NEW u
  PROVE  ClaudeOpen(t, u) /\ EndLast(t.said, "claude") /\ Never(t.said, EndEvents)
         /\ t.done = s.done /\ t.terminalSeen = s.terminalSeen
         /\ ~t.finished /\ t.held = "none" /\ ~t.terminalSent
<1>1. ContentEvents \cap EndEvents = {}
  BY DEF ContentEvents, EndEvents
<1>2. Never(t.said, EndEvents)
  BY <1>1, ExtendsNever DEF Flows
<1>3. ~Ever(t.said, "message_delta") /\ Never(t.said, {"message_stop", "finish", "completed"})
  BY <1>2 DEF Never, Ever, EndEvents
<1>4. /\ t.done = s.done /\ t.terminalSeen = s.terminalSeen
      /\ ~t.finished /\ t.held = "none" /\ ~t.terminalSent
  BY DEF Flows
<1>5. ClaudeOpen(t, u)
  BY <1>3, <1>4 DEF ClaudeOpen
<1>6. EndLast(t.said, "claude")
  BY <1>2, NoEndYet
<1> QED
  BY <1>2, <1>4, <1>5, <1>6

(* The finish reason closes every block and is held back.                  *)
LEMMA ClaudeHolds ==
  ASSUME NEW s, ClaudeInv(s), Never(s.said, EndEvents), ~s.finished,
         s.held = "none", ~s.terminalSent,
         NEW finish \in {"stop", "length"}, NEW u, u.finish # "none",
         NEW t, t = Chat!ClaudeFinish(s, finish)
  PROVE  /\ ClaudeOpen(t, u) /\ EndLast(t.said, "claude")
         /\ t.done = s.done /\ t.terminalSeen = s.terminalSeen
<1> DEFINE r == [Chat!Finish(s) EXCEPT !.held = finish]
<1>1. t = Chat!StopBlocks(r)
  BY DEF Chat!ClaudeFinish
<1>2. /\ DOMAIN s = ChatFields /\ Common(s) /\ ChatTyped(s) /\ s.order \in Seq(Nat)
  BY DEF ClaudeInv, ChatInv, ChatHalf, ChatTyped, ChatTools
<1>3. ChatLike(r, s) /\ r.finished = TRUE /\ r.held = finish /\ r.terminalSent = s.terminalSent
      /\ r.done = s.done /\ r.terminalSeen = s.terminalSeen
  BY <1>2 DEF Common, ChatTyped, ChatFields, BaseFields, ChatLike, Chat!Finish, Chat!Advance
<1> HIDE DEF r
<1>4. ClaudeInv(r)
  BY <1>3, ClaudeKeeps
<1>5. Opened(t.said) \subseteq Shut(t.said)
  BY <1>1, <1>4, ClaudeStops
<1>6. Flows(t, r)
  BY <1>1, <1>4, FlowsNowhere, StopsBlocksOn DEF ClaudeInv
<1>7. /\ t.finished = TRUE /\ t.held = finish /\ ~t.terminalSent
      /\ t.done = s.done /\ t.terminalSeen = s.terminalSeen
  BY <1>3, <1>6 DEF Flows
<1>8. Never(t.said, EndEvents)
  <2>1. ContentEvents \cap EndEvents = {} /\ r.said = s.said
    BY <1>3 DEF ContentEvents, EndEvents, ChatLike
  <2>2. Extends(t.said, s.said, ContentEvents)
    BY <1>6, <2>1 DEF Flows
  <2> QED
    BY <2>1, <2>2, ExtendsNever
<1>9. ~Ever(t.said, "message_delta") /\ Never(t.said, {"message_stop", "finish", "completed"})
  BY <1>8 DEF Never, Ever, EndEvents
<1>10. ClaudeOpen(t, u)
  BY <1>5, <1>7, <1>9 DEF ClaudeOpen
<1>11. EndLast(t.said, "claude")
  BY <1>8, NoEndYet
<1> QED
  BY <1>7, <1>10, <1>11
-----------------------------------------------------------------------------
(* A choice.  After the finish reason it brings nothing.                   *)
LEMMA ClaudeChoosesOn ==
  ASSUME NEW s, ClaudeInv(s), NEW u, ClaudeOpen(s, u), EndLast(s.said, "claude"),
         s.held = "none" \/ ~s.finished,
         NEW l, Chat!IsLine(l), l.kind = "chunk", s.finished => ~Chat!Brings(l),
         NEW v, u.finish # "none" => v.finish # "none", l.finish # "none" => v.finish # "none",
         NEW t, t = Chat!ClaudeChoice(s, l)
  PROVE  /\ ClaudeOpen(t, v) /\ EndLast(t.said, "claude")
         /\ t.done = s.done /\ t.terminalSeen = s.terminalSeen
<1> DEFINE a == Chat!ClaudeStart(s)
           s1 == Chat!AdvanceIf(a, Chat!Brings(l))
           s2 == IF l.think THEN Chat!ClaudeThinking(s1) ELSE s1
           s3 == IF l.text THEN Chat!ClaudeText(s2) ELSE s2
           s4 == Chat!ClaudeCalls(s3, l.calls)
<1>1. /\ {l.choice, l.think, l.text} \subseteq BOOLEAN
      /\ l.calls \in Seq(Chat!Calls) /\ l.finish \in {"none", "stop", "length"}
  BY DEF Chat!IsLine
<1>2. t = Chat!ClaudeFinish(s4, l.finish)
  BY DEF Chat!ClaudeChoice
<1>3. ClaudeInv(a)
  BY ClaudeStarts
<1>4. /\ ClaudeOpen(a, u) /\ EndLast(a.said, "claude")
      /\ a.finished = s.finished /\ a.done = s.done /\ a.terminalSeen = s.terminalSeen
  BY ClaudeStartsOn
<1>5. DOMAIN a = ChatFields
  BY <1>3 DEF ClaudeInv, ChatInv, ChatHalf, ChatTyped
<1> HIDE DEF a
<1>6. s1 = a \/ s1 = Chat!Advance(a)
  BY DEF Chat!AdvanceIf
<1>7. ClaudeInv(s1)
  BY <1>3, <1>6, ChatProgress, ClaudeKeeps DEF ClaudeInv
<1>8. Rests(s1, a)
  BY <1>5, RestsOn
<1> HIDE DEF s1
<1>9. ClaudeOpen(s1, u)
  BY <1>4, <1>8, ClaudeRests
<1>10. /\ EndLast(s1.said, "claude")
       /\ s1.finished = s.finished /\ s1.done = s.done /\ s1.terminalSeen = s.terminalSeen
  BY <1>4, <1>8 DEF Rests
<1>11. ClaudeOpen(s1, v)
  BY <1>9 DEF ClaudeOpen
<1>12. CASE s.finished
  <2>1. ~l.think /\ ~l.text /\ l.calls = <<>>
    BY <1>12 DEF Chat!Brings
  <2>2. s4 = s1
    BY <2>1, NoCalls
  <2> HIDE DEF s4
  <2>3. t = s1
    BY <1>2, <1>10, <1>12, <2>2 DEF Chat!ClaudeFinish
  <2> QED
    BY <1>10, <1>11, <2>3
<1>13. CASE ~s.finished
  <2>1. Never(s1.said, EndEvents) /\ s1.held = "none" /\ ~s1.terminalSent
    BY <1>9, <1>10, <1>13, ClaudeUnfinished
  <2>2. Flows(s1, s1)
    BY <1>7, FlowsNowhere DEF ClaudeInv
  <2>3. ClaudeInv(s2) /\ Flows(s2, s1)
    BY <1>7, <2>2, ClaudeThinks, ClaudeThinksOn
  <2> HIDE DEF s2
  <2>4. ClaudeInv(s3) /\ Flows(s3, s1)
    BY <2>3, ClaudeTexts, ClaudeThinksOn
  <2> HIDE DEF s3
  <2>5. ClaudeInv(s4) /\ Flows(s4, s1)
    BY <1>1, <2>4, ClaudeCallsAll, ClaudeCallsOn
  <2> HIDE DEF s4
  <2>6. /\ ClaudeOpen(s4, v) /\ EndLast(s4.said, "claude") /\ Never(s4.said, EndEvents)
        /\ s4.done = s1.done /\ s4.terminalSeen = s1.terminalSeen
        /\ ~s4.finished /\ s4.held = "none" /\ ~s4.terminalSent
    BY <1>7, <1>10, <1>13, <2>1, <2>5, ClaudeSoFar
  <2>7. CASE l.finish = "none"
    <3>1. t = s4
      BY <1>2, <2>7 DEF Chat!ClaudeFinish
    <3> QED
      BY <1>10, <2>6, <3>1
  <2>8. CASE l.finish # "none"
    <3>1. v.finish # "none" /\ l.finish \in {"stop", "length"}
      BY <1>1, <2>8
    <3>2. /\ ClaudeOpen(t, v) /\ EndLast(t.said, "claude")
          /\ t.done = s4.done /\ t.terminalSeen = s4.terminalSeen
      BY <1>2, <2>5, <2>6, <3>1, ClaudeHolds
    <3> QED
      BY <1>10, <2>6, <3>2
  <2> QED
    BY <2>7, <2>8
<1> QED
  BY <1>12, <1>13

(* [DONE].                                                                 *)
LEMMA ClaudeDone ==
  ASSUME NEW s, ClaudeInv(s), NEW u, ClaudeOpen(s, u), EndLast(s.said, "claude"),
         NEW t, t = Chat!Say(Chat!ClaudeTerminal(Chat!StopBlocks(Chat!Ended(s))),
                             <<Chat!Named("message_stop")>>)
  PROVE  EndLast(t.said, "claude") /\ WholeEnd(t, "chat") /\ t.done
<1> DEFINE e == Chat!Ended(s)
           c == Chat!StopBlocks(e)
           d == Chat!ClaudeTerminal(c)
<1>1. DOMAIN s = ChatFields /\ s.finished \in BOOLEAN
  BY DEF ClaudeInv, ChatInv, ChatHalf, ChatTyped, Common
<1>2. /\ e.said = s.said /\ e.finished = s.finished /\ e.held = s.held
      /\ e.terminalSent = s.terminalSent /\ e.done
  BY <1>1 DEF ChatFields, BaseFields, Chat!Ended, Chat!Terminal, Chat!Advance
<1>3. ClaudeInv(e)
  BY ChatProgress, ClaudeKeeps DEF ClaudeInv
<1>4. t = Chat!Say(d, <<Chat!Named("message_stop")>>)
  OBVIOUS
<1> HIDE DEF e
<1>5. ClaudeOpen(e, u) /\ EndLast(e.said, "claude")
  BY <1>2 DEF ClaudeOpen
<1>6. ClaudeInv(c) /\ Opened(c.said) \subseteq Shut(c.said)
  BY <1>3, ClaudeStops
<1>7. /\ ClaudeOpen(c, u) /\ EndLast(c.said, "claude")
      /\ c.finished = s.finished /\ c.done
  <2>1. CASE s.finished
    <3>1. c = e
      BY <1>2, <1>3, <1>5, <2>1, ClaudeIsStopped DEF ClaudeOpen
    <3> HIDE DEF c
    <3> QED
      BY <1>2, <1>5, <3>1
  <2>2. CASE ~s.finished
    <3>1. Flows(c, e)
      BY <1>3, FlowsNowhere, StopsBlocksOn DEF ClaudeInv
    <3> HIDE DEF c
    <3>2. Never(e.said, EndEvents) /\ e.held = "none" /\ ~e.terminalSent /\ ~e.finished
      BY <1>2, <1>5, <2>2, ClaudeUnfinished
    <3>3. ClaudeOpen(c, u) /\ EndLast(c.said, "claude")
      BY <1>3, <3>1, <3>2, ClaudeSoFar
    <3>4. c.finished = e.finished /\ c.done = e.done
      BY <3>1 DEF Flows
    <3> QED
      BY <1>2, <3>3, <3>4
  <2> QED
    BY <2>1, <2>2
<1> HIDE DEF c
<1>8. ClaudeInv(d)
  BY <1>6, ClaudeTerminates
<1>9. /\ ClaudeOpen(d, u) /\ EndLast(d.said, "claude") /\ d.held = "none"
      /\ d.finished = c.finished /\ d.done = c.done
      /\ Opened(d.said) = Opened(c.said) /\ Shut(d.said) = Shut(c.said)
  BY <1>6, <1>7, ClaudeTellsReason
<1> HIDE DEF d
<1>10. Never(d.said, {"message_stop", "completed"})
  BY <1>9, NeverLess DEF ClaudeOpen
<1>11. Ever(d.said, "message_delta") <=> d.finished
  BY <1>9 DEF ClaudeOpen
<1>12. EndLast(t.said, "claude") /\ WholeEnd(t, "chat") /\ ChatSame(t, d)
  BY <1>4, <1>6, <1>8, <1>9, <1>10, <1>11, ClaudeSaysStop
<1> QED
  BY <1>7, <1>9, <1>12 DEF ChatSame

(* A line of a Messages stream.                                            *)
LEMMA ClaudeLinesOn ==
  ASSUME NEW s, ClaudeInv(s), NEW u, ClaudeOpen(s, u), EndLast(s.said, "claude"),
         ~s.done, ~s.terminalSeen,
         NEW l, Chat!IsLine(l), Chat!MayFollow(u, l),
         NEW t, t = Chat!ClaudeLine(s, l)
  PROVE  /\ EndLast(t.said, "claude")
         /\ ~t.done => ClaudeOpen(t, Chat!Heard(u, l)) /\ ~t.terminalSeen
         /\ t.done => WholeEnd(t, "chat")
<1> DEFINE v == Chat!Heard(u, l)
<1>1. DOMAIN s = ChatFields
  BY DEF ClaudeInv, ChatInv, ChatHalf, ChatTyped
<1>2. /\ u.finish # "none" => v.finish # "none"
      /\ l.kind = "chunk" /\ l.finish # "none" => v.finish # "none"
  BY ChatHears
<1> HIDE DEF v
<1>3. ClaudeOpen(s, v)
  BY <1>2 DEF ClaudeOpen
<1>4. CASE t = Chat!Fail(s)
  <2>1. Rests(t, s)
    BY <1>1, <1>4, RestsOn
  <2>2. ClaudeOpen(t, v)
    BY <1>3, <2>1, ClaudeRests
  <2>3. EndLast(t.said, "claude") /\ ~t.done /\ ~t.terminalSeen
    BY <2>1 DEF Rests
  <2> QED
    BY <2>2, <2>3 DEF v
<1>5. CASE l.kind = "error"
  BY <1>4, <1>5 DEF Chat!ClaudeLine
<1>6. CASE l.kind = "done"
  <2>1. CASE Chat!ToolsWellFormed(s)
    <3>1. t = Chat!Say(Chat!ClaudeTerminal(Chat!StopBlocks(Chat!Ended(s))),
                       <<Chat!Named("message_stop")>>)
      BY <1>6, <2>1 DEF Chat!ClaudeLine
    <3> QED
      BY <3>1, ClaudeDone
  <2>2. CASE ~Chat!ToolsWellFormed(s)
    BY <1>4, <1>6, <2>2 DEF Chat!ClaudeLine
  <2> QED
    BY <2>1, <2>2
<1>7. CASE l.kind = "chunk"
  <2> DEFINE a == Chat!ClaudeTerminal(s)
             b == Chat!NoteUsage(a, l)
  <2>1. t = IF l.choice THEN Chat!ClaudeChoice(b, l) ELSE b
    BY <1>7 DEF Chat!ClaudeLine
  <2>2. ClaudeInv(a)
    BY ClaudeTerminates
  <2>3. /\ ClaudeOpen(a, u) /\ EndLast(a.said, "claude") /\ a.held = "none"
        /\ a.finished = s.finished /\ a.done = s.done /\ a.terminalSeen = s.terminalSeen
    BY ClaudeTellsReason
  <2>4. DOMAIN a = ChatFields
    BY <2>2 DEF ClaudeInv, ChatInv, ChatHalf, ChatTyped
  <2> HIDE DEF a
  <2>5. l.usage \in Nat
    BY <1>7 DEF Chat!IsLine
  <2>6. ClaudeInv(b)
    BY <2>2, <2>5, ChatNotesUsage, ClaudeKeeps DEF ClaudeInv
  <2>7. Rests(b, a)
    BY <2>4, RestsOn
  <2> HIDE DEF b
  <2>8. ClaudeOpen(b, u)
    BY <2>3, <2>7, ClaudeRests
  <2>9. /\ EndLast(b.said, "claude") /\ b.held = "none"
        /\ b.finished = s.finished /\ ~b.done /\ ~b.terminalSeen
    BY <2>3, <2>7 DEF Rests
  <2>10. b.finished => ~Chat!Brings(l)
    BY <1>7, <2>8 DEF Chat!MayFollow, ClaudeOpen
  <2>11. CASE l.choice
    <3>1. t = Chat!ClaudeChoice(b, l)
      BY <2>1, <2>11
    <3>2. l.finish # "none" => v.finish # "none"
      BY <1>2, <1>7
    <3>3. /\ ClaudeOpen(t, v) /\ EndLast(t.said, "claude")
          /\ t.done = b.done /\ t.terminalSeen = b.terminalSeen
      BY <1>2, <1>7, <2>6, <2>8, <2>9, <2>10, <3>1, <3>2, ClaudeChoosesOn
    <3> QED
      BY <2>9, <3>3 DEF v
  <2>12. CASE ~l.choice
    <3>1. t = b
      BY <2>1, <2>12
    <3>2. ClaudeOpen(b, v)
      BY <1>2, <2>8 DEF ClaudeOpen
    <3> QED
      BY <2>9, <3>1, <3>2 DEF v
  <2> QED
    BY <2>11, <2>12
<1> QED
  BY <1>5, <1>6, <1>7 DEF Chat!IsLine

(* The end without [DONE].                                                 *)
LEMMA ClaudeFlushesWhole ==
  ASSUME NEW s, ClaudeInv(s), NEW u, ClaudeOpen(s, u), EndLast(s.said, "claude"),
         ~s.terminalSeen, NEW t, t = Chat!FinalizeStream(s)
  PROVE  EndLast(t.said, "claude") /\ (t.failed \/ WholeEnd(t, "chat"))
<1> DEFINE a == Chat!ClaudeTerminal(s)
           b == Chat!Say(a, <<Chat!Named("message_stop")>>)
<1>1. DOMAIN s = ChatFields /\ s.sourceFormat = "claude"
  BY DEF ClaudeInv, ChatInv, ChatHalf, ChatTyped
<1>2. CASE ~s.finished \/ ~Chat!ToolsWellFormed(s)
  <2>1. t = Chat!Fail(s)
    BY <1>1, <1>2 DEF Chat!FinalizeStream
  <2>2. t.failed /\ t.said = s.said
    BY <1>1, <2>1 DEF Chat!Fail, ChatFields, BaseFields
  <2> QED
    BY <2>2
<1>3. CASE s.finished /\ Chat!ToolsWellFormed(s)
  <2>1. t = Chat!Terminal(Chat!Flush(s))
    BY <1>1, <1>3 DEF Chat!FinalizeStream
  <2>2. s.held # "none" \/ s.terminalSent
    BY <1>3 DEF ClaudeOpen
  <2>3. Chat!Flush(s) = b
    BY <1>1, <2>2 DEF Chat!Flush
  <2>4. ClaudeInv(a)
    BY ClaudeTerminates
  <2>5. /\ ClaudeOpen(a, u) /\ EndLast(a.said, "claude") /\ a.held = "none"
        /\ a.finished = s.finished
    BY ClaudeTellsReason
  <2> HIDE DEF a
  <2>6. a.finished
    BY <1>3, <2>5
  <2>7. /\ Opened(a.said) \subseteq Shut(a.said)
        /\ Ever(a.said, "message_delta") <=> a.finished
    BY <2>5, <2>6 DEF ClaudeOpen
  <2>8. Never(a.said, {"message_stop", "completed"})
    BY <2>5, NeverLess DEF ClaudeOpen
  <2>9. EndLast(b.said, "claude") /\ WholeEnd(b, "chat") /\ ChatSame(b, a)
    BY <2>4, <2>5, <2>7, <2>8, ClaudeSaysStop
  <2> HIDE DEF b
  <2>10. t = Chat!Terminal(b) /\ DOMAIN b = ChatFields
    BY <2>1, <2>3, <2>9 DEF ChatSame
  <2>11. t.said = b.said /\ t.finished = b.finished /\ t.sourceFormat = b.sourceFormat
    BY <2>10 DEF Chat!Terminal, Chat!Advance, ChatFields, BaseFields
  <2>12. WholeEnd(t, "chat")
    BY <2>9, <2>11 DEF WholeEnd
  <2> QED
    BY <2>9, <2>11, <2>12
<1> QED
  BY <1>2, <1>3
-----------------------------------------------------------------------------
(* A Responses stream from Chat Completions that goes on ...               *)
RespondGoing(s, u) ==
  /\ ~s.terminalSent
  /\ Never(s.said, EndEvents)
  /\ s.finished => s.started /\ u.finish # "none" /\ s.held # "none"
  /\ ~s.finished => s.held = "none"

(* ... and one whose response.completed has been told.                     *)
RespondEnded(s) ==
  /\ s.terminalSent /\ s.held = "none"
  /\ EndLast(s.said, "openai-response")
  /\ Ever(s.said, "completed")
  /\ Opened(s.said) = Shut(s.said)
  /\ Range(s.said[Len(s.said)].output) = Opened(s.said)
  /\ Rises(s.said[Len(s.said)].output)

RespondOpen(s, u) ==
  \/ RespondGoing(s, u)
  \/ RespondEnded(s) /\ s.finished /\ s.started /\ u.finish # "none"

(* A Responses stream that is open has nothing after its end.              *)
LEMMA RespondEndLast ==
  ASSUME NEW s, NEW u, RespondOpen(s, u)
  PROVE  EndLast(s.said, "openai-response")
BY NoEndYet DEF RespondOpen, RespondGoing, RespondEnded

(* It stays so when nothing is told.                                       *)
LEMMA RespondRests ==
  ASSUME NEW s, NEW u, NEW t, Rests(t, s)
  PROVE  /\ RespondGoing(s, u) => RespondGoing(t, u)
         /\ RespondEnded(s) => RespondEnded(t)
         /\ RespondOpen(s, u) => RespondOpen(t, u)
<1>1. RespondGoing(s, u) => RespondGoing(t, u)
  BY DEF RespondGoing, Rests
<1>2. RespondEnded(s) => RespondEnded(t)
  BY DEF RespondEnded, Rests
<1>3. t.finished = s.finished /\ t.started = s.started
  BY DEF Rests
<1> QED
  BY <1>1, <1>2, <1>3 DEF RespondOpen

(* It stays so when more is heard.                                         *)
LEMMA RespondHears ==
  ASSUME NEW s, NEW u, NEW v, u.finish # "none" => v.finish # "none", RespondOpen(s, u)
  PROVE  RespondOpen(s, v)
BY DEF RespondOpen, RespondGoing

(* Content before the end leaves it open.                                  *)
LEMMA RespondFlows ==
  ASSUME NEW s, NEW u, RespondGoing(s, u), NEW t, Flows(t, s)
  PROVE  RespondGoing(t, u)
<1>1. ContentEvents \cap EndEvents = {}
  BY DEF ContentEvents, EndEvents
<1>2. Never(t.said, EndEvents)
  BY <1>1, ExtendsNever DEF Flows, RespondGoing
<1> QED
  BY <1>2 DEF RespondGoing, Flows

(* One that has been told response.completed has been told a whole end.    *)
LEMMA RespondEndsWhole ==
  ASSUME NEW s, RespondInv(s), RespondEnded(s)
  PROVE  WholeEnd(s, "chat") /\ EndLast(s.said, s.sourceFormat)
BY DEF RespondEnded, RespondInv, WholeEnd

(* Every open block is closed by stopBlocks, and the items noted are those *)
(* announced.                                                              *)
LEMMA RespondStops ==
  ASSUME NEW s, RespondInv(s),
         \A i \in DOMAIN s.tools : s.tools[i].stopped \/ s.tools[i].announced,
         NEW c, c = Chat!StopBlocks(s)
  PROVE  /\ RespondInv(c) /\ Flows(c, s) /\ Opened(c.said) = Shut(c.said)
         /\ Lists(Chat!Listed(c.items, c.next), Opened(c.said), c.next)
         /\ Range(Chat!Listed(c.items, c.next)) = Opened(c.said)
<1>1. \A i \in DOMAIN s.tools : Closable1(s, i)
  BY DEF RespondInv, ChatInv, ChatHalf, RespondTold, Closable1
<1>2. /\ After(c, s) /\ c.think = Closed /\ c.text = Closed
      /\ \A i \in DOMAIN s.tools : c.tools[i].stopped
  BY <1>1, StopsBlocks DEF RespondInv
<1>3. RespondInv(c) /\ DOMAIN c.tools = DOMAIN s.tools
  BY <1>2 DEF RespondInv, After
<1>4. Flows(c, s)
  BY FlowsNowhere, StopsBlocksOn DEF RespondInv
<1>5. /\ Common(c) /\ ChatBlocks(c) /\ c.items = Shut(c.said)
      /\ Shut(c.said) \subseteq Opened(c.said) /\ Opened(c.said) \subseteq 0..(c.next - 1)
      /\ c.next \in Nat
  BY <1>3, LawfulFacts DEF RespondInv, ChatInv, ChatHalf, RespondTold, Common
<1>6. ASSUME NEW b \in Opened(c.said), b \notin Shut(c.said) PROVE FALSE
  <2>1. b # Closed
    BY <1>5 DEF Closed
  <2>2. PICK i \in DOMAIN c.tools : c.tools[i].block = b
    BY <1>2, <1>5, <1>6, <2>1 DEF ChatBlocks
  <2>3. c.tools[i].stopped
    BY <1>2, <1>3
  <2> QED
    BY <1>5, <1>6, <2>2, <2>3 DEF ChatBlocks
<1>7. Opened(c.said) = Shut(c.said)
  BY <1>5, <1>6
<1>8. Lists(Chat!Listed(c.items, c.next), Opened(c.said), c.next)
  BY <1>5, <1>7, ListedIs
<1>9. Range(Chat!Listed(c.items, c.next)) = Opened(c.said)
  BY <1>5, <1>8 DEF Lists
<1> QED
  BY <1>3, <1>4, <1>7, <1>8, <1>9

(* response.completed.                                                     *)
LEMMA RespondCompletes ==
  ASSUME NEW s, RespondInv(s), NEW u, RespondGoing(s, u), NEW synthetic \in BOOLEAN,
         NEW t, t = Chat!RespondTerminal(s, synthetic)
  PROVE  \/ t = s /\ ~synthetic /\ s.held = "none"
         \/ t = Chat!Fail(s)
         \/ /\ RespondEnded(t) /\ DOMAIN t = ChatFields
            /\ t.started = s.started /\ t.finished = s.finished /\ t.done = s.done
            /\ ~synthetic => s.held # "none"
<1> DEFINE c == Chat!StopBlocks(s)
           v == [c EXCEPT !.held = "none", !.terminalSent = TRUE]
           r == Chat!Terminal(v)
           x == Chat!Completed(Chat!StatusOf(s.held), Chat!Listed(c.items, c.next))
           e == Chat!Say(r, <<x>>)
           w == c.said \o <<x>>
           Ready == \A i \in DOMAIN s.tools : s.tools[i].stopped \/ s.tools[i].announced
<1>1. \/ t = s /\ ~synthetic /\ s.held = "none"
      \/ t = Chat!Fail(s)
      \/ Ready /\ t = e /\ (~synthetic => s.held # "none")
  BY DEF Chat!RespondTerminal, RespondGoing
<1>2. SUFFICES ASSUME Ready, t = e, ~synthetic => s.held # "none"
               PROVE  /\ RespondEnded(t) /\ DOMAIN t = ChatFields
                      /\ t.started = s.started /\ t.finished = s.finished /\ t.done = s.done
  BY <1>1
<1>3. x.ev = "completed" /\ x.output = Chat!Listed(c.items, c.next)
  BY DEF Chat!Completed
<1> HIDE DEF x
<1>4. /\ RespondInv(c) /\ Flows(c, s) /\ Opened(c.said) = Shut(c.said)
      /\ Lists(Chat!Listed(c.items, c.next), Opened(c.said), c.next)
      /\ Range(Chat!Listed(c.items, c.next)) = Opened(c.said)
  BY <1>2, RespondStops
<1> HIDE DEF c
<1>5. Range(x.output) = Opened(c.said) /\ Rises(x.output)
  BY <1>3, <1>4 DEF Lists
<1>6. DOMAIN c = ChatFields /\ IsASequence(c.said)
  BY <1>4, LawfulFacts DEF RespondInv, ChatInv, ChatHalf, ChatTyped, Common
<1>7. Never(c.said, EndEvents)
  BY <1>4, RespondFlows DEF RespondGoing
<1>8. /\ DOMAIN r = ChatFields /\ r.said = c.said /\ r.held = "none" /\ r.terminalSent = TRUE
      /\ r.started = c.started /\ r.finished = c.finished /\ r.done = c.done
  BY <1>6 DEF ChatFields, BaseFields, Chat!Terminal, Chat!Advance
<1> HIDE DEF r
<1>9. ChatSame(e, r) /\ e.said = w
  BY <1>8, ChatSaysAny
<1>10. EndLast(w, "openai-response")
  <2>1. EndLast(c.said, "openai-response")
    BY <1>7, NoEndYet
  <2>2. Never(c.said, {"message_stop", "completed"})
    BY <1>7, NeverLess DEF EndEvents
  <2>3. x.ev = EndEvent("openai-response")
    BY <1>3 DEF EndEvent
  <2> QED
    BY <1>6, <2>1, <2>2, <2>3, EndsWithEnd
<1>11. Ever(w, "completed")
  BY <1>3, <1>6, EverAppended
<1>12. Opened(w) = Opened(c.said) /\ Shut(w) = Shut(c.said)
  BY <1>3, <1>6, Summary
<1>13. w[Len(w)] = x
  BY <1>6, Appended
<1> HIDE DEF w, e
<1>14. /\ t.said = w /\ t.held = "none" /\ t.terminalSent = TRUE
       /\ t.started = s.started /\ t.finished = s.finished /\ t.done = s.done
       /\ DOMAIN t = ChatFields
  BY <1>2, <1>4, <1>8, <1>9 DEF ChatSame, Flows
<1>15. RespondEnded(t)
  BY <1>4, <1>5, <1>10, <1>11, <1>12, <1>13, <1>14 DEF RespondEnded
<1> QED
  BY <1>14, <1>15

(* After response.completed nothing is completed again.                    *)
LEMMA RespondCompleted ==
  ASSUME NEW s, RespondEnded(s), NEW synthetic
  PROVE  Chat!RespondTerminal(s, synthetic) = s
BY DEF RespondEnded, Chat!RespondTerminal

(* Nor is there a thinking item to close.                                  *)
LEMMA RespondNotThinking ==
  ASSUME NEW s, RespondInv(s), RespondEnded(s)
  PROVE  Chat!CloseThinking(s) = s
<1>1. s.think = Closed
  BY DEF RespondInv, ChatInv, ChatHalf, ChatBlocks, OpenFor, RespondEnded
<1> QED
  BY <1>1 DEF Chat!CloseThinking, Chat!Closed, Closed
-----------------------------------------------------------------------------
(* response.created.                                                       *)
LEMMA RespondStartsOn ==
  ASSUME NEW s, RespondInv(s), NEW u, RespondGoing(s, u),
         NEW t, t = Chat!RespondStart(s)
  PROVE  /\ RespondGoing(t, u) /\ t.started
         /\ t.finished = s.finished /\ t.held = s.held /\ t.done = s.done
<1> DEFINE v == Chat!StateStart(s)
           x == Chat!Named("created")
<1>1. DOMAIN s = ChatFields /\ IsASequence(s.said) /\ s.started \in BOOLEAN
  BY LawfulFacts DEF RespondInv, ChatInv, ChatHalf, ChatTyped, Common
<1>2. x.ev = "created"
  BY DEF Chat!Named
<1>3. t = IF s.started THEN s ELSE Chat!Say(v, <<x>>)
  BY DEF Chat!RespondStart
<1>4. ~s.started => v = Chat!Advance([s EXCEPT !.started = TRUE])
  BY DEF Chat!StateStart
<1>5. ~s.started =>
        /\ DOMAIN v = ChatFields /\ v.said = s.said /\ v.held = s.held /\ v.started
        /\ v.finished = s.finished /\ v.done = s.done /\ v.terminalSent = s.terminalSent
  BY <1>1, <1>4 DEF ChatFields, BaseFields, Chat!Advance
<1> HIDE DEF v, x
<1>6. CASE s.started
  BY <1>3, <1>6
<1>7. CASE ~s.started
  <2>1. ChatSame(t, v) /\ t.said = s.said \o <<x>>
    BY <1>3, <1>5, <1>7, ChatSaysAny
  <2>2. Never(t.said, EndEvents)
    BY <1>1, <1>2, <2>1, NeverAppended DEF RespondGoing, EndEvents
  <2>3. /\ t.held = s.held /\ t.started /\ t.finished = s.finished /\ t.done = s.done
        /\ t.terminalSent = s.terminalSent
    BY <1>5, <1>7, <2>1 DEF ChatSame
  <2> QED
    BY <2>2, <2>3 DEF RespondGoing
<1> QED
  BY <1>6, <1>7

(* The finish reason is held back.                                         *)
LEMMA RespondHolds ==
  ASSUME NEW s, RespondInv(s), NEW u, RespondGoing(s, u), s.started, ~s.finished,
         NEW finish \in {"none", "stop", "length"}, finish # "none" => u.finish # "none",
         NEW t, t = Chat!RespondFinish(s, finish)
  PROVE  RespondGoing(t, u) /\ t.done = s.done
<1>1. DOMAIN s = ChatFields
  BY DEF RespondInv, ChatInv, ChatHalf, ChatTyped
<1>2. CASE finish = "none"
  BY <1>2 DEF Chat!RespondFinish
<1>3. CASE finish # "none" /\ ~Chat!ToolsWellFormed(s)
  <2>1. t = Chat!Fail(s)
    BY <1>3 DEF Chat!RespondFinish
  <2>2. Rests(t, s)
    BY <1>1, <2>1, RestsOn
  <2> QED
    BY <2>2, RespondRests DEF Rests
<1>4. CASE finish # "none" /\ Chat!ToolsWellFormed(s)
  <2> DEFINE f == Chat!FinishTools(s)
             g == Chat!Finish(f)
             r == [g EXCEPT !.held = finish]
  <2>1. t = Chat!CloseThinking(r)
    BY <1>4 DEF Chat!RespondFinish
  <2>2. RespondInv(f) /\ Flows(f, s)
    BY FinishesTools, FlowsNowhere, FinishesToolsOn DEF RespondInv
  <2>3. DOMAIN f = ChatFields /\ Common(f) /\ ChatTyped(f)
    BY <2>2 DEF RespondInv, ChatInv, ChatHalf, ChatTyped
  <2>4. RespondGoing(f, u) /\ f.started /\ ~f.finished /\ f.done = s.done
    BY <2>2, RespondFlows DEF Flows
  <2> HIDE DEF f
  <2>a. ChatLike(g, f)
    BY <2>2, ChatProgress DEF RespondInv
  <2>b. g.finished /\ g.terminalSent = f.terminalSent /\ g.done = f.done /\ g.started = f.started
    BY <2>3, <2>4 DEF ChatFields, BaseFields, Chat!Finish, Chat!Advance
  <2>c. RespondInv(g)
    BY <2>2, <2>a, RespondKeeps
  <2> HIDE DEF g
  <2>d. DOMAIN g = ChatFields /\ Common(g) /\ ChatTyped(g)
    BY <2>c DEF RespondInv, ChatInv, ChatHalf, ChatTyped
  <2>e. ChatLike(r, g)
    BY <1>4, <2>d DEF Common, ChatTyped, ChatFields, BaseFields, ChatLike
  <2>f. /\ r.finished = g.finished /\ r.held = finish /\ r.terminalSent = g.terminalSent
        /\ r.done = g.done /\ r.started = g.started
    BY <2>d DEF ChatFields, BaseFields
  <2>5. /\ ChatLike(r, f) /\ r.finished /\ r.held = finish
        /\ r.terminalSent = f.terminalSent /\ r.done = f.done /\ r.started = f.started
        /\ r.said = f.said
    <3> HIDE DEF r
    <3>1. ChatLike(r, f)
      BY <2>2, <2>a, <2>e, ChatStays DEF RespondInv
    <3>2. r.said = f.said
      BY <3>1 DEF ChatLike
    <3> QED
      BY <2>b, <2>f, <3>1, <3>2
  <2> HIDE DEF r
  <2>6. RespondInv(r)
    BY <2>2, <2>5, RespondKeeps
  <2>7. RespondGoing(r, u)
    BY <1>4, <2>4, <2>5 DEF RespondGoing
  <2>8. Flows(t, r)
    BY <2>1, <2>6, FlowsNowhere, ClosesOn DEF RespondInv
  <2> QED
    BY <2>4, <2>5, <2>7, <2>8, RespondFlows DEF Flows
<1> QED
  BY <1>2, <1>3, <1>4

(* A chunk's choice. After response.completed it brings nothing, as the    *)
(* finish reason has been heard.                                           *)
LEMMA RespondChoosesOn ==
  ASSUME NEW s, RespondInv(s), NEW u, RespondOpen(s, u), s.held = "none",
         NEW l, Chat!IsLine(l), l.kind = "chunk", s.finished => ~Chat!Brings(l),
         l.finish # "none" => u.finish # "none",
         NEW t, t = Chat!RespondChoice(s, l)
  PROVE  RespondOpen(t, u) /\ t.done = s.done
<1> DEFINE s1 == Chat!RespondStart(s)
           s2 == IF l.think THEN Chat!RespondThinking(s1) ELSE s1
           s3 == IF l.text THEN Chat!RespondText(s2) ELSE s2
           s4 == Chat!RespondCalls(s3, l.calls)
           a == Chat!AdvanceIf(s4, l.finish = "none" /\ (~s.started \/ Chat!Brings(l)))
<1>1. /\ {l.choice, l.think, l.text} \subseteq BOOLEAN
      /\ l.calls \in Seq(Chat!Calls) /\ l.finish \in {"none", "stop", "length"}
  BY DEF Chat!IsLine
<1>2. t = Chat!RespondFinish(a, l.finish)
  BY DEF Chat!RespondChoice
<1>3. RespondInv(s1)
  BY RespondStarts
<1>4. a = s4 \/ a = Chat!Advance(s4)
  BY DEF Chat!AdvanceIf
<1>5. CASE RespondEnded(s) /\ s.finished /\ s.started /\ u.finish # "none"
  <2>1. ~l.think /\ ~l.text /\ l.calls = <<>>
    BY <1>5 DEF Chat!Brings
  <2>2. s1 = s
    BY <1>5 DEF Chat!RespondStart
  <2> HIDE DEF s1
  <2>3. s4 = s
    BY <2>1, <2>2, NoCalls
  <2> HIDE DEF s4
  <2>4. DOMAIN s = ChatFields
    BY DEF RespondInv, ChatInv, ChatHalf, ChatTyped
  <2>5. Rests(a, s)
    BY <2>3, <2>4, RestsOn
  <2> HIDE DEF a
  <2>6. a.finished
    BY <1>5, <2>5 DEF Rests
  <2>7. t = a
    BY <1>2, <2>6 DEF Chat!RespondFinish
  <2> QED
    BY <2>5, <2>7, RespondRests DEF Rests
<1>6. CASE RespondGoing(s, u)
  <2>1. /\ RespondGoing(s1, u) /\ s1.started
        /\ s1.finished = s.finished /\ s1.held = s.held /\ s1.done = s.done
    BY <1>6, RespondStartsOn
  <2>2. ~s.finished
    BY <1>6 DEF RespondGoing
  <2> HIDE DEF s1
  <2>3. Flows(s1, s1)
    BY <1>3, FlowsNowhere DEF RespondInv
  <2>4. RespondInv(s2) /\ Flows(s2, s1)
    BY <1>3, <2>3, RespondThinks, RespondThinksOn
  <2> HIDE DEF s2
  <2>5. RespondInv(s3) /\ Flows(s3, s1)
    BY <2>4, RespondTexts, RespondThinksOn
  <2> HIDE DEF s3
  <2>6. RespondInv(s4) /\ Flows(s4, s1)
    BY <1>1, <2>5, RespondCallsAll, RespondCallsOn
  <2> HIDE DEF s4
  <2>7. RespondGoing(s4, u)
    BY <2>1, <2>6, RespondFlows
  <2>8. DOMAIN s4 = ChatFields
    BY <2>6 DEF Flows
  <2>9. RespondInv(a) /\ Rests(a, s4)
    BY <1>4, <2>6, <2>8, ChatProgress, RespondKeeps, RestsOn DEF RespondInv
  <2> HIDE DEF a
  <2>10. RespondGoing(a, u)
    BY <2>7, <2>9, RespondRests
  <2>11. a.started /\ ~a.finished /\ a.done = s.done
    BY <2>1, <2>2, <2>6, <2>9 DEF Flows, Rests
  <2>12. RespondGoing(t, u) /\ t.done = a.done
    BY <1>1, <1>2, <2>9, <2>10, <2>11, RespondHolds
  <2> QED
    BY <2>11, <2>12 DEF RespondOpen
<1> QED
  BY <1>5, <1>6 DEF RespondOpen

(* A usage record does not fail.                                           *)
LEMMA UsageFails ==
  ASSUME NEW s, DOMAIN s = ChatFields, NEW l
  PROVE  Chat!NoteUsage(s, l).failed = s.failed
<1> DEFINE v == [s EXCEPT !.usage = l.usage]
<1>1. DOMAIN v = ChatFields /\ v.failed = s.failed
  BY DEF ChatFields, BaseFields
<1> HIDE DEF v
<1>2. Chat!Advance(v).failed = s.failed
  BY <1>1 DEF ChatFields, BaseFields, Chat!Advance
<1> QED
  BY <1>2 DEF Chat!NoteUsage, v

(* A line of a Responses stream.                                           *)
LEMMA RespondLinesOn ==
  ASSUME NEW s, RespondInv(s), NEW u, RespondOpen(s, u), ~s.done,
         NEW l, Chat!IsLine(l), Chat!MayFollow(u, l),
         NEW t, t = Chat!ResponsesLine(s, l)
  PROVE  /\ EndLast(t.said, "openai-response")
         /\ ~t.done /\ ~t.failed => RespondOpen(t, Chat!Heard(u, l))
         /\ t.done => WholeEnd(t, "chat")
<1> DEFINE v == Chat!Heard(u, l)
<1>1. DOMAIN s = ChatFields
  BY DEF RespondInv, ChatInv, ChatHalf, ChatTyped
<1>2. /\ u.finish # "none" => v.finish # "none"
      /\ l.kind = "chunk" /\ l.finish # "none" => v.finish # "none"
  BY ChatHears
<1> HIDE DEF v
<1>3. RespondOpen(s, v)
  BY <1>2, RespondHears
<1>4. CASE l.kind = "error"
  <2>1. t = Chat!Fail(s)
    BY <1>4 DEF Chat!ResponsesLine
  <2>2. Rests(t, s)
    BY <1>1, <2>1, RestsOn
  <2>3. RespondOpen(t, v) /\ ~t.done
    BY <1>3, <2>2, RespondRests DEF Rests
  <2> QED
    BY <2>3, RespondEndLast DEF v
<1>5. CASE l.kind = "done"
  <2> DEFINE c == Chat!CloseThinking(s)
             r == Chat!RespondTerminal(c, TRUE)
             d == Chat!Advance([r EXCEPT !.done = TRUE])
  <2>1. t = IF r.failed THEN r ELSE d
    BY <1>5 DEF Chat!ResponsesLine
  <2>2. RespondInv(c) /\ c.sourceFormat = "openai-response"
    BY ClosesThinking DEF RespondInv, After
  <2>3. c.done = s.done /\ (RespondGoing(c, u) \/ RespondEnded(c))
    <3>1. CASE RespondGoing(s, u)
      <4>1. Flows(c, s)
        BY FlowsNowhere, ClosesOn DEF RespondInv
      <4> HIDE DEF c
      <4> QED
        BY <3>1, <4>1, RespondFlows DEF Flows
    <3>2. CASE RespondEnded(s)
      <4>1. c = s
        BY <3>2, RespondNotThinking
      <4> HIDE DEF c
      <4> QED
        BY <3>2, <4>1
    <3> QED
      BY <3>1, <3>2 DEF RespondOpen
  <2>4. DOMAIN c = ChatFields
    BY <2>2 DEF RespondInv, ChatInv, ChatHalf, ChatTyped
  <2> HIDE DEF c
  <2>5. RespondInv(r)
    BY <2>2, RespondTerminates
  <2>6. r = Chat!Fail(c) \/ RespondEnded(r)
    BY <2>2, <2>3, RespondCompletes, RespondCompleted
  <2>7. DOMAIN r = ChatFields /\ r.sourceFormat = "openai-response"
    BY <2>5 DEF RespondInv, ChatInv, ChatHalf, ChatTyped
  <2> HIDE DEF r
  <2>8. CASE r.failed
    <3>1. t = r
      BY <2>1, <2>8
    <3>2. CASE RespondEnded(r)
      <4>1. EndLast(t.said, "openai-response") /\ WholeEnd(t, "chat")
        BY <2>5, <3>1, <3>2, RespondEndsWhole DEF RespondEnded
      <4> QED
        BY <2>8, <3>1, <4>1
    <3>3. CASE r = Chat!Fail(c)
      <4>1. r.said = c.said /\ r.done = c.done
        BY <2>4, <3>3, RestsOn DEF Rests
      <4>2. EndLast(c.said, "openai-response")
        BY <2>3, NoEndYet DEF RespondGoing, RespondEnded
      <4> QED
        BY <2>3, <2>8, <3>1, <4>1, <4>2
    <3> QED
      BY <2>6, <3>2, <3>3
  <2>9. CASE ~r.failed
    <3>1. RespondEnded(r)
      BY <2>4, <2>6, <2>9 DEF Chat!Fail, ChatFields, BaseFields
    <3>2. t = d
      BY <2>1, <2>9
    <3>3. t.said = r.said /\ t.sourceFormat = r.sourceFormat /\ t.finished = r.finished /\ t.done
      BY <2>7, <3>2 DEF Chat!Advance, ChatFields, BaseFields
    <3>4. WholeEnd(r, "chat") /\ EndLast(r.said, "openai-response")
      BY <2>5, <3>1, RespondEndsWhole DEF RespondEnded
    <3> HIDE DEF d
    <3>5. WholeEnd(t, "chat")
      BY <3>3, <3>4 DEF WholeEnd
    <3> QED
      BY <3>3, <3>4, <3>5
  <2> QED
    BY <2>8, <2>9
<1>6. CASE l.kind = "chunk"
  <2> DEFINE r == Chat!RespondTerminal(s, FALSE)
             b == Chat!NoteUsage(r, l)
  <2>1. t = IF ~b.failed /\ l.choice THEN Chat!RespondChoice(b, l) ELSE b
    BY <1>6 DEF Chat!ResponsesLine
  <2>2. RespondInv(r)
    BY RespondTerminates
  <2>3. \/ r = Chat!Fail(s)
        \/ RespondOpen(r, u) /\ r.held = "none" /\ r.done = s.done
    <3>1. CASE RespondGoing(s, u)
      <4>1. \/ r = s /\ s.held = "none"
            \/ r = Chat!Fail(s)
            \/ /\ RespondEnded(r) /\ s.held # "none"
               /\ r.started = s.started /\ r.finished = s.finished /\ r.done = s.done
        BY <3>1, RespondCompletes
      <4>2. s.held # "none" => s.finished /\ s.started /\ u.finish # "none"
        BY <3>1 DEF RespondGoing
      <4> HIDE DEF r
      <4>3. RespondEnded(r) => r.held = "none"
        BY DEF RespondEnded
      <4> QED
        BY <3>1, <4>1, <4>2, <4>3 DEF RespondOpen
    <3>2. CASE RespondEnded(s)
      <4>1. r = s /\ s.held = "none"
        BY <3>2, RespondCompleted DEF RespondEnded
      <4> HIDE DEF r
      <4> QED
        BY <4>1
    <3> QED
      BY <3>1, <3>2 DEF RespondOpen
  <2>4. DOMAIN r = ChatFields
    BY <2>2 DEF RespondInv, ChatInv, ChatHalf, ChatTyped
  <2> HIDE DEF r
  <2>5. l.usage \in Nat
    BY <1>6 DEF Chat!IsLine
  <2>6. RespondInv(b)
    BY <2>2, <2>5, ChatNotesUsage, RespondKeeps DEF RespondInv
  <2>7. Rests(b, r) /\ b.failed = r.failed
    BY <2>4, RestsOn, UsageFails
  <2> HIDE DEF b
  <2>8. CASE r = Chat!Fail(s)
    <3>1. b.failed
      BY <1>1, <2>7, <2>8 DEF Chat!Fail, ChatFields, BaseFields
    <3>2. t = b
      BY <2>1, <3>1
    <3>3. Rests(r, s)
      BY <1>1, <2>8, RestsOn
    <3>4. t.said = s.said /\ t.done = s.done
      BY <2>7, <3>2, <3>3 DEF Rests
    <3>5. EndLast(s.said, "openai-response")
      BY RespondEndLast
    <3> QED
      BY <3>1, <3>2, <3>4, <3>5
  <2>9. CASE RespondOpen(r, u) /\ r.held = "none" /\ r.done = s.done
    <3>1. RespondOpen(b, u) /\ b.held = "none" /\ ~b.done
      BY <2>7, <2>9, RespondRests DEF Rests
    <3>2. RespondOpen(b, v)
      BY <1>2, <3>1, RespondHears
    <3>3. b.finished => ~Chat!Brings(l)
      BY <1>6, <3>1 DEF Chat!MayFollow, RespondOpen, RespondGoing
    <3>4. RespondOpen(t, v) /\ ~t.done
      <4>1. CASE t = b
        BY <3>1, <3>2, <4>1
      <4>2. CASE t = Chat!RespondChoice(b, l)
        BY <1>2, <1>6, <2>6, <3>1, <3>2, <3>3, <4>2, RespondChoosesOn
      <4> QED
        BY <2>1, <4>1, <4>2
    <3>5. EndLast(t.said, "openai-response")
      BY <3>4, RespondEndLast
    <3> QED
      BY <3>4, <3>5 DEF v
  <2> QED
    BY <2>3, <2>8, <2>9
<1> QED
  BY <1>4, <1>5, <1>6 DEF Chat!IsLine

(* The end without [DONE]: synthetic at the end of the upstream stream, of *)
(* a finish reason after the grace.                                        *)
LEMMA RespondFlushesWhole ==
  ASSUME NEW s, RespondInv(s), NEW u, RespondOpen(s, u),
         NEW synthetic \in BOOLEAN, synthetic \/ s.finished,
         NEW t, t = Chat!RespondTerminal(s, synthetic)
  PROVE  EndLast(t.said, "openai-response") /\ (t.failed \/ WholeEnd(t, "chat"))
<1>1. RespondInv(t) /\ t.sourceFormat = "openai-response"
  BY RespondTerminates DEF RespondInv
<1>2. DOMAIN s = ChatFields
  BY DEF RespondInv, ChatInv, ChatHalf, ChatTyped
<1>3. t = Chat!Fail(s) \/ RespondEnded(t)
  <2>1. CASE RespondGoing(s, u)
    <3>1. synthetic \/ s.held # "none"
      BY <2>1 DEF RespondGoing
    <3> QED
      BY <2>1, <3>1, RespondCompletes
  <2>2. CASE RespondEnded(s)
    BY <2>2, RespondCompleted
  <2> QED
    BY <2>1, <2>2 DEF RespondOpen
<1>4. CASE t = Chat!Fail(s)
  <2>1. t.failed /\ t.said = s.said
    BY <1>2, <1>4 DEF Chat!Fail, ChatFields, BaseFields
  <2> QED
    BY <2>1, RespondEndLast
<1>5. CASE RespondEnded(t)
  BY <1>1, <1>5, RespondEndsWhole
<1> QED
  BY <1>3, <1>4, <1>5
-----------------------------------------------------------------------------
(* A Chat Completions stream that is open, for its three formats.          *)
ChatOpen(s, u) ==
  /\ s.sourceFormat = "openai" => Never(s.said, EndEvents)
  /\ s.sourceFormat = "claude" =>
       ClaudeOpen(s, u) /\ ~s.terminalSeen /\ EndLast(s.said, "claude")
  /\ s.sourceFormat = "openai-response" => RespondOpen(s, u)

(* What is passed on raw has no events of an end.                          *)
Passes(t, s) == DOMAIN t = ChatFields /\ t.said = s.said /\ t.done = s.done

(* What is done besides passing a payload on tells nothing.                *)
LEMMA PassesOn ==
  ASSUME NEW s, NEW r, Passes(r, s), NEW l
  PROVE  /\ Passes(Chat!StateStart(r), s) /\ Passes(Chat!NoteUsage(r, l), s)
         /\ Passes(Chat!Finish(r), s) /\ Passes(Chat!Advance(r), s)
         /\ \A call : Passes(Chat!PassCall(r, call), s)
<1>1. ASSUME NEW q, Passes(q, s) PROVE Passes(Chat!Advance(q), s)
  BY <1>1 DEF Passes, ChatFields, BaseFields, Chat!Advance
<1>2. Passes(Chat!StateStart(r), s)
  <2> DEFINE v == [r EXCEPT !.started = TRUE]
  <2>1. Passes(v, s)
    BY DEF Passes, ChatFields, BaseFields
  <2> HIDE DEF v
  <2> QED
    BY <1>1, <2>1 DEF Chat!StateStart, v
<1>3. Passes(Chat!Finish(r), s)
  <2> DEFINE v == [r EXCEPT !.finished = TRUE]
  <2>1. Passes(v, s)
    BY DEF Passes, ChatFields, BaseFields
  <2> HIDE DEF v
  <2> QED
    BY <1>1, <2>1 DEF Chat!Finish, v
<1>4. Passes(Chat!NoteUsage(r, l), s)
  <2> DEFINE v == [r EXCEPT !.usage = l.usage]
  <2>1. Passes(v, s)
    BY DEF Passes, ChatFields, BaseFields
  <2> HIDE DEF v
  <2> QED
    BY <1>1, <2>1 DEF Chat!NoteUsage, v
<1>5. ASSUME NEW i, NEW t PROVE Passes(Chat!WithTool(r, i, t), s)
  BY WithToolPuts DEF Passes, Put
<1>6. ASSUME NEW call PROVE Passes(Chat!PassCall(r, call), s)
  BY <1>5 DEF Chat!PassCall
<1> QED
  BY <1>1, <1>2, <1>3, <1>4, <1>6

(* Nor do the calls of a chunk that is passed on.                          *)
LEMMA PassCallsOn ==
  ASSUME NEW r, NEW s, Passes(r, s), NEW calls \in Seq(Chat!Calls)
  PROVE  Passes(Chat!PassCalls(r, calls), s)
<1> DEFINE N == Len(calls)
<1>1. N \in Nat
  OBVIOUS
<1>2. PICK f : IsLoop(f, N, "PassCalls", calls, r) /\ Chat!PassCalls(r, calls) = f[N]
  BY PassCallsRuns
<1> DEFINE T == {n \in 0..N : Passes(f[n], s)}
<1> HIDE DEF N
<1>3. 0 \in T
  BY <1>1, <1>2 DEF IsLoop
<1>4. ASSUME NEW n \in 0..N, n \in T, n + 1 <= N
      PROVE  n + 1 \in T
  <2>1. n + 1 \in 1..N /\ (n + 1) - 1 = n /\ n + 1 \in 0..N
    BY <1>1, <1>4
  <2>2. f[n + 1] = Chat!PassCall(f[n], calls[n + 1])
    BY <1>2, <2>1 DEF IsLoop, Round
  <2>3. Passes(f[n + 1], s)
    BY <1>4, <2>2, PassesOn
  <2> QED
    BY <2>1, <2>3
<1> HIDE DEF T
<1>5. 0..N \subseteq T
  BY <1>1, <1>3, <1>4, BoundedInduction
<1> QED
  BY <1>1, <1>2, <1>5 DEF T

(* A line that is passed on is no event of an end.                         *)
LEMMA PassesLine ==
  ASSUME NEW s, OpenaiInv(s), ~s.done, Never(s.said, EndEvents), NEW l, Chat!IsLine(l),
         NEW t, t = Chat!PassthroughLine(s, l)
  PROVE  Never(t.said, EndEvents)
<1> DEFINE x == Chat!Named("raw")
<1>1. DOMAIN s = ChatFields /\ IsASequence(s.said)
  BY LawfulFacts DEF OpenaiInv, ChatInv, ChatHalf, ChatTyped, Common
<1>2. x.ev = "raw"
  BY DEF Chat!Named
<1>3. ASSUME NEW q, Passes(q, s) PROVE Never(Chat!Say(q, <<x>>).said, EndEvents)
  <2>1. Chat!Say(q, <<x>>).said = s.said \o <<x>>
    BY <1>3, ChatSaysAny DEF Passes
  <2> HIDE DEF x
  <2> QED
    BY <1>1, <1>2, <2>1, NeverAppended DEF EndEvents
<1>4. Passes(s, s)
  BY <1>1 DEF Passes
<1>5. CASE l.kind = "error"
  <2>1. t = Chat!Say(s, <<x>>)
    BY <1>5 DEF Chat!PassthroughLine
  <2> QED
    BY <1>3, <1>4, <2>1
<1>6. CASE l.kind = "done"
  <2>1. t = Chat!Ended(s) \/ t = Chat!Fail(s)
    BY <1>6 DEF Chat!PassthroughLine
  <2>2. t.said = s.said
    BY <1>1, <2>1 DEF Chat!Fail, Chat!Ended, Chat!Terminal, Chat!Advance, ChatFields, BaseFields
  <2> QED
    BY <2>2
<1>7. CASE l.kind = "chunk"
  <2> DEFINE a  == IF l.choice THEN Chat!StateStart(s) ELSE s
             s1 == Chat!NoteUsage(a, l)
             s2 == Chat!AdvanceIf(s1, Chat!Brings(l))
             s3 == IF l.finish # "none" THEN Chat!Finish(s2) ELSE s2
             s4 == Chat!PassCalls(s3, l.calls)
  <2>1. t = Chat!Say(s4, <<x>>)
    BY <1>7 DEF Chat!PassthroughLine
  <2>2. l.calls \in Seq(Chat!Calls)
    BY <1>7 DEF Chat!IsLine
  <2>3. Passes(a, s)
    BY <1>4, PassesOn
  <2> HIDE DEF a
  <2>4. Passes(s1, s)
    BY <2>3, PassesOn
  <2>5. s2 = s1 \/ s2 = Chat!Advance(s1)
    BY DEF Chat!AdvanceIf
  <2> HIDE DEF s1
  <2>6. Passes(s2, s)
    BY <2>4, <2>5, PassesOn
  <2> HIDE DEF s2
  <2>7. Passes(s3, s)
    BY <2>6, PassesOn
  <2> HIDE DEF s3
  <2>8. Passes(s4, s)
    BY <2>2, <2>7, PassCallsOn
  <2> HIDE DEF s4, x
  <2> QED
    BY <1>3, <2>1, <2>8
<1> QED
  BY <1>5, <1>6, <1>7 DEF Chat!IsLine

-----------------------------------------------------------------------------
(* A line of any Chat Completions stream, and its end.                     *)
(* An open Chat Completions stream has nothing after its end.              *)
LEMMA ChatEndLast ==
  ASSUME NEW s, s.sourceFormat \in Formats, NEW u, ChatOpen(s, u)
  PROVE  EndLast(s.said, s.sourceFormat)
BY NoEndYet, RespondEndLast DEF ChatOpen, Formats

(* A line of a Chat Completions stream: it is open after it, or done and   *)
(* told whole.                                                             *)
LEMMA ChatWhole ==
  ASSUME NEW s, ChatInv(s), ~s.done, NEW u, ChatOpen(s, u),
         NEW l, Chat!IsLine(l), Chat!MayFollow(u, l),
         NEW t, t = Chat!HandleLine(s, l), ~t.failed
  PROVE  /\ EndLast(t.said, t.sourceFormat)
         /\ ~t.done => ChatOpen(t, Chat!Heard(u, l))
         /\ t.done /\ t.sourceFormat # "openai" => WholeEnd(t, "chat")
<1>1. s.sourceFormat \in Formats
  BY DEF ChatInv, ChatHalf, Common
<1>2. CASE s.sourceFormat = "openai"
  <2>1. t = Chat!PassthroughLine(s, l) /\ OpenaiInv(s)
    BY <1>2 DEF Chat!HandleLine, OpenaiInv
  <2>2. OpenaiInv(t)
    BY <2>1, OpenaiLines
  <2>3. Never(t.said, EndEvents)
    BY <1>2, <2>1, PassesLine DEF ChatOpen
  <2> QED
    BY <2>2, <2>3, NoEndYet DEF ChatOpen, OpenaiInv
<1>3. CASE s.sourceFormat = "claude"
  <2>1. t = Chat!ClaudeLine(s, l) /\ ClaudeInv(s)
    BY <1>3 DEF Chat!HandleLine, ClaudeInv
  <2>2. ClaudeInv(t)
    BY <2>1, ClaudeLines
  <2>3. /\ EndLast(t.said, "claude")
        /\ ~t.done => ClaudeOpen(t, Chat!Heard(u, l)) /\ ~t.terminalSeen
        /\ t.done => WholeEnd(t, "chat")
    BY <1>3, <2>1, ClaudeLinesOn DEF ChatOpen
  <2> QED
    BY <2>2, <2>3 DEF ChatOpen, ClaudeInv
<1>4. CASE s.sourceFormat = "openai-response"
  <2>1. t = Chat!ResponsesLine(s, l) /\ RespondInv(s)
    BY <1>4 DEF Chat!HandleLine, RespondInv
  <2>2. RespondInv(t)
    BY <2>1, RespondLines
  <2>3. /\ EndLast(t.said, "openai-response")
        /\ ~t.done => RespondOpen(t, Chat!Heard(u, l))
        /\ t.done => WholeEnd(t, "chat")
    BY <1>4, <2>1, RespondLinesOn DEF ChatOpen
  <2> QED
    BY <2>2, <2>3 DEF ChatOpen, RespondInv
<1> QED
  BY <1>1, <1>2, <1>3, <1>4 DEF Formats

(* FlushWithError at any time and FinalizeStream after a finish reason     *)
(* fail or tell the whole end.                                             *)
LEMMA ChatFlushesWhole ==
  ASSUME NEW s, ChatInv(s), NEW u, ChatOpen(s, u),
         NEW t, t = Chat!FlushWithError(s) \/ (t = Chat!FinalizeStream(s) /\ s.finished),
         ~t.failed
  PROVE  /\ EndLast(t.said, t.sourceFormat)
         /\ t.sourceFormat # "openai" => WholeEnd(t, "chat")
<1>1. s.sourceFormat \in Formats /\ DOMAIN s = ChatFields /\ ChatInv(t)
  BY ChatEnds DEF ChatInv, ChatHalf, ChatTyped, Common
<1>2. CASE s.sourceFormat = "openai"
  <2>1. t \in {s, Chat!Fail(s), Chat!Terminal(s)}
    BY <1>2 DEF Chat!FlushWithError, Chat!FinalizeStream, Chat!Flush
  <2>2. t.said = s.said /\ t.sourceFormat = s.sourceFormat
    BY <1>1, <2>1 DEF Chat!Fail, Chat!Terminal, Chat!Advance, ChatFields, BaseFields
  <2> QED
    BY <1>2, <2>2, NoEndYet DEF ChatOpen
<1>3. CASE s.sourceFormat = "claude"
  <2>1. t = Chat!FinalizeStream(s) /\ ClaudeInv(s)
    BY <1>3 DEF Chat!FlushWithError, ClaudeInv
  <2>2. EndLast(t.said, "claude") /\ WholeEnd(t, "chat")
    BY <1>3, <2>1, ClaudeFlushesWhole DEF ChatOpen
  <2>3. t.sourceFormat = "claude"
    <3>1. CASE t = Chat!Fail(s)
      BY <1>1, <1>3, <3>1 DEF Chat!Fail, ChatFields, BaseFields
    <3>2. CASE t # Chat!Fail(s)
      <4> DEFINE r == Chat!Flush(s)
      <4>1. t = s \/ t = Chat!Terminal(r)
        BY <1>3, <2>1, <3>2 DEF Chat!FinalizeStream
      <4>2. ClaudeInv(r)
        BY <2>1, ClaudeFlushes
      <4> HIDE DEF r
      <4>3. ClaudeInv(Chat!Terminal(r))
        BY <4>2, ChatProgress, ClaudeKeeps DEF ClaudeInv
      <4> QED
        BY <1>3, <4>1, <4>3 DEF ClaudeInv
    <3> QED
      BY <3>1, <3>2
  <2> QED
    BY <2>2, <2>3
<1>4. CASE s.sourceFormat = "openai-response"
  <2>1. PICK synthetic \in BOOLEAN :
          (synthetic \/ s.finished) /\ t = Chat!RespondTerminal(s, synthetic)
    BY <1>4 DEF Chat!FlushWithError, Chat!FinalizeStream
  <2>2. RespondInv(s)
    BY <1>4 DEF RespondInv
  <2>3. EndLast(t.said, "openai-response") /\ WholeEnd(t, "chat")
    BY <1>4, <2>1, <2>2, RespondFlushesWhole DEF ChatOpen
  <2>4. t.sourceFormat = "openai-response"
    BY <2>1, <2>2, RespondTerminates DEF RespondInv
  <2> QED
    BY <2>3, <2>4
<1> QED
  BY <1>1, <1>2, <1>3, <1>4 DEF Formats

(* A client that was told nothing was told no end.                         *)
LEMMA NothingEnds ==
  ASSUME NEW w, w = <<>>
  PROVE  /\ Never(w, EndEvents) /\ Never(w, {"message_stop", "finish", "completed"})
         /\ \A ev : ~Ever(w, ev)
BY DEF Never, Ever

(* A new converter of the Chat Completions adapter.                        *)
LEMMA ChatStartsOpen ==
  ASSUME NEW f \in Formats, NEW u
  PROVE  ChatOpen(Chat!Fresh(f), u)
<1> DEFINE s == Chat!Fresh(f)
<1>1. /\ s.finished = FALSE /\ s.terminalSeen = FALSE /\ s.said = <<>>
      /\ s.held = "none" /\ s.terminalSent = FALSE
  BY DEF Chat!Fresh, Chat!With, Chat!Base
<1> HIDE DEF s
<1>2. /\ Never(s.said, EndEvents) /\ Never(s.said, {"message_stop", "finish", "completed"})
      /\ ~Ever(s.said, "message_delta")
  BY <1>1, NothingEnds
<1>3. EndLast(s.said, "claude")
  BY <1>2, NoEndYet
<1>4. ClaudeOpen(s, u)
  BY <1>1, <1>2 DEF ClaudeOpen
<1>5. RespondOpen(s, u)
  BY <1>1, <1>2 DEF RespondOpen, RespondGoing
<1> QED
  BY <1>1, <1>2, <1>3, <1>4, <1>5 DEF ChatOpen, s
-----------------------------------------------------------------------------
(* A Messages stream that is open, for its three formats.                  *)
MessagesOpen(s, u) ==
  /\ s.sourceFormat = "openai" =>
       Awaits(s, u) /\ FinishTold(s, u) /\ EndLast(s.said, "openai")
  /\ s.sourceFormat = "claude" => Awaits(s, u) /\ Never(s.said, EndEvents)
  /\ s.sourceFormat = "openai-response" => ItemsOpen(s, u)

(* A frame of a Messages stream.                                           *)
LEMMA MessagesWhole ==
  ASSUME NEW s, MessagesInv(s), ~s.done, NEW u, UpTyped(u), MessagesOpen(s, u),
         NEW l, Messages!IsLine(l), Messages!MayFollow(u, l),
         s.sourceFormat = "openai-response" /\ l.kind = "block_delta" /\ l.type = "text" =>
           s.message # Closed,
         NEW t, t = Messages!HandleLine(s, l), ~t.failed
  PROVE  /\ EndLast(t.said, t.sourceFormat)
         /\ ~t.done => MessagesOpen(t, Messages!Heard(u, l))
         /\ t.done /\ t.sourceFormat # "claude" => WholeEnd(t, "messages")
<1> DEFINE v == Messages!Heard(u, l)
<1>1. s.sourceFormat \in Formats
  BY DEF MessagesInv, MessagesHalf, Common
<1>2. CASE s.sourceFormat = "openai"
  <2>1. /\ t.sourceFormat = "openai" /\ EndLast(t.said, "openai")
        /\ ~t.done => Awaits(t, v) /\ FinishTold(t, v)
        /\ t.done => WholeEnd(t, "messages")
    BY <1>2, MessagesWholeOpenAI DEF MessagesOpen
  <2> HIDE DEF v
  <2>2. ~t.done => MessagesOpen(t, v)
    BY <2>1 DEF MessagesOpen
  <2> QED
    BY <2>1, <2>2 DEF v
<1>3. CASE s.sourceFormat = "claude"
  <2>1. /\ t.sourceFormat = "claude"
        /\ Never(t.said, EndEvents) /\ EndLast(t.said, "claude")
        /\ ~t.done => Awaits(t, v)
    BY <1>3, MessagesWholeClaude DEF MessagesOpen
  <2> HIDE DEF v
  <2>2. ~t.done => MessagesOpen(t, v)
    BY <2>1 DEF MessagesOpen
  <2> QED
    BY <2>1, <2>2 DEF v
<1>4. CASE s.sourceFormat = "openai-response"
  <2>1. /\ t.sourceFormat = "openai-response" /\ EndLast(t.said, "openai-response")
        /\ ~t.done => ItemsOpen(t, v)
        /\ t.done => WholeEnd(t, "messages")
    BY <1>4, MessagesWholeResponses DEF MessagesOpen
  <2> HIDE DEF v
  <2>2. ~t.done => MessagesOpen(t, v)
    BY <2>1 DEF MessagesOpen
  <2> QED
    BY <2>1, <2>2 DEF v
<1> QED
  BY <1>1, <1>2, <1>3, <1>4 DEF Formats

(* Its end without message_stop.                                           *)
LEMMA MessagesEndsWhole ==
  ASSUME NEW s, MessagesInv(s), NEW u, UpTyped(u), MessagesOpen(s, u),
         NEW t, t = Messages!FinalizeStream(s), ~t.failed
  PROVE  /\ EndLast(t.said, t.sourceFormat)
         /\ t.sourceFormat # "claude" => WholeEnd(t, "messages")
<1>1. s.sourceFormat \in Formats
  BY DEF MessagesInv, MessagesHalf, Common
<1>2. CASE s.sourceFormat = "openai"
  <2>1. u.finish /\ t.said = s.said /\ t.sourceFormat = s.sourceFormat
    BY <1>2, MessagesWholeEnds DEF MessagesOpen
  <2>2. Ever(t.said, "finish") /\ EndLast(t.said, "openai")
    BY <1>2, <2>1 DEF MessagesOpen, FinishTold
  <2>3. WholeEnd(t, "messages")
    BY <1>2, <2>1, <2>2 DEF WholeEnd
  <2> QED
    BY <1>2, <2>1, <2>2, <2>3
<1>3. CASE s.sourceFormat = "claude"
  <2>1. t.said = s.said /\ t.sourceFormat = s.sourceFormat
    BY <1>3, MessagesWholeEnds DEF MessagesOpen
  <2> QED
    BY <1>3, <2>1, NoEndYet DEF MessagesOpen
<1>4. CASE s.sourceFormat = "openai-response"
  BY <1>4, MessagesFlushesWhole DEF MessagesOpen
<1> QED
  BY <1>1, <1>2, <1>3, <1>4 DEF Formats

(* A new converter of the Messages adapter.                                *)
LEMMA MessagesStartsOpen ==
  ASSUME NEW f \in Formats, NEW typed \in BOOLEAN
  PROVE  MessagesOpen(Messages!Fresh(f, typed), Messages!Silence)
<1> DEFINE s == Messages!Fresh(f, typed)
           u == Messages!Silence
<1>1. /\ s.finished = FALSE /\ s.terminalSeen = FALSE /\ s.said = <<>>
      /\ s.flushed = FALSE /\ s.blocks = <<>> /\ s.message = Closed
  BY DEF Messages!Fresh, Messages!With, Messages!Base, Messages!Closed, Closed
<1>2. u.start = FALSE /\ u.finish = FALSE /\ u.blocks = <<>>
  BY DEF Messages!Silence
<1> HIDE DEF s, u
<1>3. /\ Never(s.said, EndEvents) /\ ~Ever(s.said, "finish")
  BY <1>1, NothingEnds
<1>4. EndLast(s.said, "openai")
  BY <1>3, NoEndYet
<1>5. Awaits(s, u)
  BY <1>1, <1>2 DEF Awaits
<1>6. FinishTold(s, u)
  BY <1>2, <1>3, NeverLess DEF FinishTold, EndEvents
<1>7. Len(u.blocks) = 0 /\ DOMAIN s.blocks = 0..(0 - 1) /\ DOMAIN s.blocks = {}
  BY <1>1, <1>2
<1>8. Opened(s.said) = {}
  BY <1>1, NothingSaid
<1>9. InOrder(s.blocks, s.message, Opened(s.said), 0)
  BY <1>1, <1>7, <1>8 DEF InOrder
<1>10. ItemsOpen(s, u)
  BY <1>1, <1>2, <1>3, <1>5, <1>7, <1>9 DEF ItemsOpen, Items
<1> QED
  BY <1>3, <1>4, <1>5, <1>6, <1>10 DEF MessagesOpen, s, u

(* A new converter of the Responses adapter.                               *)
LEMMA ResponsesStartsOpen ==
  ASSUME NEW f \in Formats
  PROVE  ResponsesOpen(Responses!Fresh(f))
<1> DEFINE s == Responses!Fresh(f)
<1>1. s.terminalSeen = FALSE /\ s.said = <<>>
  BY DEF Responses!Fresh, Responses!With, Responses!Base
<1> HIDE DEF s
<1> QED
  BY <1>1, NothingEnds DEF ResponsesOpen, s

-----------------------------------------------------------------------------
(* The stream, on any route.                                               *)
StreamOpen(s, u) ==
  /\ route = "chat"      => ChatOpen(s, u)
  /\ route = "messages"  => MessagesOpen(s, u)
  /\ route = "responses" => ResponsesOpen(s)

RawFormat ==
  CASE route = "chat"      -> "openai"
    [] route = "messages"  -> "claude"
    [] route = "responses" -> "openai-response"

EndsWhole(s) ==
  /\ EndLast(s.said, s.sourceFormat)
  /\ s.sourceFormat # RawFormat => WholeEnd(s, route)

WholeInv ==
  /\ StreamInv
  /\ EndLast(sc.said, sc.sourceFormat)
  /\ outcome = "open" => StreamOpen(sc, up)
  /\ outcome = "ok" => EndsWhole(sc)
-----------------------------------------------------------------------------
(* A converter that was just made satisfies the invariant.                 *)
LEMMA WholeInit == Init => WholeInv
<1> SUFFICES ASSUME Init PROVE WholeInv
  OBVIOUS
<1>1. StreamInv /\ route \in Routes /\ outcome = "open"
  BY StreamInit DEF StreamInv, Init
<1>2. CASE route = "chat"
  <2>1. PICK f \in Formats : sc = Chat!Fresh(f)
    BY <1>2 DEF Init
  <2>2. ChatOpen(sc, up)
    BY <2>1, ChatStartsOpen
  <2>3. EndLast(sc.said, sc.sourceFormat)
    BY <1>1, <1>2, <2>2, ChatEndLast DEF StreamInv, ConverterInv, ChatInv, ChatHalf, Common
  <2> QED
    BY <1>1, <1>2, <2>2, <2>3 DEF WholeInv, StreamOpen
<1>3. CASE route = "messages"
  <2>1. PICK f \in Formats, typed \in BOOLEAN :
          sc = Messages!Fresh(f, typed) /\ up = Messages!Silence
    BY <1>3 DEF Init
  <2>2. MessagesOpen(sc, up)
    BY <2>1, MessagesStartsOpen
  <2>3. sc.said = <<>>
    BY <2>1 DEF Messages!Fresh, Messages!With, Messages!Base
  <2>4. EndLast(sc.said, sc.sourceFormat)
    BY <2>3, NothingEnds, NoEndYet
  <2> QED
    BY <1>1, <1>3, <2>2, <2>4 DEF WholeInv, StreamOpen
<1>4. CASE route = "responses"
  <2>1. PICK f \in Formats : sc = Responses!Fresh(f)
    BY <1>4 DEF Init
  <2>2. ResponsesOpen(sc)
    BY <2>1, ResponsesStartsOpen
  <2>3. EndLast(sc.said, sc.sourceFormat)
    BY <2>2, NoEndYet DEF ResponsesOpen
  <2> QED
    BY <1>1, <1>4, <2>2, <2>3 DEF WholeInv, StreamOpen
<1> QED
  BY <1>1, <1>2, <1>3, <1>4 DEF Routes

(* A line that does not fail.                                              *)
LEMMA LineWhole ==
  ASSUME StreamInv, outcome = "open", StreamOpen(sc, up),
         NEW l \in Lines[route], MayCome(l),
         NEW t, t = HandleLine(sc, l), ~t.failed
  PROVE  /\ EndLast(t.said, t.sourceFormat)
         /\ ~t.done => StreamOpen(t, HeardOf(l))
         /\ t.done => EndsWhole(t)
<1>1. route \in Routes /\ ConverterInv(sc) /\ ~sc.done
  BY DEF StreamInv
<1>2. CASE route = "chat"
  <2>1. /\ Chat!IsLine(l) /\ ChatInv(sc) /\ t = Chat!HandleLine(sc, l)
        /\ ChatOpen(sc, up) /\ Chat!MayFollow(up, l) /\ HeardOf(l) = Chat!Heard(up, l)
    BY <1>1, <1>2, ConvertersAssumption
    DEF ConverterInv, HandleLine, StreamOpen, MayCome, HeardOf
  <2>2. /\ EndLast(t.said, t.sourceFormat)
        /\ ~t.done => ChatOpen(t, Chat!Heard(up, l))
        /\ t.done /\ t.sourceFormat # "openai" => WholeEnd(t, "chat")
    BY <1>1, <2>1, ChatWhole
  <2> QED
    BY <1>2, <2>1, <2>2 DEF StreamOpen, EndsWhole, RawFormat
<1>3. CASE route = "messages"
  <2>1. /\ Messages!IsLine(l) /\ MessagesInv(sc) /\ t = Messages!HandleLine(sc, l)
        /\ MessagesOpen(sc, up) /\ Messages!MayFollow(up, l)
        /\ HeardOf(l) = Messages!Heard(up, l) /\ UpTyped(up)
    BY <1>1, <1>3, ConvertersAssumption
    DEF ConverterInv, HandleLine, StreamOpen, MayCome, HeardOf, StreamInv
  <2>2. sc.sourceFormat = "openai-response" /\ l.kind = "block_delta" /\ l.type = "text" =>
          sc.message # Closed
    <3> SUFFICES ASSUME sc.sourceFormat = "openai-response",
                        l.kind = "block_delta", l.type = "text"
                 PROVE  sc.message # Closed
      OBVIOUS
    <3>1. l.index < Len(up.blocks) /\ up.blocks[l.index + 1].type = "text"
      BY <2>1 DEF Messages!MayFollow
    <3>2. l.index \in Nat
      BY <2>1 DEF Messages!IsLine
    <3>3. PICK S : up.blocks \in Seq(S)
      BY <2>1 DEF UpTyped, IsASequence
    <3>4. l.index + 1 \in DOMAIN up.blocks
      BY <3>1, <3>2, <3>3
    <3>5. TextHeard(up)
      BY <3>1, <3>4 DEF TextHeard
    <3> QED
      BY <1>3, <3>5 DEF StreamInv
  <2>3. /\ EndLast(t.said, t.sourceFormat)
        /\ ~t.done => MessagesOpen(t, Messages!Heard(up, l))
        /\ t.done /\ t.sourceFormat # "claude" => WholeEnd(t, "messages")
    BY <1>1, <2>1, <2>2, MessagesWhole
  <2> QED
    BY <1>3, <2>1, <2>3 DEF StreamOpen, EndsWhole, RawFormat
<1>4. CASE route = "responses"
  <2>1. /\ Responses!IsLine(l) /\ ResponsesInv(sc) /\ t = Responses!HandleLine(sc, l)
        /\ ResponsesOpen(sc)
    BY <1>1, <1>4, ConvertersAssumption DEF ConverterInv, HandleLine, StreamOpen
  <2>2. /\ EndLast(t.said, t.sourceFormat)
        /\ ~t.done => ResponsesOpen(t)
        /\ t.done /\ t.sourceFormat # "openai-response" => WholeEnd(t, "responses")
    BY <1>1, <2>1, ResponsesWhole
  <2> QED
    BY <1>4, <2>2 DEF StreamOpen, EndsWhole, RawFormat
<1> QED
  BY <1>1, <1>2, <1>3, <1>4 DEF Routes

(* FlushWithError at any time, FinalizeStream after the finish reason.     *)
LEMMA EndWhole ==
  ASSUME StreamInv, outcome = "open", StreamOpen(sc, up),
         NEW t, t = FlushWithError(sc) \/ (t = FinalizeStream(sc) /\ sc.finished),
         ~t.failed
  PROVE  EndsWhole(t)
<1>1. route \in Routes /\ ConverterInv(sc)
  BY DEF StreamInv
<1>2. CASE route = "chat"
  <2>1. /\ ChatInv(sc) /\ ChatOpen(sc, up)
        /\ t = Chat!FlushWithError(sc) \/ (t = Chat!FinalizeStream(sc) /\ sc.finished)
    BY <1>1, <1>2 DEF ConverterInv, FlushWithError, FinalizeStream, StreamOpen
  <2>2. /\ EndLast(t.said, t.sourceFormat)
        /\ t.sourceFormat # "openai" => WholeEnd(t, "chat")
    BY <2>1, ChatFlushesWhole
  <2> QED
    BY <1>2, <2>2 DEF EndsWhole, RawFormat
<1>3. CASE route = "messages"
  <2>1. /\ MessagesInv(sc) /\ MessagesOpen(sc, up) /\ UpTyped(up)
        /\ t = Messages!FinalizeStream(sc)
    BY <1>1, <1>3
    DEF ConverterInv, FlushWithError, FinalizeStream, StreamOpen, StreamInv,
        Messages!FlushWithError
  <2>2. /\ EndLast(t.said, t.sourceFormat)
        /\ t.sourceFormat # "claude" => WholeEnd(t, "messages")
    BY <2>1, MessagesEndsWhole
  <2> QED
    BY <1>3, <2>2 DEF EndsWhole, RawFormat
<1>4. CASE route = "responses"
  <2>1. ResponsesInv(sc) /\ ResponsesOpen(sc)
    BY <1>1, <1>4 DEF ConverterInv, StreamOpen
  <2>2. t.failed
    BY <1>4, <2>1, ResponsesFailsOpen DEF FlushWithError, FinalizeStream
  <2> QED
    BY <2>2
<1> QED
  BY <1>1, <1>2, <1>3, <1>4 DEF Routes

(* A step that fails tells the client nothing more.                        *)
LEMMA FailsWhole ==
  ASSUME WholeInv
  PROVE  Fail(sc).failed /\ EndLast(Fail(sc).said, Fail(sc).sourceFormat)
<1>1. Fail(sc).failed
  BY ConverterFails DEF WholeInv, StreamInv
<1>2. Fail(sc).said = sc.said /\ Fail(sc).sourceFormat = sc.sourceFormat
  BY DEF Fail
<1> QED
  BY <1>1, <1>2 DEF WholeInv

(* So does whatever ends the stream,                                       *)
LEMMA EndStepKeeps ==
  ASSUME WholeInv, StreamInv', outcome = "open",
         NEW t, t = FlushWithError(sc) \/ (t = FinalizeStream(sc) /\ sc.finished),
         Returned(t), outcome' = IF sc'.failed THEN "error" ELSE "ok",
         UNCHANGED <<route, up, fed>>
  PROVE  WholeInv'
<1>1. StreamInv /\ StreamOpen(sc, up)
  BY DEF WholeInv
<1>2. CASE t.failed
  <2>1. sc' = Fail(sc)
    BY <1>2 DEF Returned
  <2>2. sc'.failed /\ EndLast(sc'.said, sc'.sourceFormat)
    BY <2>1, FailsWhole
  <2> QED
    BY <2>2 DEF WholeInv
<1>3. CASE ~t.failed
  <2>1. sc' = t /\ outcome' = "ok"
    BY <1>3 DEF Returned
  <2>2. EndsWhole(sc')
    BY <1>1, <1>3, <2>1, EndWhole
  <2>3. EndsWhole(sc)' /\ EndLast(sc'.said, sc'.sourceFormat)
    BY <2>2 DEF EndsWhole, RawFormat
  <2> QED
    BY <2>1, <2>3 DEF WholeInv
<1> QED
  BY <1>2, <1>3

(* ... and so every step.                                                  *)
LEMMA WholeSteps == WholeInv /\ [Next]_vars => WholeInv'
<1> SUFFICES ASSUME WholeInv, [Next]_vars PROVE WholeInv'
  OBVIOUS
<1>1. StreamInv /\ StreamInv'
  BY StreamSteps DEF WholeInv
<1>2. CASE Feed
  <2>1. outcome = "open" /\ StreamOpen(sc, up) /\ route' = route
    BY <1>2 DEF WholeInv, Feed
  <2>2. PICK l \in Lines[route] :
          MayCome(l) /\ up' = HeardOf(l) /\ Returned(HandleLine(sc, l))
    BY <1>2 DEF Feed
  <2>3. outcome' = IF sc'.failed THEN "error" ELSE IF sc'.done THEN "ok" ELSE "open"
    BY <1>2 DEF Feed
  <2> DEFINE t == HandleLine(sc, l)
  <2>4. CASE t.failed
    <3>1. sc' = Fail(sc)
      BY <2>2, <2>4 DEF Returned
    <3>2. sc'.failed /\ EndLast(sc'.said, sc'.sourceFormat)
      BY <3>1, FailsWhole
    <3>3. outcome' = "error"
      BY <2>3, <3>2
    <3> QED
      BY <1>1, <3>2, <3>3 DEF WholeInv
  <2>5. CASE ~t.failed
    <3>1. sc' = t
      BY <2>2, <2>5 DEF Returned
    <3>2. /\ EndLast(t.said, t.sourceFormat)
          /\ ~t.done => StreamOpen(t, up')
          /\ t.done => EndsWhole(t)
      BY <1>1, <2>1, <2>2, <2>5, LineWhole
    <3>3. outcome' = IF t.done THEN "ok" ELSE "open"
      BY <2>3, <2>5, <3>1
    <3> HIDE DEF t
    <3>4. outcome' = "open" => StreamOpen(sc, up)'
      <4>1. outcome' = "open" => StreamOpen(sc', up')
        BY <3>1, <3>2, <3>3
      <4> QED
        BY <2>1, <4>1 DEF StreamOpen
    <3>5. outcome' = "ok" => EndsWhole(sc)'
      <4>1. outcome' = "ok" => EndsWhole(sc')
        BY <3>1, <3>2, <3>3
      <4> QED
        BY <2>1, <4>1 DEF EndsWhole, RawFormat
    <3> QED
      BY <1>1, <3>1, <3>2, <3>4, <3>5 DEF WholeInv
  <2> QED
    BY <2>4, <2>5
<1>3. CASE UpstreamEnds
  BY <1>1, <1>3, EndStepKeeps DEF UpstreamEnds
<1>4. CASE GraceEnds
  BY <1>1, <1>4, EndStepKeeps DEF GraceEnds
<1>5. CASE UNCHANGED vars
  BY <1>1, <1>5 DEF WholeInv, StreamOpen, EndsWhole, RawFormat, vars
<1> QED
  BY <1>2, <1>3, <1>4, <1>5 DEF Next, Ended

(* Spec => []WholeInv: while a stream is open, what it lacks of its end is *)
(* what its converter still holds back: the finish reason, the blocks that *)
(* are open, the items announced; once the pump closes it as a success     *)
(* nothing is lacking.                                                     *)
THEOREM WholeInvariant == Spec => []WholeInv
BY WholeInit, WholeSteps, PTL DEF Spec

(* The invariant has EndIsWhole in it.                                     *)
LEMMA EndsAreWhole == WholeInv => EndIsWhole
<1> SUFFICES ASSUME WholeInv PROVE EndIsWhole
  OBVIOUS
<1> DEFINE w == sc.said
           endEvent == IF sc.sourceFormat = "claude" THEN "message_stop" ELSE "completed"
<1>1. EndLast(w, sc.sourceFormat) /\ endEvent = EndEvent(sc.sourceFormat)
  BY DEF WholeInv, EndEvent
<1>2. \A ev : Said(ev) = {k \in DOMAIN w : w[k].ev = ev}
  BY DEF Said
<1>3. \A k \in Content : k \in DOMAIN w /\ w[k].ev \in ContentEvents
  BY <1>2 DEF Content, ContentEvents
<1>4. Started = Opened(w) /\ Stopped = Shut(w)
  BY DEF Started, Stopped, Said, Opened, Shut
<1>5. \A ev : Said(ev) # {} <=> Ever(w, ev)
  BY <1>2 DEF Ever
<1>6. /\ sc.sourceFormat \in Formats /\ route \in Routes
      /\ ~Passthrough <=> sc.sourceFormat # RawFormat
  <2>1. Common(sc) /\ route \in Routes
    BY ConverterIsTyped DEF WholeInv, StreamInv
  <2> QED
    BY <2>1 DEF Common, Passthrough, RawFormat, Routes
<1>7. LastSaid = w[Len(w)]
  BY DEF LastSaid
<1> HIDE DEF w, endEvent
<1>8. \A k \in Said(endEvent) : k = Len(w)
  BY <1>1, <1>2 DEF EndLast
<1>9. Cardinality(Said("message_delta")) <= 1
  <2>1. \A i, j \in Said("message_delta") : i = j
    BY <1>1, <1>2 DEF EndLast
  <2> QED
    BY <2>1, AtMostOne
<1>10. \A k \in Said("message_delta") \union Said("finish"), e \in Content : e < k
  BY <1>1, <1>2, <1>3 DEF EndLast
<1>11. ASSUME outcome = "ok", ~Passthrough
       PROVE  /\ sc.sourceFormat = "openai" => Said("finish") # {}
              /\ sc.sourceFormat # "openai" => Said(endEvent) # {}
              /\ sc.sourceFormat = "claude" =>
                   /\ Started = Stopped
                   /\ Said("message_delta") # {} <=> (sc.finished \/ route = "responses")
              /\ sc.sourceFormat = "openai-response" =>
                   /\ route = "chat" => Started = Stopped
                   /\ Range(LastSaid.output) = Started
                   /\ \A i, j \in DOMAIN LastSaid.output :
                        i < j => LastSaid.output[i] < LastSaid.output[j]
  <2>1. WholeEnd(sc, route)
    BY <1>6, <1>11 DEF WholeInv, EndsWhole
  <2>2. CASE sc.sourceFormat = "openai"
    <3>1. Ever(w, "finish")
      BY <2>1, <2>2 DEF WholeEnd, w
    <3> QED
      BY <1>5, <2>2, <3>1
  <2>3. CASE sc.sourceFormat = "claude"
    <3>1. /\ Ever(w, "message_stop") /\ Opened(w) = Shut(w)
          /\ Ever(w, "message_delta") <=> (sc.finished \/ route = "responses")
      BY <2>1, <2>3 DEF WholeEnd, w
    <3>2. endEvent = "message_stop"
      BY <2>3 DEF endEvent
    <3> QED
      BY <1>4, <1>5, <2>3, <3>1, <3>2
  <2>4. CASE sc.sourceFormat = "openai-response"
    <3>1. /\ Ever(w, "completed")
          /\ route = "chat" => Opened(w) = Shut(w)
          /\ Range(w[Len(w)].output) = Opened(w)
          /\ Rises(w[Len(w)].output)
      BY <2>1, <2>4 DEF WholeEnd, w
    <3>2. endEvent = "completed"
      BY <2>4 DEF endEvent
    <3> QED
      BY <1>4, <1>5, <1>7, <2>4, <3>1, <3>2 DEF Rises
  <2> QED
    BY <1>6, <2>2, <2>3, <2>4 DEF Formats
<1> QED
  BY <1>8, <1>9, <1>10, <1>11 DEF EndIsWhole, w, endEvent

(* Spec => []EndIsWhole: for every sequence of lines an upstream may send, *)
(* a stream that Feed, FlushWithError or FinalizeStream ends without an    *)
(* error is told its client's end: every Messages block closed, then one   *)
(* message_delta with the finish reason that was held, then one            *)
(* message_stop; one response.completed, whose output lists every          *)
(* announced item in the order of the indexes; a finish chunk after all    *)
(* content. Nothing is told after that end, on any of the seven            *)
(* conversions and the two streams that are passed on.                     *)
THEOREM StreamsEndWhole == Spec => []EndIsWhole
BY WholeInvariant, EndsAreWhole, PTL

=============================================================================
