--------------------------------- MODULE Desk ---------------------------------
(***************************************************************************)
(* The people at the desk beside the agent, and what is learnt from what   *)
(* they and the agent resolve: the ticket page's reply and its change of   *)
(* status (tickets/[id]/actions.ts), the follow-up's close, and the        *)
(* write-back of a resolution into the knowledge base                      *)
(* (agent-helpdesk/src/writeback.ts, rag/src/ingest.ts, rag/src/retrieve.ts). *)
(*                                                                         *)
(* A document is one chunk of some words about a fix.  Two texts about one *)
(* fix are taken to be near each other and any other two not to be.        *)
(***************************************************************************)
EXTENDS Pipeline

CONSTANT FixOf   \* ticket -> the fix its thread tells of

ASSUME DeskAssumption ==
  /\ DOMAIN FixOf = Tickets
  /\ Cardinality(Writers) \in 1 .. 3   \* as many as a search returns
  /\ \A s \in Scenarios : s.replies \cup s.closes \cup s.followups \subseteq Tickets

VARIABLES
  reply,     \* request -> the reply it has queued and still has to settle
  due,       \* tickets with a write-back job waiting
  writer,    \* slot -> where its write-back stands and what it has read
  kb         \* documents from resolved tickets

deskVars == <<reply, due, writer, kb>>
allVars == <<vars, deskVars>>

NoReply == [ticket |-> NoTicket, close |-> FALSE]
Resting == [pc |-> "idle", ticket |-> NoTicket, words |-> 0, near |-> {}]

DeskInit ==
  /\ Init
  /\ reply = [q \in Requests |-> NoReply]
  /\ due = {} /\ kb = {}
  /\ writer = [w \in Writers |-> Resting]

\* enqueueWriteback: one job per ticket, swallowed while the last one is kept,
\* and an enqueue that fails is let go.
AskWriteback(t) ==
  \/ UNCHANGED due
  \/ (\A w \in Writers : writer[w].ticket # t) /\ due' = due \cup {t}

(***************************************************************************)
(* The ticket page                                                         *)
(***************************************************************************)

\* sendAsPerson: send_reply under the form's own id, with the whitelist
\* widened by the person who sends it.
SendAsPerson(q, t, close) ==
  /\ reply[q] = NoReply
  /\ Directory[RequesterOf[t]].email /\ ~ticket[t].merged
  /\ LET key == [kind |-> "person", tickets |-> {t}, prefixes |-> {}, to |-> Nobody, number |-> 0]
     IN QueueOutbound(Notice("person", {t}, RequesterOf[t], 0), key)
  /\ reply' = IF RequesterOf[t] \in suppressed THEN reply
              ELSE [reply EXCEPT ![q] = [ticket |-> t, close |-> close]]
  /\ UNCHANGED <<scene, versions, ticket, near, optedOut, suppressed, hour, errand, faults,
                 runVars, due, writer, kb>>

\* The message joins the conversation, unless a merge has closed it.
SettlePersonReply(q) ==
  /\ reply[q] # NoReply
  /\ LET t == reply[q].ticket
         resolves == reply[q].close /\ ~ticket[t].merged
     IN /\ ticket' = IF resolves THEN [ticket EXCEPT ![t].status = "resolved", ![t].by = "person"]
                     ELSE ticket
        /\ IF resolves THEN AskWriteback(t) ELSE UNCHANGED due
  /\ reply' = [reply EXCEPT ![q] = NoReply]
  /\ UNCHANGED <<scene, versions, near, mail, optedOut, suppressed, hour, errand, faults,
                 runVars, writer, kb>>

\* changeStatus, to resolved: the write-back is asked for and the requester
\* told.  The queue view's bulk change asks for none.
ChangeStatus(q, t) ==
  /\ errand[q] = NoErrand
  /\ ticket' = [ticket EXCEPT ![t].status = "resolved", ![t].by = "person"]
  /\ AskWriteback(t)
  /\ errand' = [errand EXCEPT ![q].moved = {t}]
  /\ UNCHANGED <<scene, versions, near, mail, optedOut, suppressed, hour, faults,
                 runVars, reply, writer, kb>>

\* The follow-up closes what nobody came back on, and has the agent's own
\* resolutions written back (Intake has its races with an answer).
FollowUp(t) ==
  /\ ticket[t].status = "resolved"
  /\ ticket' = [ticket EXCEPT ![t].status = "closed", ![t].by = "system"]
  /\ due' = IF ticket[t].by = "agent" /\ scene.deployment # "shadow" THEN due \cup {t} ELSE due
  /\ UNCHANGED <<scene, versions, near, mail, optedOut, suppressed, hour, errand, faults,
                 runVars, reply, writer, kb>>

(***************************************************************************)
(* The write-back                                                          *)
(***************************************************************************)

Live(fix) == {doc \in kb : doc.fix = fix /\ doc.live}
FixFor(w) == FixOf[writer[w].ticket]
Rests(w) == writer' = [writer EXCEPT ![w] = Resting]

StartWriteback(w) ==
  /\ writer[w] = Resting
  /\ \E t \in due :
       /\ due' = due \ {t}
       /\ writer' = IF SpendAllows THEN [writer EXCEPT ![w] = [Resting EXCEPT !.pc = "tell", !.ticket = t]]
                    ELSE writer
  /\ UNCHANGED <<vars, reply, kb>>

\* The model tells the fix in some words, or finds nothing worth keeping.
TellFix(w) ==
  /\ writer[w].pc = "tell"
  /\ \/ \E words \in 1 .. scene.words :
          writer' = [writer EXCEPT ![w].words = words, ![w].pc = "look"]
     \/ Rests(w)
  /\ spent' = spent + 1
  /\ UNCHANGED <<notifyVars, job, lost, run, clarify, agentRuns, called, slips, reply, due, kb>>

\* What is near enough to be the same fix, older.  Runbooks are never replaced.
FindNeighbours(w) ==
  /\ writer[w].pc = "look"
  /\ writer' = [writer EXCEPT ![w].near = Live(FixFor(w)), ![w].pc = "ingest"]
  /\ UNCHANGED <<vars, reply, due, kb>>

\* Broken: what is near is retired before the words are found to be there.
IngestDocumentLate(w) ==
  /\ writer[w].pc = "ingest"
  /\ LET kept == {IF doc \in writer[w].near THEN [doc EXCEPT !.live = FALSE] ELSE doc : doc \in kb}
         known == \E doc \in kb : doc.fix = FixFor(w) /\ doc.words = writer[w].words
     IN kb' = IF known THEN kept
              ELSE kept \cup {[fix |-> FixFor(w), words |-> writer[w].words, live |-> TRUE]}
  /\ Rests(w)
  /\ UNCHANGED <<vars, reply, due>>

\* The same words are one document, live or not, and retire nothing; others are
\* inserted and retire what was near in one transaction.
IngestDocument(w) ==
  /\ writer[w].pc = "ingest"
  /\ LET retired == {doc \in kb : \E old \in writer[w].near : old.fix = doc.fix /\ old.words = doc.words}
         known == \E doc \in kb : doc.fix = FixFor(w) /\ doc.words = writer[w].words
     IN kb' = IF known THEN kb
              ELSE (kb \ retired) \cup {[doc EXCEPT !.live = FALSE] : doc \in retired}
                   \cup {[fix |-> FixFor(w), words |-> writer[w].words, live |-> TRUE]}
  /\ Rests(w)
  /\ UNCHANGED <<vars, reply, due>>

\* The worker stops, or a call fails: the job is tried again.
WritebackFails(w) ==
  /\ faults < scene.faults
  /\ writer[w] # Resting
  /\ faults' = faults + 1
  /\ due' = due \cup {writer[w].ticket}
  /\ Rests(w)
  /\ UNCHANGED <<scene, versions, ticket, near, mail, optedOut, suppressed, hour, errand,
                 runVars, reply, kb>>

DeskNext ==
  \/ Next /\ UNCHANGED deskVars
  \/ \E q \in scene.requests :
       \/ \E t \in scene.replies, close \in BOOLEAN : SendAsPerson(q, t, close)
       \/ SettlePersonReply(q)
       \/ \E t \in scene.closes : ChangeStatus(q, t)
  \/ \E t \in scene.followups : FollowUp(t)
  \/ \E w \in Writers :
       \/ StartWriteback(w) \/ TellFix(w) \/ FindNeighbours(w) \/ IngestDocument(w)
       \/ WritebackFails(w)

DeskSpec == DeskInit /\ [][DeskNext]_allVars

(***************************************************************************)
(* Properties                                                              *)
(***************************************************************************)

\* What is near is looked up before the text that replaces it is in the
\* transaction that retires it, so two write-backs side by side each leave
\* their version standing.  However many there are, in whatever order and with
\* whatever crashes and repeats, a fix once written back always has a version
\* an answer can be grounded in, and never more versions competing than there
\* are write-backs at once (writeback.ts:88, ingest.ts:51).
FixesAreCurrent ==
  \A fix \in {doc.fix : doc \in kb} : Cardinality(Live(fix)) \in 1 .. Cardinality(Writers)
===============================================================================
