---------------------------- MODULE OpenCodeSessions ---------------------------
(***************************************************************************)
(* A session of the OpenCode runtime adapter.  The adapter keeps a status  *)
(* of its own and works out the rest from what the provider tells it: a    *)
(* busy flag that may lag behind, the messages, the pending permissions.   *)
(* Every operation awaits requests between what it checks and what it      *)
(* writes, and operations overlap.                                         *)
(*                                                                         *)
(* The provider is external, as the adapter and its tests use it: it is    *)
(* busy and has the user's message once it takes a prompt, works on        *)
(* prompts in their order, and may be called busy after it has finished.   *)
(* Any answer may be lost (a timeout), what was asked for done or not.     *)
(* Messages that do not end a task are left out; what is read of the       *)
(* messages is how many there are, because they are only added to.         *)
(***************************************************************************)
EXTENDS Naturals, Sequences, FiniteSets

CONSTANTS
  Driver,    \* the caller that sends the tasks, watches, approves, interrupts
  Others,    \* callers that do the rest and may clean up
  MaxTasks   \* bound of the model: the tasks sent

VARIABLES
  local,      \* localStatus
  last,       \* lastTaskId, 0 if none
  baseline,   \* the messages there were before the last task
  terminal,   \* terminalAssistantObserved
  busySeen,   \* busyObservedSinceTask
  call,       \* where each operation is waiting
  messages,   \* provider: the user's and the final assistant's messages
  working,    \* provider: the prompts taken and not finished
  busy,       \* provider: the status it reports
  pending,    \* provider: a permission waits for an answer
  deleted,    \* provider: the session is gone
  mixed,      \* history: how one task got in the way of another: its
              \* prompt was taken while the other was "working", or the
              \* answer to a prompt that was taken was "lost"
  overlapped  \* history: operations overlapped

Callers == {Driver} \cup Others
adapter == <<local, last, baseline, terminal, busySeen>>
provider == <<messages, working, busy, pending, deleted>>
history == <<mixed, overlapped>>
sessionVars == <<adapter, call, provider, history>>

NoCall == [op |-> "none", at |-> "idle"]

SessionInit ==
  /\ local = "created"
  /\ last = 0 /\ baseline = 0
  /\ terminal = FALSE /\ busySeen = FALSE
  /\ call = [c \in Callers |-> NoCall]
  /\ messages = <<>> /\ working = <<>>
  /\ busy = FALSE /\ pending = FALSE /\ deleted = FALSE
  /\ mixed = {} /\ overlapped = FALSE

Sent == Cardinality({n \in DOMAIN messages : messages[n].role = "user"})
Answered(task) == \E n \in DOMAIN messages : messages[n] = [role |-> "assistant", task |-> task]

\* Fault: the messages from before the task are looked at too.
TerminalAtAll(count) ==
  \E m, n \in 1..count :
    m < n /\ messages[m].role = "user" /\ messages[n].role = "assistant"

\* hasTerminalAssistantMessageForCurrentTask, of the first count messages
TerminalSince(count) ==
  \E m, n \in (baseline + 1)..count :
    m < n /\ messages[m].role = "user" /\ messages[n].role = "assistant"

-----------------------------------------------------------------------------
(* The provider *)

\* A prompt is finished, with or without a final message.
FinishTurn ==
  /\ working # <<>> /\ ~pending
  /\ working' = Tail(working)
  /\ messages' \in {messages, Append(messages, [role |-> "assistant", task |-> Head(working)])}
  /\ UNCHANGED <<adapter, call, busy, pending, deleted, history>>

TurnIdle ==
  /\ working = <<>> /\ busy
  /\ busy' = FALSE
  /\ UNCHANGED <<adapter, call, messages, working, pending, deleted, history>>

AskPermission ==
  /\ working # <<>> /\ ~pending
  /\ pending' = TRUE
  /\ UNCHANGED <<adapter, call, messages, working, busy, deleted, history>>

-----------------------------------------------------------------------------
(* Operations: what they check, and their first request *)

Begin(c, first) ==
  /\ call[c] = NoCall
  /\ call' = [call EXCEPT ![c] = first]
  /\ overlapped' = (overlapped \/ \E d \in Callers : call[d] # NoCall)
  /\ UNCHANGED <<adapter, provider, mixed>>

\* Fault: a session that waits for an approval takes another task.
ReusableWhileWaiting(status) == status \notin {"destroyed", "aborted", "failed", "running"}

\* assertReusable
Reusable(status) ==
  status \notin {"destroyed", "aborted", "failed", "running", "waiting_approval"}

\* The messages are only read if there was a task before.
SendTask(c) ==
  /\ c = Driver /\ Sent < MaxTasks
  /\ Reusable(local)
  /\ Begin(c, IF last = 0 THEN [op |-> "send", at |-> "prompt", base |-> 0]
                          ELSE [op |-> "send", at |-> "baseline"])

Interrupt(c) ==
  local \in {"running", "waiting_approval"} /\ Begin(c, [op |-> "interrupted", at |-> "abort"])
\* Cleaning up is left to the other callers.
Abort(c) == c \in Others /\ local # "destroyed" /\ Begin(c, [op |-> "aborted", at |-> "abort"])
Destroy(c) == c \in Others /\ local # "destroyed" /\ Begin(c, [op |-> "destroyed", at |-> "delete"])
Resume(c) == local = "interrupted" /\ Begin(c, [op |-> "created", at |-> "get"])
Respond(c) ==
  \E answer \in {"running", "aborted"} : Begin(c, [op |-> answer, at |-> "reply"])
GetEvents(c) ==
  Begin(c, [op |-> "events", at |-> "lists", asked |-> {"messages", "permissions"},
            count |-> 0, permission |-> FALSE])

\* Only a session that may be working is asked about.
GetStatus(c) == local \in {"created", "running"} /\ Begin(c, [op |-> "status", at |-> "status"])

-----------------------------------------------------------------------------
(* Requests: the provider answers, or the answer is lost *)

Stops(c) == call' = [call EXCEPT ![c] = NoCall]
Goes(c, at) == call' = [call EXCEPT ![c].at = at]

ReadBaseline(c) ==
  /\ call[c].at = "baseline"
  /\ \/ ~deleted /\ call' = [call EXCEPT ![c] =
                       [op |-> "send", at |-> "prompt", base |-> Len(messages)]]
     \/ Stops(c)
  /\ UNCHANGED <<adapter, provider, history>>

\* The tool policy is set, then the prompt is sent; prompt_async returns before
\* the work is done.  A prompt that fails may have been taken.
Prompt(c) ==
  LET task == Sent + 1 IN
  /\ call[c].at = "prompt"
  /\ \/ /\ ~deleted
        /\ messages' = Append(messages, [role |-> "user", task |-> task])
        /\ working' = Append(working, task)
        /\ busy' = TRUE
        /\ \E lost \in BOOLEAN :
             /\ mixed' = mixed \cup {m \in {"working"} : working # <<>>}
                               \cup {m \in {"lost"} : lost}
             /\ IF lost
                THEN Goes(c, "refused")
                ELSE call' = [call EXCEPT ![c] = [op |-> "send", at |-> "prompted", task |-> task,
                                                 base |-> call[c].base]]
     \/ /\ Goes(c, "refused") \/ Stops(c)
        /\ UNCHANGED <<messages, working, busy, mixed>>
  /\ UNCHANGED <<adapter, pending, deleted, overlapped>>

\* The requests of the other operations that change something.
AbortRequest(c) ==
  /\ call[c].at = "abort"
  /\ \/ ~deleted /\ working' = <<>> /\ pending' = FALSE /\ (Goes(c, "done") \/ Stops(c))
     \/ Stops(c) /\ UNCHANGED <<working, pending>>
  /\ UNCHANGED <<adapter, messages, busy, deleted, history>>

DeleteRequest(c) ==
  /\ call[c].at = "delete"
  /\ \/ /\ ~deleted
        /\ deleted' = TRUE /\ working' = <<>> /\ pending' = FALSE /\ busy' = FALSE
        /\ Goes(c, "done") \/ Stops(c)
     \/ Stops(c) /\ UNCHANGED <<deleted, working, pending, busy>>
  /\ UNCHANGED <<adapter, messages, history>>

\* The older endpoint is asked if the newer one is not there.
ReplyRequest(c) ==
  /\ call[c].at = "reply"
  /\ \/ ~deleted /\ pending /\ pending' = FALSE /\ (Goes(c, "done") \/ Stops(c))
     \/ Stops(c) /\ UNCHANGED pending
  /\ UNCHANGED <<adapter, messages, working, busy, deleted, history>>

\* getEvents asks for messages and permissions at once; permissions that cannot
\* be listed count as none.
ListRequest(c) ==
  /\ call[c].at = "lists"
  /\ \/ /\ "messages" \in call[c].asked /\ ~deleted
        /\ call' = [call EXCEPT ![c].asked = @ \ {"messages"}, ![c].count = Len(messages)]
     \/ "messages" \in call[c].asked /\ Stops(c)
     \/ /\ "permissions" \in call[c].asked
        /\ \E listed \in {pending, FALSE} :
             call' = [call EXCEPT ![c].asked = @ \ {"permissions"}, ![c].permission = listed]
  /\ UNCHANGED <<adapter, provider, history>>

StatusRequest(c) ==
  /\ call[c].at = "status"
  /\ \/ call' = [call EXCEPT ![c] = [op |-> "status", at |-> "typed", type |-> busy]]
     \/ Stops(c)
  /\ UNCHANGED <<adapter, provider, history>>

MessagesRequest(c) ==
  /\ call[c].at = "messages"
  /\ \/ ~deleted /\ call' = [call EXCEPT ![c] =
                       [op |-> "status", at |-> "read", type |-> call[c].type,
                        count |-> Len(messages)]]
     \/ Stops(c)
  /\ UNCHANGED <<adapter, provider, history>>

-----------------------------------------------------------------------------
(* Answers: what they change, whatever has happened in between *)

\* sendTask is answered.
Started(c) ==
  /\ \/ /\ call[c].at = "prompted"
        /\ last' = call[c].task
        /\ baseline' = call[c].base
        /\ terminal' = FALSE /\ busySeen' = FALSE
        /\ local' = "running"
     \/ /\ call[c].at = "refused"
        /\ local' = "failed"
        /\ UNCHANGED <<last, baseline, terminal, busySeen>>
  /\ Stops(c)
  /\ UNCHANGED <<provider, history>>

\* interrupt, abort, destroy and respondToApproval are answered.
Done(c) ==
  /\ call[c].at = "done"
  /\ local' = call[c].op
  /\ Stops(c)
  /\ UNCHANGED <<last, baseline, terminal, busySeen, provider, history>>

\* resume is answered, or finds no session; its request changes nothing.
Resumed(c) ==
  /\ call[c].at = "get"
  /\ (~deleted /\ local' = call[c].op) \/ UNCHANGED local
  /\ Stops(c)
  /\ UNCHANGED <<last, baseline, terminal, busySeen, provider, history>>

\* getEvents has both lists.
Listed(c) ==
  /\ call[c].at = "lists" /\ call[c].asked = {}
  /\ terminal' = (terminal \/ (last # 0 /\ TerminalSince(call[c].count)))
  /\ local' = IF call[c].permission /\ local \notin {"destroyed", "aborted"}
              THEN "waiting_approval" ELSE local
  /\ Stops(c)
  /\ UNCHANGED <<last, baseline, busySeen, provider, history>>

\* Fault: a provider that says it is busy is.
ConcludeTrusting(found, type) ==
  /\ local' = CASE type -> "running" [] ~type /\ found -> "completed" [] OTHER -> "created"
  /\ busySeen' = (busySeen \/ type)

\* What getStatus makes of the busy flag and the messages: a final message wins
\* over a flag that was busy twice.
Conclude(found, type) ==
  /\ local' = CASE type /\ found /\ busySeen    -> "completed"
                [] type /\ ~(found /\ busySeen) -> "running"
                [] ~type /\ found               -> "completed"
                [] OTHER                        -> "created"
  /\ busySeen' = (busySeen \/ (type /\ ~(found /\ busySeen)))

\* The flag is there; the messages are read unless a final one was seen.
Typed(c) ==
  /\ call[c].at = "typed"
  /\ IF last # 0 /\ ~terminal
     THEN Goes(c, "messages") /\ UNCHANGED <<local, busySeen>>
     ELSE Conclude(terminal, call[c].type) /\ Stops(c)
  /\ UNCHANGED <<last, baseline, terminal, provider, history>>

\* The messages are there, to be compared with what is the last task now.
Read(c) ==
  LET found == TerminalSince(call[c].count) IN
  /\ call[c].at = "read"
  /\ terminal' = (terminal \/ found)
  /\ Conclude(found, call[c].type)
  /\ Stops(c)
  /\ UNCHANGED <<last, baseline, provider, history>>

SessionAnswers(c) == Started(c) \/ Done(c) \/ Resumed(c) \/ Listed(c) \/ Typed(c) \/ Read(c)
SessionRequests(c) ==
  \/ ReadBaseline(c) \/ Prompt(c) \/ AbortRequest(c) \/ DeleteRequest(c)
  \/ ReplyRequest(c) \/ ListRequest(c)
  \/ StatusRequest(c) \/ MessagesRequest(c)

SessionNext ==
  \/ FinishTurn \/ TurnIdle \/ AskPermission
  \/ \E c \in Callers :
       \/ SendTask(c) \/ Interrupt(c) \/ Abort(c) \/ Destroy(c) \/ Resume(c)
       \/ Respond(c) \/ GetEvents(c) \/ GetStatus(c)
       \/ SessionRequests(c) \/ SessionAnswers(c)

SessionSpec == SessionInit /\ [][SessionNext]_sessionVars

\* The driver polls the status again and again, and not every answer to it is
\* lost; the provider may be called busy for ever.
FairSessionSpec ==
  /\ SessionSpec
  /\ WF_sessionVars(SessionAnswers(Driver) \/ SessionRequests(Driver))
  /\ SF_sessionVars(GetStatus(Driver))
  /\ SF_sessionVars(StatusRequest(Driver) /\ call'[Driver].at = "typed")
  /\ SF_sessionVars(MessagesRequest(Driver) /\ call'[Driver].at = "read")

-----------------------------------------------------------------------------
(* Properties *)

\* "Terminal evidence from a previous task cannot complete a reused session
\* task": unless a prompt was taken whose answer was lost, or prompts ran into
\* one another, a completed session has the final message of its last task, or
\* of one that is being sent, whatever other operations overlapped.
CompletedIsAnswered ==
  local = "completed" /\ mixed = {} => \E task \in last..Sent : Answered(task)

\* A prompt is sent to a session that still works on another only if operations
\* overlapped or the answer to a prompt was lost: what getStatus, interrupt,
\* resume and an approval make of the session never frees it too early.
OneTaskAtATime == "working" \in mixed => overlapped \/ "lost" \in mixed

\* A task that was answered is not reported running for ever, though the
\* provider goes on saying that it is busy.
Unseen == local = "running" /\ ~deleted /\ mixed = {} /\ Answered(last)
AnswerIsSeen == []<>~Unseen
=============================================================================
