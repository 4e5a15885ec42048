------------------------------- MODULE Assistant -------------------------------
(***************************************************************************)
(* The assistant of one user (FunctionCallService, CancellationService,       *)
(* PendingConfirmationService, AgentGateway and the channels: the web panel,   *)
(* WhatsappService, BotAgentService).  A command is split into segments that    *)
(* run one after the other; before a delete, and where a tool has to choose,    *)
(* the run stops with a question, and what the user answers later, in whichever  *)
(* channel, goes on with the rest.                                          *)
(*                                                                         *)
(* What waits is kept in memory, one entry per user in each map.  Commands and   *)
(* answers come from all channels at once; a run gives way at every await, and   *)
(* a question is sent after the run that asks it has returned.  What the language *)
(* model answers is any of its possible answers.  Every question of a tool has a  *)
(* list of options; replies that no branch understands change nothing.          *)
(***************************************************************************)
EXTENDS Integers, Sequences, FiniteSets

CONSTANTS
    Handlers,       \* commands and answers that are worked on at once
    Channels,       \* of "web", "whatsapp", "telegram": those the user uses
    MaxCommands,    \* bound: commands
    MaxSegments,    \* bound: segments of a command
    MaxQuestions,   \* bound: questions of the assistant
    MaxInputs,      \* bound: commands, answers and stops of the user
    MaxAtOnce       \* bound: the same, of a user who does not wait

ASSUME AssistantAssumption ==
    /\ Channels \subseteq {"web", "whatsapp", "telegram"}
    /\ MaxCommands \in Nat /\ MaxSegments \in Nat \ {0} /\ MaxQuestions \in Nat /\ MaxInputs \in Nat
    /\ MaxAtOnce \in 0..MaxInputs

VARIABLES
    run,                    \* the handlers
    source,                 \* userSources: where results go
    controller,             \* CancellationService: the controller registered, 0 for none
    aborted,                \* controllers that were aborted
    pendingConfirmation,    \* PendingConfirmationService: the delete that waits
    pendingGenerator,       \* pendingGenerators: the tool that waits for a choice
    list,                   \* pendingSelections of each messenger: the question of the list, 0 for none
    outbox,                 \* questions on their way to the user
    buttons,                \* questions of the Telegram chat whose buttons are still there
    commands, controllers, questions, inputs,   \* how many there were
    waits,                  \* the user lets every run end, and answers the last question where it was shown
    shown,                  \* history: the question the user saw last, until answered
    consent,                \* history: the deletes a user who waits said yes to
    executed,               \* history: what the segments of each command did, in order
    stopped,                \* history: command and segment where a user who waits pressed stop, until a choice goes on
    misfit                  \* history: a tool got an answer meant for another question (if the user waits)

pending == <<pendingConfirmation, pendingGenerator, list, buttons>>
cancelling == <<controller, aborted, controllers>>
asking == <<outbox, questions>>
history == <<shown, consent, executed, stopped, misfit>>
vars == <<run, source, pending, cancelling, asking, commands, inputs, waits, history>>

Messengers == {"whatsapp", "telegram"}
Pcs == {"idle", "start", "segment", "loop", "choose", "execute", "answer", "cancel", "drive"}
\* ctl: its controller.  yes: the question of the delete it runs, 0 for other tools.
Task == [cmd : 0..MaxCommands, i : Nat, n : 0..MaxSegments, ctl : Nat, del : BOOLEAN, yes : 0..MaxQuestions]
Blank == [cmd |-> 0, i |-> 0, n |-> 0, ctl |-> 0, del |-> FALSE, yes |-> 0]
\* own: it called RunFunctionCalling.  resumed: it goes on after a confirmed delete.  q: the question
\* whose answer it brings.  ch: where from.
Handler == [pc : Pcs, own : BOOLEAN, resumed : BOOLEAN, q : 0..MaxQuestions, ch : Channels \cup {"web"}, task : Task]
Idle == [pc |-> "idle", own |-> FALSE, resumed |-> FALSE, q |-> 0, ch |-> "web", task |-> Blank]
None == [q |-> 0, task |-> Blank]
Unseen == [q |-> 0, kind |-> "none", ch |-> "web"]

Init ==
    /\ run = [x \in Handlers |-> Idle]
    /\ source = "web"
    /\ controller = 0 /\ aborted = {} /\ controllers = 0
    /\ pendingConfirmation = None /\ pendingGenerator = None
    /\ list = [m \in Messengers |-> 0]
    /\ outbox = {} /\ buttons = {} /\ questions = 0
    /\ commands = 0 /\ inputs = 0
    /\ waits \in BOOLEAN
    /\ shown = Unseen /\ consent = {} /\ stopped = {} /\ misfit = FALSE
    /\ executed = [c \in 1..MaxCommands |-> <<>>]

Free(x) == run[x].pc = "idle"
Goto(x, pc) == run' = [run EXCEPT ![x].pc = pc]

(***************************************************************************)
(* CancellationService.                                                     *)
(***************************************************************************)
Abort == aborted' = IF controller = 0 THEN aborted ELSE aborted \cup {controller}
cancel == Abort /\ controller' = 0 /\ UNCHANGED controllers

start_Unregistered == Abort /\ controllers' = controllers + 1 /\ controller' = 0
start == Abort /\ controllers' = controllers + 1 /\ controller' = controllers'

\* finish takes away whichever controller is registered.
finish(x) == controller' = (IF run[x].own THEN 0 ELSE controller) /\ UNCHANGED <<aborted, controllers>>

(***************************************************************************)
(* A run.                                                                   *)
(***************************************************************************)
Leave(x) == run' = [run EXCEPT ![x] = Idle] /\ finish(x)

\* What the segment did, or that it was refused, failed or called off.
Done(t, ok) == executed' = [executed EXCEPT ![t.cmd] = Append(@, [i |-> t.i, ok |-> ok, del |-> t.del, yes |-> t.yes])]

\* The question goes out after the handler that asks it has returned (sendToolResult is not awaited).
Ask(kind) ==
    /\ questions < MaxQuestions
    /\ questions' = questions + 1
    /\ outbox' = outbox \cup {[q |-> questions', kind |-> kind, ch |-> source]}

\* RunFunctionCalling ends before it registers: no such conversation, the assistant is locked, a failed query.
Refuse(x) ==
    /\ run[x].pc = "start"
    /\ run' = [run EXCEPT ![x] = Idle]
    /\ UNCHANGED <<source, pending, cancelling, asking, commands, inputs, waits, history>>

\* It registers and saves the submission; if that fails, the controller stays registered.
Start(x) ==
    /\ run[x].pc = "start" /\ commands < MaxCommands
    /\ start
    /\ \/ /\ commands' = commands + 1
          /\ run' = [run EXCEPT ![x].pc = "segment", ![x].task.cmd = commands', ![x].task.ctl = controllers']
       \/ run' = [run EXCEPT ![x] = Idle] /\ UNCHANGED commands
    /\ UNCHANGED <<source, pending, asking, inputs, waits, history>>

\* segmentPromptIntoSubIntents, or an error.
Segment(x) ==
    /\ run[x].pc = "segment"
    /\ \/ Leave(x)
       \/ /\ \E n \in 1..MaxSegments :
                run' = [run EXCEPT ![x].pc = "loop", ![x].task.i = 1, ![x].task.n = n]
          /\ UNCHANGED cancelling
    /\ UNCHANGED <<source, pending, asking, commands, inputs, waits, history>>

\* The head of the loop of runSegments.
Loop(x) ==
    LET t == run[x].task
    IN  /\ run[x].pc = "loop"
        /\ \/ (t.i > t.n \/ t.ctl \in aborted) /\ Leave(x)
           \/ t.i <= t.n /\ t.ctl \notin aborted /\ Goto(x, "choose") /\ UNCHANGED cancelling
        /\ UNCHANGED <<source, pending, asking, commands, inputs, waits, history>>

askDelete(x, t) ==
    /\ Ask("delete")
    /\ pendingConfirmation' = [q |-> questions', task |-> t]
    /\ UNCHANGED <<pendingGenerator, list, buttons>>
    /\ Leave(x)

\* The tool: none (small talk), a delete, which has to be confirmed, or another; or the model does not answer.
Choose(x) ==
    LET t == run[x].task
    IN  /\ run[x].pc = "choose"
        /\ \/ run' = [run EXCEPT ![x].pc = "loop", ![x].task.i = t.i + 1] /\ UNCHANGED <<cancelling, pending, asking>>
           \/ Goto(x, "execute") /\ UNCHANGED <<cancelling, pending, asking>>
           \/ askDelete(x, [t EXCEPT !.del = TRUE])
           \/ Leave(x) /\ UNCHANGED <<pending, asking>>
        /\ UNCHANGED <<source, commands, inputs, waits, history>>

\* driveHandler, when the tool has something to ask.
askChoice(x, t) ==
    /\ Ask("choice")
    /\ pendingGenerator' = [q |-> questions', task |-> t]
    /\ UNCHANGED <<pendingConfirmation, list, buttons>>
    /\ Leave(x)

\* The segment with which a run goes on after an answer.
resumeIndex_Same(t) == t.i
resumeIndex(t) == t.i + 1
At(t, i, ctl) == [t EXCEPT !.i = i, !.ctl = ctl, !.del = FALSE, !.yes = 0]

\* runFinalStep: the tool does its work, fails, or asks.
Execute(x) ==
    LET t == run[x].task
    IN  /\ run[x].pc = "execute"
        /\ \/ /\ run' = [run EXCEPT ![x].pc = "loop",
                     ![x].task = At(t, IF run[x].resumed THEN resumeIndex(t) ELSE t.i + 1, t.ctl)]
              /\ Done(t, TRUE)
              /\ UNCHANGED <<pending, cancelling, asking>>
           \/ Leave(x) /\ Done(t, FALSE) /\ UNCHANGED <<pending, asking>>
           \/ askChoice(x, t) /\ UNCHANGED executed
        /\ UNCHANGED <<source, commands, inputs, waits, shown, consent, stopped, misfit>>

\* driveHandler with the answer, and the rest of the segments under a controller of their own.
Drive(x) ==
    LET t == run[x].task
    IN  /\ run[x].pc = "drive"
        /\ \/ /\ Done(t, TRUE)
              /\ \/ resumeIndex(t) > t.n /\ Leave(x)
                 \/ /\ resumeIndex(t) <= t.n
                    /\ start
                    /\ run' = [run EXCEPT ![x].pc = "loop", ![x].task = At(t, resumeIndex(t), controllers')]
              /\ UNCHANGED <<pending, asking>>
           \/ Leave(x) /\ Done(t, FALSE) /\ UNCHANGED <<pending, asking>>
           \/ askChoice(x, t) /\ UNCHANGED executed
        /\ UNCHANGED <<source, commands, inputs, waits, shown, consent, stopped, misfit>>

(***************************************************************************)
(* Questions and commands.                                                   *)
(***************************************************************************)
Quiet == \A x \in Handlers : Free(x)
Input == inputs < (IF waits THEN MaxInputs ELSE MaxAtOnce) /\ inputs' = inputs + 1
Patient == waits => Quiet /\ outbox = {}

\* The user answers the question m in the channel ch.
Answer(ch, m) ==
    /\ ch \in Channels
    /\ Input /\ Patient
    /\ waits => m # 0 /\ shown.q = m /\ shown.ch = ch
    /\ shown' = IF shown.q = m THEN Unseen ELSE shown
SaysYes(m, yes) == consent' = IF waits /\ yes THEN consent \cup {m} ELSE consent

\* sendSelectionRequest keeps the list when it sends it; askUser too, and sends buttons.
KeepList(e) == IF e.kind = "choice" /\ e.ch \in Messengers THEN [list EXCEPT ![e.ch] = e.q] ELSE list
KeepButtons(e) == IF e.ch = "telegram" THEN buttons \cup {e} ELSE buttons

Show(e) ==
    /\ e \in outbox
    /\ outbox' = outbox \ {e}
    /\ list' = KeepList(e)
    /\ buttons' = KeepButtons(e)
    /\ shown' = e
    /\ UNCHANGED <<run, source, pendingConfirmation, pendingGenerator, cancelling, questions, commands, inputs,
                   waits, consent, executed, stopped, misfit>>

Begin(x, ch) ==
    /\ Free(x) /\ ch \in Channels
    /\ Input /\ Patient
    /\ run' = [run EXCEPT ![x] = [Idle EXCEPT !.pc = "start", !.own = TRUE]]
    /\ source' = ch
    /\ UNCHANGED <<pending, cancelling, asking, commands, waits, history>>

WebMessage(x) == Begin(x, "web")
\* A text is a command when nothing waits for an answer; voice and files are commands in any case.
IsAwaitingAnswer == pendingConfirmation # None \/ pendingGenerator # None
WhatsappText(x) == ~IsAwaitingAnswer /\ list["whatsapp"] = 0 /\ Begin(x, "whatsapp")
WhatsappVoice(x) == Begin(x, "whatsapp")
BotText(x) == ~IsAwaitingAnswer /\ Begin(x, "telegram")
BotVoice(x) == Begin(x, "telegram")
Command(x) == WebMessage(x) \/ WhatsappText(x) \/ WhatsappVoice(x) \/ BotText(x) \/ BotVoice(x)

\* The stop button of the panel.  (Which runs it is meant for: see StopEnds.)
Stop ==
    LET Meant == {x \in Handlers : waits /\ run[x].pc \in {"segment", "loop", "choose", "execute"} /\ ~run[x].resumed}
    IN  /\ "web" \in Channels
        /\ Input
        /\ cancel
        /\ stopped' = stopped \cup
             {<<run[x].task.cmd, IF run[x].pc = "loop" THEN run[x].task.i - 1 ELSE run[x].task.i>> : x \in Meant}
        /\ UNCHANGED <<run, source, pending, asking, commands, waits, shown, consent, executed, misfit>>

(***************************************************************************)
(* Answers.                                                                 *)
(***************************************************************************)
\* The entry is cleared before anything is awaited.
resumePendingConfirmation(x, ch, confirmed) ==
    LET p == pendingConfirmation
    IN  /\ source' = ch
        /\ pendingConfirmation' = None
        /\ run' = IF p # None /\ confirmed
                    THEN [run EXCEPT ![x] = [Idle EXCEPT !.pc = "execute", !.resumed = TRUE,
                                                         !.task = [p.task EXCEPT !.yes = p.q]]]
                    ELSE run
        /\ IF p # None /\ ~confirmed THEN Done(p.task, FALSE) ELSE UNCHANGED executed
        /\ UNCHANGED <<pendingGenerator, cancelling, asking, commands, waits, stopped, misfit>>

\* The same; m is the question the value was meant for.
handleGeneratorResponse(x, ch, m, cancelled) ==
    LET p == pendingGenerator
    IN  /\ source' = IF p = None /\ ch = "telegram" THEN source ELSE ch
        /\ pendingGenerator' = None
        /\ run' = [run EXCEPT ![x] = IF p = None \/ cancelled THEN Idle
                                     ELSE [Idle EXCEPT !.pc = "drive", !.task = p.task]]
        /\ IF p # None /\ cancelled THEN Done(p.task, FALSE) ELSE UNCHANGED executed
        /\ misfit' = (misfit \/ (waits /\ p # None /\ ~cancelled /\ m # p.q))
        /\ stopped' = IF cancelled THEN stopped ELSE {s \in stopped : s[1] # p.task.cmd}
        /\ UNCHANGED <<pendingConfirmation, cancelling, asking, commands, waits>>

\* The panel: confirm-action and respond-to-pending-action, which name no question.
WebConfirm(x, yes) ==
    /\ Free(x) /\ shown.kind = "delete"
    /\ Answer("web", shown.q)
    /\ SaysYes(shown.q, yes)
    /\ resumePendingConfirmation(x, "web", yes)
    /\ UNCHANGED <<list, buttons>>

WebRespond(x, cancelled) ==
    /\ Free(x) /\ shown.kind = "choice"
    /\ Answer("web", shown.q)
    /\ handleGeneratorResponse(x, "web", shown.q, cancelled)
    /\ UNCHANGED <<list, buttons, consent>>

\* A choice from the messenger's list: the list is closed, a message is sent, then the tool gets the value.
ListReply(x, ch, m, cancelled) ==
    /\ list[ch] # 0
    /\ list' = [list EXCEPT ![ch] = 0]
    /\ run' = [run EXCEPT ![x] = [Idle EXCEPT !.pc = IF cancelled THEN "cancel" ELSE "answer", !.ch = ch,
                                              !.q = IF m = list[ch] THEN m ELSE 0]]
    /\ UNCHANGED <<source, pendingConfirmation, pendingGenerator, cancelling, asking, commands, waits, executed,
                   stopped, misfit>>

GiveAnswer(x) ==
    /\ run[x].pc \in {"answer", "cancel"}
    /\ handleGeneratorResponse(x, run[x].ch, run[x].q, run[x].pc = "cancel")
    /\ UNCHANGED <<list, buttons, shown, consent, inputs>>

(***************************************************************************)
(* WhatsApp.                                                                *)
(***************************************************************************)
DeleteReply(x, r) == resumePendingConfirmation(x, "whatsapp", r = "one") /\ UNCHANGED list
\* The bare number, which is no option of the tool.
NumberReply(x, r) == /\ pendingGenerator # None
                     /\ handleGeneratorResponse(x, "whatsapp", 0, r = "cancel")
                     /\ UNCHANGED list

\* handleIncomingMessage asks one map after the other; "one" and "two" are yes and no of a delete.
Route_DeleteFirst(x, r) ==
    IF pendingConfirmation # None THEN DeleteReply(x, r)
    ELSE IF list["whatsapp"] # 0 THEN ListReply(x, "whatsapp", shown.q, r = "cancel")
    ELSE NumberReply(x, r)

Route(x, r) ==
    IF list["whatsapp"] # 0 THEN ListReply(x, "whatsapp", shown.q, r = "cancel")
    ELSE IF pendingConfirmation # None THEN DeleteReply(x, r)
    ELSE NumberReply(x, r)

WhatsappReply(x, r) ==
    /\ Free(x)
    /\ Answer("whatsapp", shown.q)
    /\ SaysYes(shown.q, shown.kind = "delete" /\ r = "one")
    /\ Route(x, r)
    /\ UNCHANGED buttons

\* resetConversation: everything that waits is forgotten.
WhatsappHome ==
    /\ "whatsapp" \in Channels
    /\ Input /\ Patient
    /\ list' = [list EXCEPT !["whatsapp"] = 0]
    /\ pendingConfirmation' = None
    /\ pendingGenerator' = None
    /\ IF pendingGenerator = None THEN UNCHANGED <<source, executed>>
                                  ELSE source' = "whatsapp" /\ Done(pendingGenerator.task, FALSE)
    /\ UNCHANGED <<run, buttons, cancelling, asking, commands, waits, shown, consent, stopped, misfit>>

(***************************************************************************)
(* Telegram: the buttons name no question either, and old ones still work.    *)
(***************************************************************************)
Press(x, e) ==
    /\ Free(x) /\ e \in buttons
    /\ Answer("telegram", e.q)
    /\ buttons' = buttons \ {e}

ConfirmButton(x, e, yes) ==
    /\ e.kind = "delete" /\ Press(x, e)
    /\ SaysYes(e.q, yes)
    /\ resumePendingConfirmation(x, "telegram", yes)
    /\ UNCHANGED list

OptionButton(x, e) ==
    /\ e.kind = "choice" /\ Press(x, e)
    /\ ListReply(x, "telegram", e.q, FALSE)
    /\ UNCHANGED consent

CancelButton(x, e) ==
    /\ e.kind = "choice" /\ Press(x, e)
    /\ list' = [list EXCEPT !["telegram"] = 0]
    /\ handleGeneratorResponse(x, "telegram", e.q, TRUE)
    /\ UNCHANGED consent

Work(x) == Refuse(x) \/ Start(x) \/ Segment(x) \/ Loop(x) \/ Choose(x) \/ Execute(x) \/ Drive(x) \/ GiveAnswer(x)

Next ==
    \/ \E x \in Handlers : Work(x) \/ Command(x)
    \/ \E x \in Handlers, b \in BOOLEAN : WebConfirm(x, b) \/ WebRespond(x, b)
    \/ \E x \in Handlers, r \in {"one", "two", "cancel"} : WhatsappReply(x, r)
    \/ \E x \in Handlers, e \in buttons, b \in BOOLEAN : ConfirmButton(x, e, b)
    \/ \E x \in Handlers, e \in buttons : OptionButton(x, e) \/ CancelButton(x, e)
    \/ \E e \in outbox : Show(e)
    \/ WhatsappHome
    \/ Stop

Spec == Init /\ [][Next]_vars

(***************************************************************************)
(* Properties.                                                              *)
(***************************************************************************)
TypeOK ==
    /\ run \in [Handlers -> Handler]
    /\ source \in Channels \cup {"web"}
    /\ controller \in 0..controllers /\ aborted \subseteq 1..controllers
    /\ pendingConfirmation \in [q : 0..questions, task : Task]
    /\ pendingGenerator \in [q : 0..questions, task : Task]
    /\ list \in [Messengers -> 0..questions]
    /\ commands \in 0..MaxCommands /\ questions \in 0..MaxQuestions /\ inputs \in 0..MaxInputs
    /\ consent \subseteq 0..questions
    /\ waits \in BOOLEAN /\ misfit \in BOOLEAN

\* runSegments, resumePendingConfirmation, handleGeneratorResponse: however answers of several channels
\* meet, the segments of a command are done in order, none twice, and none after one that failed, was
\* refused or was called off.
SegmentsInOrder ==
    \A c \in 1..MaxCommands : \A k \in 2..Len(executed[c]) :
        executed[c][k - 1].ok /\ executed[c][k - 1].i < executed[c][k].i

\* handleIncomingMessage, handleDeleteConfirmationReply: a delete is done on the user's yes to its own
\* question, as long as the user answers the question shown last where it was shown, whatever else waits.
DeleteConsented ==
    waits => \A c \in 1..MaxCommands : \A k \in 1..Len(executed[c]) :
                 executed[c][k].del /\ executed[c][k].ok => executed[c][k].yes \in consent

\* CancellationService: after stop no later segment of the command is done, until the user answers a question
\* of its tool; if one run is under way at a time and it does not go on after a confirmed delete.
StopEnds ==
    waits => \A s \in stopped : \A k \in 1..Len(executed[s[1]]) : executed[s[1]][k].i <= s[2]

\* sendSelectionRequest, handleSelectionReply: a tool gets answers that were meant for its question.
AnswerFits == waits => ~misfit

\* CancellationService.start: of two runs at most one goes on.
OneRun ==
    \A x, y \in Handlers : x = y \/ run[x].pc \notin {"segment", "loop"} \/ run[y].pc \notin {"segment", "loop"}
                           \/ run[x].task.ctl \in aborted \/ run[y].task.ctl \in aborted
=============================================================================
