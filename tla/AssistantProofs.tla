---------------------------- MODULE AssistantProofs ----------------------------
(***************************************************************************)
(* Proofs about Assistant, for every number of handlers, commands, segments   *)
(* and questions.                                                           *)
(***************************************************************************)
EXTENDS Assistant, TLAPS

\* The handlers that work on a command.
Working == {"segment", "loop", "choose", "execute", "drive"}
Active(x) == run[x].pc \in Working

Question == [q : 1..questions, kind : {"delete", "choice"}, ch : Channels \cup {"web"}]
Entry == [i : Nat, ok : BOOLEAN, del : BOOLEAN, yes : 0..MaxQuestions]
Pending(p) == p \in [q : 0..questions, task : Task] /\ (p = None \/ p.task.cmd \in 1..commands)

TaskKnown(h) == /\ h.pc = "start" => h.task = Blank
                /\ h.pc = "segment" => h.task.i = 0
                /\ h.pc = "loop" => h.task.i # 0
                /\ h.pc \in Working => h.task.cmd \in 1..commands

\* The type invariant, the questions on their way and what was done included.
TInv ==
    /\ TypeOK
    /\ controllers \in Nat
    /\ outbox \subseteq Question /\ buttons \subseteq Question /\ shown \in Question \cup {Unseen}
    /\ executed \in [1..MaxCommands -> Seq(Entry)]
    /\ stopped \subseteq (1..commands) \X Nat
    /\ Pending(pendingConfirmation) /\ Pending(pendingGenerator)
    /\ \A x \in Handlers : TaskKnown(run[x])

\* One handler or one entry of the maps goes on with a command, never two.
OneHolder ==
    /\ \A x, y \in Handlers : Active(x) /\ Active(y) /\ run[x].task.cmd = run[y].task.cmd => x = y
    /\ \A x \in Handlers : Active(x) => /\ run[x].task.cmd # pendingConfirmation.task.cmd
                                        /\ run[x].task.cmd # pendingGenerator.task.cmd
    /\ pendingConfirmation.task.cmd # 0 => pendingConfirmation.task.cmd # pendingGenerator.task.cmd

\* The segments of one command that were done before the one the task is at.
Before(s, t) == \A k \in 1..Len(s) : s[k].ok /\ s[k].i < t.i
Fits(t) == t.cmd # 0 => Before(executed[t.cmd], t)
Ordered(s) == \A k \in 2..Len(s) : s[k - 1].ok /\ s[k - 1].i < s[k].i

\* The inductive invariant of the order of segments.
OInv ==
    /\ TInv /\ OneHolder
    /\ \A x \in Handlers : Active(x) => Fits(run[x].task)
    /\ Fits(pendingConfirmation.task) /\ Fits(pendingGenerator.task)
    /\ \A c \in 1..MaxCommands : c > commands => executed[c] = <<>>
    /\ SegmentsInOrder

\* The user who waits: one handler works at a time and its question is shown before the next input.
OneBusy ==
    /\ \A x, y \in Handlers : ~Free(x) /\ ~Free(y) => x = y
    /\ \A x \in Handlers : ~Free(x) => outbox = {}
    /\ \A e, f \in outbox : e = f

\* Questions have numbers of their own.
Numbered ==
    /\ \A e, f \in outbox \cup buttons : e.q = f.q => e = f
    /\ \A e \in outbox \cup buttons : e.q = shown.q => e = shown

\* The delete that waits is the one whose question was asked last, and a question of another kind
\* shown in WhatsApp has its list there.
LastAsked ==
    /\ pendingConfirmation # None =>
         /\ \A e \in outbox : e.kind = "delete" => e.q = pendingConfirmation.q
         /\ outbox = {} /\ shown.kind = "delete" => shown.q = pendingConfirmation.q
    /\ outbox = {} /\ shown.kind = "choice" /\ shown.ch = "whatsapp" /\ list["whatsapp"] = 0 =>
         pendingConfirmation = None

\* A delete that goes on has its yes.
Agreed(t) == t.del => t.yes \in consent
AllAgreed ==
    /\ \A x \in Handlers : Agreed(run[x].task)
    /\ Agreed(pendingGenerator.task)

\* A run is under the controller registered, or aborted.
Registered(h) ==
    h.pc \in {"segment", "loop", "choose", "execute"} /\ ~h.resumed =>
        h.task.ctl # 0 /\ (h.task.ctl = controller \/ h.task.ctl \in aborted)
Stoppable == \A x \in Handlers : Registered(run[x])

\* A command that was stopped goes no further than the segment it was at.
HaltedRun(s, h) ==
    h.pc \in Working /\ h.task.cmd = s[1] =>
        /\ h.pc # "drive" /\ h.task.ctl \in aborted
        /\ h.task.i <= IF h.pc \in {"segment", "loop"} THEN s[2] + 1 ELSE s[2]
Halted(s) ==
    /\ \A x \in Handlers : HaltedRun(s, run[x])
    /\ pendingConfirmation.task.cmd = s[1] =>
         pendingConfirmation.task.ctl \in aborted /\ pendingConfirmation.task.i <= s[2]
    /\ pendingGenerator.task.cmd = s[1] => pendingGenerator.task.i <= s[2]

\* The inductive invariant of the user who waits.
WInv ==
    /\ OInv /\ Numbered
    /\ waits => /\ OneBusy /\ LastAsked /\ AllAgreed /\ Stoppable
                /\ \A s \in stopped : Halted(s)
    /\ DeleteConsented /\ StopEnds

-----------------------------------------------------------------------------
(* Facts about the operators. *)

LEMMA Constants ==
    /\ Channels \subseteq {"web", "whatsapp", "telegram"}
    /\ MaxCommands \in Nat /\ MaxSegments \in Nat /\ MaxSegments # 0 /\ MaxQuestions \in Nat /\ MaxInputs \in Nat
    /\ MaxAtOnce \in Nat /\ MaxAtOnce <= MaxInputs
BY AssistantAssumption DEF AssistantAssumption

LEMMA BlankFacts ==
    /\ Blank \in Task /\ Blank.cmd = 0 /\ Blank.i = 0 /\ Blank.del = FALSE
    /\ Idle \in Handler /\ Idle.pc = "idle" /\ Idle.task = Blank /\ Idle.q = 0
    /\ None.q = 0 /\ None.task = Blank
    /\ Unseen.q = 0 /\ Unseen.kind = "none"
<1>1. Blank \in Task
  BY Constants DEF Blank, Task
<1>2. Blank.cmd = 0 /\ Blank.i = 0 /\ Blank.del = FALSE
  BY DEF Blank
<1>3. Idle \in Handler
  BY <1>1, Constants DEF Idle, Handler, Pcs
<1>4. Idle.pc = "idle" /\ Idle.task = Blank /\ Idle.q = 0
  BY DEF Idle
<1>5. None.q = 0 /\ None.task = Blank /\ Unseen.q = 0 /\ Unseen.kind = "none"
  BY DEF None, Unseen
<1> QED BY <1>1, <1>2, <1>3, <1>4, <1>5

LEMMA Types ==
    ASSUME TInv
    PROVE  /\ run \in [Handlers -> Handler] /\ source \in Channels \cup {"web"}
           /\ controllers \in Nat /\ controller \in 0..controllers /\ aborted \subseteq 1..controllers
           /\ Pending(pendingConfirmation) /\ Pending(pendingGenerator) /\ list \in [Messengers -> 0..questions]
           /\ commands \in Nat /\ commands <= MaxCommands /\ questions \in Nat /\ questions <= MaxQuestions
           /\ inputs \in Nat /\ inputs <= MaxInputs /\ waits \in BOOLEAN /\ misfit \in BOOLEAN
           /\ consent \subseteq 0..questions
           /\ outbox \subseteq Question /\ buttons \subseteq Question /\ shown \in Question \cup {Unseen}
           /\ executed \in [1..MaxCommands -> Seq(Entry)] /\ stopped \subseteq (1..commands) \X Nat
BY Constants DEF TInv, TypeOK

LEMMA TaskTypes ==
    ASSUME NEW t \in Task
    PROVE  /\ t.cmd \in 0..MaxCommands /\ t.i \in Nat /\ t.n \in 0..MaxSegments /\ t.ctl \in Nat /\ t.del \in BOOLEAN
           /\ t.yes \in 0..MaxQuestions
BY DEF Task

LEMMA RunTypes ==
    ASSUME TInv, NEW x \in Handlers
    PROVE  /\ run[x] \in Handler /\ run[x].task \in Task /\ run[x].pc \in Pcs /\ run[x].own \in BOOLEAN
           /\ run[x].resumed \in BOOLEAN /\ run[x].q \in 0..MaxQuestions /\ run[x].ch \in Channels \cup {"web"}
           /\ run[x].pc = "start" => run[x].task = Blank
           /\ Active(x) => run[x].task.cmd \in 1..commands
<1>1. run[x] \in Handler
  BY Types
<1> QED BY <1>1 DEF Handler, TInv, TaskKnown, Active

LEMMA PendingTypes ==
    ASSUME NEW p, Pending(p)
    PROVE  /\ p.task \in Task /\ p.q \in 0..questions
           /\ p = None \/ p.task.cmd \in 1..commands
           /\ p.task.cmd = 0 \/ p.task.cmd \in 1..commands
BY BlankFacts DEF Pending

LEMMA EntryTypes ==
    ASSUME NEW s \in Seq(Entry), NEW k \in 1..Len(s)
    PROVE  /\ s[k].i \in Nat /\ s[k].ok \in BOOLEAN /\ s[k].del \in BOOLEAN
<1>1. s[k] \in Entry
  OBVIOUS
<1> QED BY <1>1 DEF Entry

\* The handler x goes on as h.
LEMMA Put ==
    ASSUME TInv, NEW x \in Handlers, NEW h \in Handler, run' = [run EXCEPT ![x] = h]
    PROVE  run' \in [Handlers -> Handler] /\ run'[x] = h /\ \A y \in Handlers : y # x => run'[y] = run[y]
BY Types

LEMMA LeaveFacts ==
    ASSUME TInv, NEW x \in Handlers, Leave(x)
    PROVE  /\ run' = [run EXCEPT ![x] = Idle] /\ controller' \in {0, controller}
           /\ UNCHANGED <<aborted, controllers>>
BY DEF Leave, finish

LEMMA StartFacts ==
    ASSUME TInv, start
    PROVE  /\ controllers' = controllers + 1 /\ controllers' \in Nat /\ controller' = controllers'
           /\ controllers' # 0
           /\ aborted \subseteq aborted' /\ aborted' \subseteq 1..controllers'
           /\ controller = 0 \/ controller \in aborted'
<1>1. controllers' = controllers + 1 /\ controller' = controllers'
  BY DEF start
<1>2. aborted' = IF controller = 0 THEN aborted ELSE aborted \cup {controller}
  BY DEF start, Abort
<1> QED BY <1>1, <1>2, Types

LEMMA CancelFacts ==
    ASSUME TInv, cancel
    PROVE  /\ controllers' = controllers /\ controller' = 0
           /\ aborted \subseteq aborted' /\ aborted' \subseteq 1..controllers'
           /\ controller = 0 \/ controller \in aborted'
<1>1. controllers' = controllers /\ controller' = 0
  BY DEF cancel
<1>2. aborted' = IF controller = 0 THEN aborted ELSE aborted \cup {controller}
  BY DEF cancel, Abort
<1> QED BY <1>1, <1>2, Types

\* A question that is asked.
LEMMA AskFacts ==
    ASSUME TInv, NEW kind \in {"delete", "choice"}, Ask(kind)
    PROVE  /\ questions' = questions + 1 /\ questions' \in Nat /\ questions' <= MaxQuestions
           /\ outbox' = outbox \cup {[q |-> questions', kind |-> kind, ch |-> source]}
           /\ Question \subseteq Question' /\ outbox' \subseteq Question'
<1>1. questions' = questions + 1 /\ questions < MaxQuestions
      /\ outbox' = outbox \cup {[q |-> questions', kind |-> kind, ch |-> source]}
  BY DEF Ask
<1>2. questions' \in Nat /\ questions' <= MaxQuestions /\ 1..questions \subseteq 1..questions' /\ questions' \in 1..questions'
  BY <1>1, Types, Constants
<1>3. Question \subseteq Question'
  BY <1>2 DEF Question
<1>4. [q |-> questions', kind |-> kind, ch |-> source] \in Question'
  BY <1>2, Types DEF Question
<1> QED BY <1>1, <1>2, <1>3, <1>4, Types

\* What is appended to the record of a command.
LEMMA DoneFacts ==
    ASSUME TInv, NEW t \in Task, t.cmd \in 1..MaxCommands, NEW ok \in BOOLEAN, Done(t, ok)
    PROVE  /\ executed' \in [1..MaxCommands -> Seq(Entry)]
           /\ \A c \in 1..MaxCommands : c # t.cmd => executed'[c] = executed[c]
           /\ Len(executed[t.cmd]) \in Nat /\ Len(executed'[t.cmd]) = Len(executed[t.cmd]) + 1
           /\ \A k \in 1..Len(executed[t.cmd]) : executed'[t.cmd][k] = executed[t.cmd][k]
           /\ executed'[t.cmd][Len(executed[t.cmd]) + 1] = [i |-> t.i, ok |-> ok, del |-> t.del, yes |-> t.yes]
<1>1. PICK e : e = [i |-> t.i, ok |-> ok, del |-> t.del, yes |-> t.yes]
  OBVIOUS
<1>2. e \in Entry
  BY <1>1, TaskTypes DEF Entry
<1>3. PICK s \in Seq(Entry) : s = executed[t.cmd]
  BY Types
<1>4. PICK u : u = Append(s, e)
  OBVIOUS
<1>5. /\ u \in Seq(Entry) /\ Len(s) \in Nat /\ Len(u) = Len(s) + 1
      /\ (\A k \in 1..Len(s) : u[k] = s[k]) /\ u[Len(s) + 1] = e
  BY <1>2, <1>4
<1>6. executed' = [executed EXCEPT ![t.cmd] = u]
  BY <1>1, <1>3, <1>4 DEF Done
<1>7. /\ executed' \in [1..MaxCommands -> Seq(Entry)] /\ executed'[t.cmd] = u
      /\ \A c \in 1..MaxCommands : c # t.cmd => executed'[c] = executed[c]
  BY <1>5, <1>6, Types
<1> QED BY <1>1, <1>3, <1>5, <1>7

-----------------------------------------------------------------------------
(* Types and tokens of a step. *)

\* What a step may do to the rest of the state, as far as the types go.
LEMMA Typed ==
    ASSUME TInv, run' \in [Handlers -> Handler], \A y \in Handlers : TaskKnown(run[y])',
           source' \in Channels \cup {"web"},
           controllers' \in Nat, controller' \in 0..controllers', aborted' \subseteq 1..controllers',
           questions' \in Nat, questions' <= MaxQuestions, questions <= questions',
           commands' \in Nat, commands' <= MaxCommands, commands <= commands',
           inputs' \in Nat, inputs' <= MaxInputs, waits' = waits, misfit' \in BOOLEAN,
           Pending(pendingConfirmation)', Pending(pendingGenerator)', list' \in [Messengers -> 0..questions'],
           consent' \subseteq 0..questions', outbox' \subseteq Question', buttons' \subseteq Question',
           shown' \in (Question \cup {Unseen})', executed' \in [1..MaxCommands -> Seq(Entry)],
           stopped' \subseteq (1..commands) \X Nat
    PROVE  TInv'
<1>1. 1..commands \subseteq 1..commands' /\ commands' \in 0..MaxCommands
  BY Types
<1>2. stopped' \subseteq (1..commands') \X Nat
  BY <1>1
<1>3. /\ pendingConfirmation' \in [q : 0..questions', task : Task]
      /\ pendingGenerator' \in [q : 0..questions', task : Task]
  BY DEF Pending
<1>4. /\ questions' \in 0..MaxQuestions /\ inputs' \in 0..MaxInputs /\ waits' \in BOOLEAN
  BY Types, Constants
<1>5. TypeOK'
  BY <1>1, <1>3, <1>4 DEF TypeOK
<1> QED BY <1>2, <1>5, <1>1 DEF TInv

LEMMA SamePending ==
    ASSUME TInv, questions' \in Nat, questions <= questions', commands' \in Nat, commands <= commands', NEW p, Pending(p)
    PROVE  Pending(p)'
<1>1. 0..questions \subseteq 0..questions' /\ 1..commands \subseteq 1..commands'
  BY Types
<1> QED BY <1>1 DEF Pending

LEMMA NonePending ==
    ASSUME questions' \in Nat
    PROVE  Pending(None)'
BY BlankFacts DEF Pending, None

\* A step of the handler x that leaves the questions alone.
LEMMA RunTyped ==
    ASSUME TInv, NEW x \in Handlers, NEW h \in Handler, TaskKnown(h), run' = [run EXCEPT ![x] = h]
    PROVE  /\ run' \in [Handlers -> Handler] /\ run'[x] = h /\ (\A y \in Handlers : y # x => run'[y] = run[y])
           /\ \A y \in Handlers : commands' = commands => TaskKnown(run[y])'
<1>1. run' \in [Handlers -> Handler] /\ run'[x] = h /\ (\A y \in Handlers : y # x => run'[y] = run[y])
  BY Put
<1>2. \A y \in Handlers : TaskKnown(run'[y])
  BY <1>1 DEF TInv
<1> QED BY <1>1, <1>2 DEF TaskKnown

LEMMA IdleKnown == TaskKnown(Idle)
BY BlankFacts DEF TaskKnown, Working

\* Nothing about what runs and waits moves, except that tasks go on, end or are forgotten.
LEMMA Calm ==
    ASSUME OInv, TInv', executed' = executed, commands' = commands,
           \A y \in Handlers : Active(y)' => /\ Active(y) /\ run'[y].task.cmd = run[y].task.cmd
                                             /\ run'[y].task.i \in Nat /\ run[y].task.i <= run'[y].task.i,
           pendingConfirmation' \in {pendingConfirmation, None}, pendingGenerator' \in {pendingGenerator, None}
    PROVE  OInv'
<1>1. OneHolder'
  <2>1. \A y \in Handlers : Active(y)' => run'[y].task.cmd # 0
    BY RunTypes, Types DEF OInv
  <2> QED BY <2>1, BlankFacts DEF OInv, OneHolder
<1>2. Fits(pendingConfirmation.task)' /\ Fits(pendingGenerator.task)'
  BY BlankFacts DEF OInv, Fits
<1>3. \A y \in Handlers : Active(y)' => Fits(run[y].task)'
  <2> SUFFICES ASSUME NEW y \in Handlers, Active(y)' PROVE Fits(run[y].task)'
    OBVIOUS
  <2>1. Active(y) /\ run'[y].task.cmd = run[y].task.cmd /\ run'[y].task.i \in Nat /\ run[y].task.i <= run'[y].task.i
    OBVIOUS
  <2>2. PICK c \in 1..MaxCommands : c = run[y].task.cmd /\ executed[c] \in Seq(Entry)
    BY <2>1, RunTypes, Types, Constants DEF OInv
  <2>3. Before(executed[c], run[y].task)
    BY <2>1, <2>2 DEF OInv, Fits
  <2>4. \A k \in 1..Len(executed[c]) : executed[c][k].i \in Nat
    BY <2>2, EntryTypes
  <2>5. Before(executed[c], run'[y].task)
    BY <2>1, <2>3, <2>4, RunTypes, TaskTypes DEF Before, OInv
  <2> QED BY <2>1, <2>2, <2>5 DEF Fits, Before
<1>4. SegmentsInOrder' /\ \A c \in 1..MaxCommands : c > commands' => executed'[c] = <<>>
  BY DEF OInv, SegmentsInOrder
<1> QED BY <1>1, <1>2, <1>3, <1>4 DEF OInv

\* The token of the command c moves, and something may have been done for it.
LEMMA Tokens ==
    ASSUME OInv, TInv', commands' = commands, NEW c \in 1..commands,
           \A d \in 1..MaxCommands : d # c => executed'[d] = executed[d],
           \A y \in Handlers : Active(y)' => \/ Active(y) /\ run'[y] = run[y] /\ run[y].task.cmd # c
                                             \/ run'[y].task.cmd = c /\ Before(executed'[c], run'[y].task),
           \A y, z \in Handlers : Active(y)' /\ Active(z)' /\ run'[y].task.cmd = c /\ run'[z].task.cmd = c => y = z,
           \/ pendingConfirmation' \in {pendingConfirmation, None} /\ pendingConfirmation'.task.cmd # c
           \/ /\ pendingConfirmation'.task.cmd = c /\ Before(executed'[c], pendingConfirmation'.task)
              /\ pendingGenerator'.task.cmd # c /\ \A y \in Handlers : Active(y)' => run'[y].task.cmd # c,
           \/ pendingGenerator' \in {pendingGenerator, None} /\ pendingGenerator'.task.cmd # c
           \/ /\ pendingGenerator'.task.cmd = c /\ Before(executed'[c], pendingGenerator'.task)
              /\ pendingConfirmation'.task.cmd # c /\ \A y \in Handlers : Active(y)' => run'[y].task.cmd # c,
           Ordered(executed'[c])
    PROVE  OInv'
<1>1. c # 0 /\ c \in 1..MaxCommands
  BY Types, Constants DEF OInv
<1>2. \A y \in Handlers : Active(y)' => run'[y].task.cmd # 0
  BY <1>1, RunTypes, Types DEF OInv
<1>3. OneHolder'
  BY <1>1, <1>2, BlankFacts DEF OInv, OneHolder
<1>4. ASSUME NEW t \in Task, t.cmd # c, Fits(t) PROVE Fits(t)'
  BY <1>4, TaskTypes DEF Fits
<1>5. Fits(pendingConfirmation.task)'
  <2>1. CASE pendingConfirmation' = pendingConfirmation /\ pendingConfirmation'.task.cmd # c
    <3>1. pendingConfirmation.task \in Task /\ Fits(pendingConfirmation.task)
      BY PendingTypes, Types DEF OInv
    <3> QED BY <1>4, <2>1, <3>1 DEF Fits
  <2>2. CASE pendingConfirmation' = None
    BY <2>2, BlankFacts DEF Fits
  <2>3. CASE pendingConfirmation'.task.cmd = c /\ Before(executed'[c], pendingConfirmation'.task)
    BY <2>3 DEF Fits, Before
  <2> QED BY <2>1, <2>2, <2>3
<1>6. Fits(pendingGenerator.task)'
  <2>1. CASE pendingGenerator' = pendingGenerator /\ pendingGenerator'.task.cmd # c
    <3>1. pendingGenerator.task \in Task /\ Fits(pendingGenerator.task)
      BY PendingTypes, Types DEF OInv
    <3> QED BY <1>4, <2>1, <3>1 DEF Fits
  <2>2. CASE pendingGenerator' = None
    BY <2>2, BlankFacts DEF Fits
  <2>3. CASE pendingGenerator'.task.cmd = c /\ Before(executed'[c], pendingGenerator'.task)
    BY <2>3 DEF Fits, Before
  <2> QED BY <2>1, <2>2, <2>3
<1>7. \A y \in Handlers : Active(y)' => Fits(run[y].task)'
  <2> SUFFICES ASSUME NEW y \in Handlers, Active(y)' PROVE Fits(run[y].task)'
    OBVIOUS
  <2>1. CASE Active(y) /\ run'[y] = run[y] /\ run[y].task.cmd # c
    <3>1. run[y].task \in Task /\ Fits(run[y].task)
      BY <2>1, RunTypes DEF OInv
    <3> QED BY <1>4, <2>1, <3>1 DEF Fits
  <2>2. CASE run'[y].task.cmd = c /\ Before(executed'[c], run'[y].task)
    BY <2>2 DEF Fits, Before
  <2> QED BY <2>1, <2>2
<1>8. SegmentsInOrder'
  <2>1. \A d \in 1..MaxCommands : Ordered(executed'[d])
    BY DEF OInv, SegmentsInOrder, Ordered
  <2> QED BY <2>1 DEF SegmentsInOrder, Ordered
<1>9. \A d \in 1..MaxCommands : d > commands' => executed'[d] = <<>>
  <2>1. \A d \in 1..MaxCommands : d > commands => d # c
    BY Types DEF OInv
  <2> QED BY <2>1 DEF OInv
<1> QED BY <1>3, <1>5, <1>6, <1>7, <1>8, <1>9 DEF OInv

\* What was done for a task keeps the order.
LEMMA DoneInOrder ==
    ASSUME OInv, NEW t \in Task, t.cmd \in 1..MaxCommands, Fits(t), NEW ok \in BOOLEAN, Done(t, ok)
    PROVE  /\ Ordered(executed'[t.cmd])
           /\ \A u \in Task : ok /\ u.i > t.i => Before(executed'[t.cmd], u)
<1>1. PICK s : s = executed[t.cmd]
  OBVIOUS
<1>2. PICK u : u = executed'[t.cmd]
  OBVIOUS
<1>3. PICK e : e = [i |-> t.i, ok |-> ok, del |-> t.del, yes |-> t.yes]
  OBVIOUS
<1>4. /\ Len(s) \in Nat /\ Len(u) = Len(s) + 1 /\ (\A k \in 1..Len(s) : u[k] = s[k]) /\ u[Len(s) + 1] = e
  BY <1>1, <1>2, <1>3, DoneFacts DEF OInv
<1>5. e.i = t.i /\ e.ok = ok
  BY <1>3
<1>6. Before(s, t) /\ Ordered(s)
  BY <1>1 DEF OInv, Fits, SegmentsInOrder, Ordered
<1>7. \A k \in 1..Len(s) : s[k].i \in Nat
  <2>1. s \in Seq(Entry)
    BY <1>1, Types DEF OInv
  <2> QED BY <2>1, EntryTypes
<1>8. Ordered(u)
  <2> SUFFICES ASSUME NEW k \in 2..Len(u) PROVE u[k - 1].ok /\ u[k - 1].i < u[k].i
    BY DEF Ordered
  <2>1. CASE k \in 2..Len(s)
    <3>1. k \in 1..Len(s) /\ k - 1 \in 1..Len(s)
      BY <1>4, <2>1
    <3> QED BY <1>4, <1>6, <2>1, <3>1 DEF Ordered
  <2>2. CASE k = Len(s) + 1
    <3>1. k - 1 \in 1..Len(s)
      BY <1>4, <2>2
    <3> QED BY <1>4, <1>5, <1>6, <2>2, <3>1 DEF Before
  <2> QED BY <1>4, <2>1, <2>2
<1>9. ASSUME NEW v \in Task, ok, v.i > t.i PROVE Before(u, v)
  <2> SUFFICES ASSUME NEW k \in 1..Len(u) PROVE u[k].ok /\ u[k].i < v.i
    BY DEF Before
  <2>1. CASE k \in 1..Len(s)
    <3>1. s[k].ok /\ s[k].i < t.i /\ s[k].i \in Nat
      BY <1>6, <1>7, <2>1 DEF Before
    <3> QED BY <1>4, <1>9, <2>1, <3>1, TaskTypes
  <2>2. CASE k = Len(s) + 1
    BY <1>4, <1>5, <1>9, <2>2
  <2> QED BY <1>4, <2>1, <2>2
<1> QED BY <1>2, <1>8, <1>9

\* A step that asks no question and gives no command its number.
LEMMA KeepTyped ==
    ASSUME TInv, run' \in [Handlers -> Handler], \A y \in Handlers : TaskKnown(run[y])',
           UNCHANGED <<questions, commands, waits>>, source' \in Channels \cup {"web"},
           controllers' \in Nat, controller' \in 0..controllers', aborted' \subseteq 1..controllers',
           inputs' \in Nat, inputs' <= MaxInputs, misfit' \in BOOLEAN,
           Pending(pendingConfirmation'), Pending(pendingGenerator'), list' \in [Messengers -> 0..questions],
           consent' \subseteq 0..questions, outbox' \subseteq outbox, buttons' \subseteq buttons \cup outbox,
           shown' \in outbox \cup {shown, Unseen}, executed' \in [1..MaxCommands -> Seq(Entry)],
           stopped' \subseteq (1..commands) \X Nat
    PROVE  TInv'
<1>1. Pending(pendingConfirmation)' /\ Pending(pendingGenerator)'
  BY DEF Pending
<1>2. Question' = Question
  BY DEF Question
<1>3. outbox' \subseteq Question' /\ buttons' \subseteq Question' /\ shown' \in (Question \cup {Unseen})'
  BY <1>2, Types
<1> QED BY <1>1, <1>3, Types, Typed

\* A handler goes on, or ends, and nothing is done or asked.
LEMMA WalkOrder ==
    ASSUME OInv, NEW x \in Handlers, NEW h \in Handler, run' = [run EXCEPT ![x] = h], h.pc \notin {"start", "segment"},
           h.pc \in Working => Active(x) /\ h.task.cmd = run[x].task.cmd /\ run[x].task.i <= h.task.i,
           h.pc = "loop" => h.task.i # 0,
           controllers' \in Nat, controller' \in 0..controllers', aborted' \subseteq 1..controllers',
           UNCHANGED <<source, pendingConfirmation, pendingGenerator, list, buttons, outbox, questions, commands, inputs,
                       waits, shown, consent, executed, stopped, misfit>>
    PROVE  OInv'
<1>1. TaskKnown(h) /\ TInv
  BY RunTypes DEF OInv, TaskKnown
<1>2. /\ run' \in [Handlers -> Handler] /\ run'[x] = h /\ (\A y \in Handlers : y # x => run'[y] = run[y])
      /\ \A y \in Handlers : TaskKnown(run[y])'
  BY <1>1, RunTyped
<1>3. TInv'
  BY <1>1, <1>2, Types, KeepTyped
<1>4. h.task.i \in Nat
  BY TaskTypes DEF Handler
<1>5. \A y \in Handlers : Active(y)' => /\ Active(y) /\ run'[y].task.cmd = run[y].task.cmd
                                        /\ run'[y].task.i \in Nat /\ run[y].task.i <= run'[y].task.i
  BY <1>1, <1>2, <1>4, RunTypes, TaskTypes DEF Active
<1> QED BY <1>3, <1>5, Calm

\* A handler does its segment, or fails at it.
LEMMA FinishOrder ==
    ASSUME OInv, NEW x \in Handlers, Active(x), NEW h \in Handler, run' = [run EXCEPT ![x] = h],
           h.pc \notin {"start", "segment"},
           NEW ok \in BOOLEAN, Done(run[x].task, ok),
           h.pc \in Working => ok /\ h.task.cmd = run[x].task.cmd /\ run[x].task.i < h.task.i,
           controllers' \in Nat, controller' \in 0..controllers', aborted' \subseteq 1..controllers',
           UNCHANGED <<source, pendingConfirmation, pendingGenerator, list, buttons, outbox, questions, commands, inputs,
                       waits, shown, consent, stopped, misfit>>
    PROVE  OInv'
<1>1. TaskKnown(h) /\ TInv
  <2>1. TInv /\ run[x].task.i \in Nat
    BY RunTypes, TaskTypes DEF OInv
  <2>2. h.pc = "loop" => h.task.i # 0
    BY <2>1, TaskTypes DEF Working, Handler
  <2> QED BY <2>1, <2>2, RunTypes DEF TaskKnown
<1>2. /\ run' \in [Handlers -> Handler] /\ run'[x] = h /\ (\A y \in Handlers : y # x => run'[y] = run[y])
      /\ \A y \in Handlers : TaskKnown(run[y])'
  BY <1>1, RunTyped
<1>3. PICK t \in Task : t = run[x].task
  BY <1>1, RunTypes
<1>4. PICK c \in 1..commands : c = t.cmd
  BY <1>1, <1>3, RunTypes
<1>5. c \in 1..MaxCommands
  BY <1>1, Types, Constants
<1>6. /\ executed' \in [1..MaxCommands -> Seq(Entry)]
      /\ \A d \in 1..MaxCommands : d # c => executed'[d] = executed[d]
  BY <1>1, <1>3, <1>4, <1>5, DoneFacts
<1>7. TInv'
  BY <1>1, <1>2, <1>6, Types, KeepTyped
<1>8. Fits(t)
  BY <1>3 DEF OInv
<1>9. Ordered(executed'[c]) /\ \A u \in Task : ok /\ u.i > t.i => Before(executed'[c], u)
  BY <1>3, <1>4, <1>5, <1>8, DoneInOrder
<1>10. h.pc \in Working => Before(executed'[c], h.task)
  <2>1. h.task \in Task
    BY DEF Handler
  <2> QED BY <1>3, <1>9, <2>1, TaskTypes
<1>11. \A y \in Handlers : y # x /\ Active(y) => run[y].task.cmd # c
  BY <1>3, <1>4 DEF OInv, OneHolder
<1>12. \A y \in Handlers : Active(y)' => \/ Active(y) /\ run'[y] = run[y] /\ run[y].task.cmd # c
                                         \/ run'[y].task.cmd = c /\ Before(executed'[c], run'[y].task)
  BY <1>2, <1>3, <1>4, <1>10, <1>11 DEF Active
<1>13. \A y, z \in Handlers : Active(y)' /\ Active(z)' /\ run'[y].task.cmd = c /\ run'[z].task.cmd = c => y = z
  BY <1>2, <1>11 DEF Active
<1>14. pendingConfirmation.task.cmd # c /\ pendingGenerator.task.cmd # c
  BY <1>3, <1>4 DEF OInv, OneHolder
<1> QED BY <1>6, <1>7, <1>9, <1>12, <1>13, <1>14, Tokens

\* A handler asks its question and returns; the task waits for the answer.
LEMMA AskOrder ==
    ASSUME OInv, NEW x \in Handlers, Active(x), NEW kind \in {"delete", "choice"}, Ask(kind),
           NEW u \in Task, u.cmd = run[x].task.cmd, u.i = run[x].task.i, NEW p, p = [q |-> questions', task |-> u],
           \/ kind = "delete" /\ pendingConfirmation' = p /\ pendingGenerator' = pendingGenerator
           \/ kind = "choice" /\ pendingGenerator' = p /\ pendingConfirmation' = pendingConfirmation,
           run' = [run EXCEPT ![x] = Idle],
           controllers' \in Nat, controller' \in 0..controllers', aborted' \subseteq 1..controllers',
           UNCHANGED <<source, list, buttons, commands, inputs, waits, shown, consent, executed, stopped, misfit>>
    PROVE  OInv'
<1>1. TInv
  BY DEF OInv
<1>2. /\ run' \in [Handlers -> Handler] /\ run'[x] = Idle /\ (\A y \in Handlers : y # x => run'[y] = run[y])
      /\ \A y \in Handlers : TaskKnown(run[y])'
  BY <1>1, BlankFacts, IdleKnown, RunTyped
<1>3. /\ questions' = questions + 1 /\ questions' \in Nat /\ questions' <= MaxQuestions
      /\ Question \subseteq Question' /\ outbox' \subseteq Question'
  BY <1>1, AskFacts
<1>4. PICK c \in 1..commands : c = u.cmd
  BY <1>1, RunTypes
<1>5. p.task = u /\ Pending(p)'
  BY <1>3, <1>4 DEF Pending
<1>6. Pending(pendingConfirmation)' /\ Pending(pendingGenerator)'
  <2>1. questions <= questions' /\ commands' \in Nat /\ commands <= commands'
    BY <1>1, <1>3, Types
  <2>2. \A r : Pending(r) => Pending(r)'
    BY <1>1, <1>3, <2>1, SamePending
  <2>3. Pending(pendingConfirmation) /\ Pending(pendingGenerator)
    BY <1>1, Types
  <2> QED BY <1>5, <2>2, <2>3 DEF Pending
<1>7. TInv'
  <2>1. list' \in [Messengers -> 0..questions'] /\ consent' \subseteq 0..questions' /\ buttons' \subseteq Question'
        /\ shown' \in (Question \cup {Unseen})'
    <3>1. 0..questions \subseteq 0..questions'
      BY <1>1, <1>3, Types
    <3>2. list \in [Messengers -> 0..questions'] /\ consent \subseteq 0..questions'
      BY <1>1, <3>1, Types
    <3> QED BY <1>1, <1>3, <3>2, Types
  <2>2. questions <= questions' /\ commands <= commands'
    BY <1>1, <1>3, Types
  <2> QED BY <1>1, <1>2, <1>3, <1>6, <2>1, <2>2, Types, Typed
<1>8. c \in 1..MaxCommands
  BY <1>1, Types, Constants
<1>9. Before(executed'[c], u) /\ Ordered(executed'[c])
  <2>1. Before(executed[c], run[x].task)
    BY <1>4, <1>8 DEF OInv, Fits
  <2>2. Ordered(executed[c])
    BY <1>8 DEF OInv, SegmentsInOrder, Ordered
  <2> QED BY <2>1, <2>2 DEF Before
<1>10. \A y \in Handlers : y # x /\ Active(y) => run[y].task.cmd # c
  BY <1>4 DEF OInv, OneHolder
<1>11. \A y \in Handlers : Active(y)' => Active(y) /\ run'[y] = run[y] /\ run[y].task.cmd # c
  BY <1>2, <1>10, BlankFacts DEF Active, Working
<1>12. pendingConfirmation.task.cmd # c /\ pendingGenerator.task.cmd # c
  BY <1>4 DEF OInv, OneHolder
<1>13. CASE kind = "delete" /\ pendingConfirmation' = p /\ pendingGenerator' = pendingGenerator
  BY <1>4, <1>5, <1>7, <1>9, <1>11, <1>12, <1>13, Tokens
<1>14. CASE kind = "choice" /\ pendingGenerator' = p /\ pendingConfirmation' = pendingConfirmation
  BY <1>4, <1>5, <1>7, <1>9, <1>11, <1>12, <1>14, Tokens
<1> QED BY <1>13, <1>14

\* A delete is confirmed or refused.
LEMMA ConfirmOrder ==
    ASSUME OInv, NEW x \in Handlers, ~Active(x), NEW ch \in Channels \cup {"web"}, NEW confirmed \in BOOLEAN,
           resumePendingConfirmation(x, ch, confirmed),
           inputs' \in Nat, inputs' <= MaxInputs, list' = list, consent' \subseteq 0..questions,
           buttons' \subseteq buttons, shown' \in {shown, Unseen}
    PROVE  OInv'
<1>1. /\ pendingConfirmation' = None /\ source' = ch
      /\ UNCHANGED <<pendingGenerator, controller, aborted, controllers, outbox, questions, commands, waits, stopped, misfit>>
  BY DEF resumePendingConfirmation, cancelling, asking
<1>2. TInv
  BY DEF OInv
<1>3. PICK p : p = pendingConfirmation
  OBVIOUS
<1>4. p.task \in Task /\ p.q \in 0..questions /\ (p = None \/ p.task.cmd \in 1..commands)
  BY <1>2, <1>3, PendingTypes, Types
<1>5. Pending(None) /\ Pending(pendingGenerator)
  <2>1. Pending(None)
    BY <1>2, BlankFacts, Types DEF Pending, None
  <2> QED BY <1>2, <2>1, Types
<1>6. CASE p = None
  <2>1. run' = run /\ executed' = executed
    BY <1>3, <1>6 DEF resumePendingConfirmation
  <2>2. \A y \in Handlers : TaskKnown(run[y])'
    BY <1>1, <1>2, <2>1 DEF TInv, TaskKnown
  <2>3. TInv'
    BY <1>1, <1>2, <1>5, <2>1, <2>2, Types, KeepTyped
  <2>4. \A y \in Handlers : Active(y)' => /\ Active(y) /\ run'[y].task.cmd = run[y].task.cmd
                                          /\ run'[y].task.i \in Nat /\ run[y].task.i <= run'[y].task.i
    BY <1>2, <2>1, RunTypes, TaskTypes DEF Active
  <2> QED BY <1>1, <2>1, <2>3, <2>4, Calm
<1>7. CASE p # None
  <2>1. PICK c \in 1..commands : c = p.task.cmd
    BY <1>4, <1>7
  <2>2. c \in 1..MaxCommands /\ c # 0
    BY <1>2, Types, Constants
  <2>3. Fits(p.task) /\ Before(executed[c], p.task) /\ Ordered(executed[c])
    BY <1>3, <2>1, <2>2 DEF OInv, Fits, SegmentsInOrder, Ordered
  <2>4. \A y \in Handlers : Active(y) => run[y].task.cmd # c
    BY <1>3, <2>1 DEF OInv, OneHolder
  <2>5. pendingGenerator.task.cmd # c /\ None.task.cmd # c
    BY <1>3, <2>1, <2>2, BlankFacts DEF OInv, OneHolder
  <2>6. CASE confirmed
    <3>1. PICK t : t = [p.task EXCEPT !.yes = p.q]
      OBVIOUS
    <3>2. t \in Task
      <4>1. p.q \in 0..MaxQuestions
        BY <1>2, <1>4, Types, Constants
      <4> QED BY <1>4, <3>1, <4>1 DEF Task
    <3>3. t.cmd = p.task.cmd /\ t.i = p.task.i
      BY <1>4, <3>1 DEF Task
    <3>4. PICK h : h = [Idle EXCEPT !.pc = "execute", !.resumed = TRUE, !.task = t]
      OBVIOUS
    <3>5. h \in Handler
      BY <3>2, <3>4, BlankFacts DEF Handler, Pcs
    <3>6. h.pc = "execute" /\ h.task = t
      BY <3>4 DEF Idle
    <3>7. run' = [run EXCEPT ![x] = h] /\ executed' = executed
      BY <1>3, <1>7, <2>6, <3>1, <3>4 DEF resumePendingConfirmation
    <3>8. TaskKnown(h)
      BY <2>1, <3>3, <3>6 DEF TaskKnown
    <3>9. /\ run' \in [Handlers -> Handler] /\ run'[x] = h /\ (\A y \in Handlers : y # x => run'[y] = run[y])
          /\ \A y \in Handlers : TaskKnown(run[y])'
      BY <1>1, <1>2, <3>5, <3>7, <3>8, RunTyped
    <3>10. TInv'
      BY <1>1, <1>2, <1>5, <3>7, <3>9, Types, KeepTyped
    <3>11. Before(executed'[c], h.task)
      BY <2>3, <3>3, <3>6, <3>7 DEF Before
    <3>12. \A y \in Handlers : Active(y)' => \/ Active(y) /\ run'[y] = run[y] /\ run[y].task.cmd # c
                                             \/ run'[y].task.cmd = c /\ Before(executed'[c], run'[y].task)
      BY <2>1, <2>4, <3>3, <3>6, <3>9, <3>11 DEF Active
    <3>13. \A y, z \in Handlers : Active(y)' /\ Active(z)' /\ run'[y].task.cmd = c /\ run'[z].task.cmd = c => y = z
      BY <2>4, <3>9 DEF Active
    <3> QED BY <1>1, <2>3, <2>5, <3>7, <3>10, <3>12, <3>13, Tokens
  <2>7. CASE ~confirmed
    <3>1. run' = run /\ Done(p.task, FALSE)
      BY <1>3, <1>7, <2>7 DEF resumePendingConfirmation
    <3>2. executed' \in [1..MaxCommands -> Seq(Entry)] /\ \A d \in 1..MaxCommands : d # c => executed'[d] = executed[d]
      BY <1>2, <1>4, <2>1, <2>2, <3>1, DoneFacts
    <3>3. \A y \in Handlers : TaskKnown(run[y])'
      BY <1>1, <1>2, <3>1 DEF TInv, TaskKnown
    <3>4. TInv'
      BY <1>1, <1>2, <1>5, <3>1, <3>2, <3>3, Types, KeepTyped
    <3>5. Ordered(executed'[c])
      BY <1>4, <2>1, <2>2, <2>3, <3>1, DoneInOrder
    <3>6. \A y \in Handlers : Active(y)' => Active(y) /\ run'[y] = run[y] /\ run[y].task.cmd # c
      BY <2>4, <3>1 DEF Active
    <3> QED BY <1>1, <2>5, <3>2, <3>4, <3>5, <3>6, Tokens
  <2> QED BY <2>6, <2>7
<1> QED BY <1>6, <1>7

\* The tool gets its answer, or is called off.
LEMMA RespondOrder ==
    ASSUME OInv, NEW x \in Handlers, ~Active(x), NEW ch \in Channels \cup {"web"}, NEW m, NEW cancelled \in BOOLEAN,
           handleGeneratorResponse(x, ch, m, cancelled),
           inputs' \in Nat, inputs' <= MaxInputs, list' \in [Messengers -> 0..questions], consent' \subseteq 0..questions,
           buttons' \subseteq buttons, shown' \in {shown, Unseen}
    PROVE  OInv'
<1>1. /\ pendingGenerator' = None /\ source' \in {ch, source}
      /\ UNCHANGED <<pendingConfirmation, controller, aborted, controllers, outbox, questions, commands, waits>>
      /\ stopped' \subseteq stopped
  BY DEF handleGeneratorResponse, cancelling, asking
<1>2. TInv
  BY DEF OInv
<1>3. PICK p : p = pendingGenerator
  OBVIOUS
<1>4. p.task \in Task /\ p.q \in 0..questions /\ (p = None \/ p.task.cmd \in 1..commands)
  BY <1>2, <1>3, PendingTypes, Types
<1>5. Pending(None) /\ Pending(pendingConfirmation)
  <2>1. Pending(None)
    BY <1>2, BlankFacts, Types DEF Pending, None
  <2> QED BY <1>2, <2>1, Types
<1>6. misfit' \in BOOLEAN /\ source' \in Channels \cup {"web"} /\ stopped' \subseteq (1..commands) \X Nat
  <2>1. misfit' \in BOOLEAN
    BY <1>2, Types DEF handleGeneratorResponse
  <2> QED BY <1>1, <1>2, <2>1, Types
<1>7. CASE p = None \/ cancelled
  <2>1. run' = [run EXCEPT ![x] = Idle]
    BY <1>3, <1>7 DEF handleGeneratorResponse
  <2>2. /\ run' \in [Handlers -> Handler] /\ run'[x] = Idle /\ (\A y \in Handlers : y # x => run'[y] = run[y])
        /\ \A y \in Handlers : TaskKnown(run[y])'
    BY <1>1, <1>2, <2>1, BlankFacts, IdleKnown, RunTyped
  <2>3. \A y \in Handlers : Active(y)' => Active(y) /\ run'[y] = run[y]
    BY <2>2, BlankFacts DEF Active, Working
  <2>4. CASE p = None
    <3>1. executed' = executed
      BY <1>3, <2>4 DEF handleGeneratorResponse
    <3>2. TInv'
      BY <1>1, <1>2, <1>5, <1>6, <2>2, <3>1, Types, KeepTyped
    <3>3. \A y \in Handlers : Active(y)' => /\ Active(y) /\ run'[y].task.cmd = run[y].task.cmd
                                            /\ run'[y].task.i \in Nat /\ run[y].task.i <= run'[y].task.i
      BY <1>2, <2>3, RunTypes, TaskTypes
    <3> QED BY <1>1, <3>1, <3>2, <3>3, Calm
  <2>5. CASE p # None /\ cancelled
    <3>1. PICK c \in 1..commands : c = p.task.cmd
      BY <1>4, <2>5
    <3>2. c \in 1..MaxCommands /\ c # 0
      BY <1>2, Types, Constants
    <3>3. Done(p.task, FALSE)
      BY <1>3, <2>5 DEF handleGeneratorResponse
    <3>4. executed' \in [1..MaxCommands -> Seq(Entry)] /\ \A d \in 1..MaxCommands : d # c => executed'[d] = executed[d]
      BY <1>2, <1>4, <3>1, <3>2, <3>3, DoneFacts
    <3>5. TInv'
      BY <1>1, <1>2, <1>5, <1>6, <2>2, <3>4, Types, KeepTyped
    <3>6. Fits(p.task)
      BY <1>3 DEF OInv
    <3>7. Ordered(executed'[c])
      BY <1>4, <3>1, <3>2, <3>3, <3>6, DoneInOrder
    <3>8. \A y \in Handlers : Active(y)' => Active(y) /\ run'[y] = run[y] /\ run[y].task.cmd # c
      BY <1>3, <2>3, <3>1 DEF OInv, OneHolder
    <3>9. pendingConfirmation.task.cmd # c /\ None.task.cmd # c
      BY <1>3, <3>1, <3>2, BlankFacts DEF OInv, OneHolder
    <3> QED BY <1>1, <3>4, <3>5, <3>7, <3>8, <3>9, Tokens
  <2> QED BY <1>7, <2>4, <2>5
<1>8. CASE p # None /\ ~cancelled
  <2>1. PICK c \in 1..commands : c = p.task.cmd
    BY <1>4, <1>8
  <2>2. c \in 1..MaxCommands /\ c # 0
    BY <1>2, Types, Constants
  <2>3. Before(executed[c], p.task) /\ Ordered(executed[c])
    BY <1>3, <2>1, <2>2 DEF OInv, Fits, SegmentsInOrder, Ordered
  <2>4. \A y \in Handlers : Active(y) => run[y].task.cmd # c
    BY <1>3, <2>1 DEF OInv, OneHolder
  <2>5. pendingConfirmation.task.cmd # c /\ None.task.cmd # c
    BY <1>3, <2>1, <2>2, BlankFacts DEF OInv, OneHolder
  <2>6. PICK t \in Task : t = p.task
    BY <1>4
  <2>7. PICK h : h = [Idle EXCEPT !.pc = "drive", !.task = t]
    OBVIOUS
  <2>8. h \in Handler
    BY <2>6, <2>7, BlankFacts DEF Handler, Pcs
  <2>9. h.pc = "drive" /\ h.task = t
    BY <2>7 DEF Idle
  <2>10. run' = [run EXCEPT ![x] = h] /\ executed' = executed
    BY <1>3, <1>8, <2>6, <2>7 DEF handleGeneratorResponse
  <2>11. TaskKnown(h)
    BY <2>1, <2>6, <2>9 DEF TaskKnown
  <2>12. /\ run' \in [Handlers -> Handler] /\ run'[x] = h /\ (\A y \in Handlers : y # x => run'[y] = run[y])
         /\ \A y \in Handlers : TaskKnown(run[y])'
    BY <1>1, <1>2, <2>8, <2>10, <2>11, RunTyped
  <2>13. TInv'
    BY <1>1, <1>2, <1>5, <1>6, <2>10, <2>12, Types, KeepTyped
  <2>14. \A y \in Handlers : Active(y)' => \/ Active(y) /\ run'[y] = run[y] /\ run[y].task.cmd # c
                                           \/ run'[y].task.cmd = c /\ Before(executed'[c], run'[y].task)
    BY <2>1, <2>3, <2>4, <2>6, <2>9, <2>10, <2>12 DEF Active
  <2>15. \A y, z \in Handlers : Active(y)' /\ Active(z)' /\ run'[y].task.cmd = c /\ run'[z].task.cmd = c => y = z
    BY <2>4, <2>12 DEF Active
  <2> QED BY <1>1, <2>3, <2>5, <2>10, <2>13, <2>14, <2>15, Tokens
<1> QED BY <1>7, <1>8

-----------------------------------------------------------------------------
(* The user who waits. *)

LEMMA WaitsTypes ==
    ASSUME WInv
    PROVE  /\ OInv /\ TInv /\ Numbered /\ DeleteConsented /\ StopEnds
           /\ waits => OneBusy /\ LastAsked /\ AllAgreed /\ Stoppable /\ \A s \in stopped : Halted(s)
BY DEF WInv, OInv

\* The others do nothing when one handler works, or when the user acts.
Alone(x) == outbox = {} /\ \A y \in Handlers : y # x => Free(y)

LEMMA AloneFacts ==
    ASSUME WInv, waits, NEW x \in Handlers, ~Free(x) \/ Patient
    PROVE  Alone(x)
BY WaitsTypes DEF OneBusy, Patient, Quiet, Alone

LEMMA FreeRun ==
    ASSUME NEW h, h.pc = "idle"
    PROVE  Registered(h)' /\ \A s : HaltedRun(s, h)'
BY DEF Registered, HaltedRun, Working

\* What was done for a task that has its yes and is not past where its command was stopped.
LEMMA DoneWaits ==
    ASSUME WInv, NEW t \in Task, t.cmd \in 1..MaxCommands, NEW ok \in BOOLEAN, Done(t, ok), waits' = waits,
           consent \subseteq consent', stopped' \subseteq stopped,
           waits /\ ok => Agreed(t), waits => \A s \in stopped' : s[1] = t.cmd => t.i <= s[2]
    PROVE  DeleteConsented' /\ StopEnds'
<1>1. PICK s : s = executed[t.cmd]
  OBVIOUS
<1>2. PICK u : u = executed'[t.cmd]
  OBVIOUS
<1>3. PICK e : e = [i |-> t.i, ok |-> ok, del |-> t.del, yes |-> t.yes]
  OBVIOUS
<1>4. /\ Len(s) \in Nat /\ Len(u) = Len(s) + 1 /\ (\A k \in 1..Len(s) : u[k] = s[k]) /\ u[Len(s) + 1] = e
      /\ \A c \in 1..MaxCommands : c # t.cmd => executed'[c] = executed[c]
  BY <1>1, <1>2, <1>3, DoneFacts, WaitsTypes
<1>5. e.i = t.i /\ e.ok = ok /\ e.del = t.del /\ e.yes = t.yes
  BY <1>3
<1>6. \A k \in 1..Len(u) : k \in 1..Len(s) \/ k = Len(s) + 1
  BY <1>4
<1>7. DeleteConsented'
  <2> SUFFICES ASSUME waits, NEW c \in 1..MaxCommands, NEW k \in 1..Len(executed'[c]),
                      executed'[c][k].del, executed'[c][k].ok
               PROVE  executed'[c][k].yes \in consent'
    BY DEF DeleteConsented
  <2>1. CASE c # t.cmd
    BY <1>4, <2>1, WaitsTypes DEF DeleteConsented
  <2>2. CASE c = t.cmd /\ k \in 1..Len(s)
    BY <1>1, <1>2, <1>4, <2>2, WaitsTypes DEF DeleteConsented
  <2>3. CASE c = t.cmd /\ k = Len(s) + 1
    BY <1>2, <1>4, <1>5, <2>3 DEF Agreed
  <2> QED BY <1>2, <1>6, <2>1, <2>2, <2>3
<1>8. StopEnds'
  <2> SUFFICES ASSUME waits, NEW h \in stopped', NEW k \in 1..Len(executed'[h[1]])
               PROVE  executed'[h[1]][k].i <= h[2]
    BY DEF StopEnds
  <2>1. h \in stopped /\ h[1] \in 1..MaxCommands
    BY WaitsTypes, Types, Constants
  <2>2. CASE h[1] # t.cmd
    BY <1>4, <2>1, <2>2, WaitsTypes DEF StopEnds
  <2>3. CASE h[1] = t.cmd /\ k \in 1..Len(s)
    BY <1>1, <1>2, <1>4, <2>1, <2>3, WaitsTypes, SMTT(20) DEF StopEnds
  <2>4. CASE h[1] = t.cmd /\ k = Len(s) + 1
    BY <1>2, <1>4, <1>5, <2>4
  <2> QED BY <1>2, <1>6, <2>2, <2>3, <2>4
<1> QED BY <1>7, <1>8

LEMMA SameWaits ==
    ASSUME WInv, executed' = executed, waits' = waits, consent \subseteq consent', stopped' \subseteq stopped
    PROVE  DeleteConsented' /\ StopEnds'
BY WaitsTypes DEF DeleteConsented, StopEnds

\* The handler x goes on as h, and asks nothing.
LEMMA WalkWaits ==
    ASSUME WInv, OInv', NEW x \in Handlers, NEW h \in Handler, run' = [run EXCEPT ![x] = h],
           waits => Alone(x) /\ Agreed(h.task) /\ Registered(h)' /\ \A s \in stopped : HaltedRun(s, h)',
           aborted \subseteq aborted', DeleteConsented', StopEnds',
           UNCHANGED <<pendingConfirmation, pendingGenerator, list, buttons, outbox, waits, shown, consent, stopped>>
    PROVE  WInv'
<1>1. run'[x] = h /\ \A y \in Handlers : y # x => run'[y] = run[y]
  BY Put, WaitsTypes
<1>2. Numbered'
  BY WaitsTypes DEF Numbered
<1>3. ASSUME waits PROVE OneBusy' /\ LastAsked' /\ AllAgreed' /\ Stoppable' /\ \A s \in stopped' : Halted(s)'
  <2>1. OneBusy /\ LastAsked /\ AllAgreed /\ Stoppable /\ \A s \in stopped : Halted(s)
    BY <1>3, WaitsTypes
  <2>2. Alone(x) /\ Agreed(h.task) /\ Registered(h)' /\ \A s \in stopped : HaltedRun(s, h)'
    BY <1>3
  <2>3. \A y \in Handlers : y # x => run'[y].pc = "idle"
    BY <1>1, <2>2 DEF Alone, Free
  <2>4. OneBusy'
    BY <2>2, <2>3 DEF OneBusy, Alone, Free
  <2>5. LastAsked'
    BY <2>1 DEF LastAsked
  <2>6. AllAgreed'
    BY <1>1, <2>1, <2>2 DEF AllAgreed, Agreed
  <2>7. Stoppable'
    BY <1>1, <2>2, <2>3, FreeRun DEF Stoppable, Registered
  <2>8. ASSUME NEW s \in stopped' PROVE Halted(s)'
    <3>1. \A y \in Handlers : HaltedRun(s, run[y])'
      BY <1>1, <2>2, <2>3, <2>8, FreeRun DEF HaltedRun
    <3> QED BY <2>1, <2>8, <3>1 DEF Halted
  <2> QED BY <2>4, <2>5, <2>6, <2>7, <2>8
<1> QED BY <1>2, <1>3 DEF WInv

\* The handler asks a question and returns.
LEMMA AskWaits ==
    ASSUME WInv, OInv', NEW x \in Handlers, Active(x), NEW kind \in {"delete", "choice"}, Ask(kind),
           NEW u \in Task, NEW p, p = [q |-> questions', task |-> u],
           \/ kind = "delete" /\ pendingConfirmation' = p /\ pendingGenerator' = pendingGenerator
           \/ kind = "choice" /\ pendingGenerator' = p /\ pendingConfirmation' = pendingConfirmation /\ u.del = run[x].task.del,
           run[x].pc # "segment" /\ run[x].pc # "loop",
           u.cmd = run[x].task.cmd, u.i = run[x].task.i, u.ctl = run[x].task.ctl, u.yes = run[x].task.yes,
           run' = [run EXCEPT ![x] = Idle], aborted' = aborted,
           UNCHANGED <<list, buttons, waits, shown, consent, executed, stopped>>
    PROVE  WInv'
<1>1. run'[x] = Idle /\ \A y \in Handlers : y # x => run'[y] = run[y]
  BY Put, WaitsTypes, BlankFacts
<1>2. PICK e : e = [q |-> questions', kind |-> kind, ch |-> source]
  OBVIOUS
<1>3. outbox' = outbox \cup {e} /\ questions' = questions + 1 /\ questions \in Nat
  BY <1>2, AskFacts, WaitsTypes, Types
<1>4. e.q = questions' /\ e.kind = kind /\ p.q = questions' /\ p.task = u
  BY <1>2
<1>5. \A f \in outbox \cup buttons : f.q # questions'
  <2>1. \A f \in Question : f.q \in 1..questions
    BY DEF Question
  <2> QED BY <1>3, <2>1, WaitsTypes, Types
<1>6. shown.q # questions'
  <2>1. shown \in Question \/ shown = Unseen
    BY WaitsTypes, Types
  <2>2. shown \in Question => shown.q \in 1..questions
    BY DEF Question
  <2> QED BY <1>3, <2>1, <2>2, BlankFacts
<1>7. Numbered'
  BY <1>3, <1>4, <1>5, <1>6, WaitsTypes DEF Numbered
<1>8. ASSUME waits PROVE OneBusy' /\ LastAsked' /\ AllAgreed' /\ Stoppable' /\ \A s \in stopped' : Halted(s)'
  <2>1. OneBusy /\ LastAsked /\ AllAgreed /\ Stoppable /\ \A s \in stopped : Halted(s)
    BY <1>8, WaitsTypes
  <2>2. ~Free(x)
    BY DEF Active, Free, Working
  <2>3. Alone(x)
    BY <1>8, <2>2, AloneFacts
  <2>4. \A y \in Handlers : run'[y].pc = "idle"
    BY <1>1, <2>3, BlankFacts DEF Alone, Free
  <2>5. outbox' = {e}
    BY <1>3, <2>3 DEF Alone
  <2>6. OneBusy'
    BY <2>4, <2>5 DEF OneBusy, Free
  <2>7. LastAsked'
    <3>1. outbox' # {}
      BY <2>5
    <3>2. kind = "delete" => pendingConfirmation'.q = e.q
      BY <1>4
    <3> QED BY <1>4, <2>5, <3>1, <3>2 DEF LastAsked
  <2>8. AllAgreed'
    <3>1. \A y \in Handlers : Agreed(run[y].task)'
      BY <1>1, <2>1, BlankFacts DEF AllAgreed, Agreed
    <3>2. Agreed(pendingGenerator.task)'
      BY <1>4, <2>1 DEF AllAgreed, Agreed
    <3> QED BY <3>1, <3>2 DEF AllAgreed
  <2>9. Stoppable'
    BY <2>4, FreeRun DEF Stoppable, Registered
  <2>10. ASSUME NEW s \in stopped' PROVE Halted(s)'
    <3>1. \A y \in Handlers : HaltedRun(s, run[y])'
      BY <2>4, FreeRun DEF HaltedRun
    <3>2. u.cmd = s[1] => u.ctl \in aborted /\ u.i <= s[2]
      BY <2>1, <2>10 DEF Halted, HaltedRun, Active
    <3> QED BY <1>4, <2>1, <2>10, <3>1, <3>2 DEF Halted
  <2> QED BY <2>6, <2>7, <2>8, <2>9, <2>10
<1>9. DeleteConsented' /\ StopEnds'
  BY SameWaits
<1> QED BY <1>7, <1>8, <1>9 DEF WInv

\* The answer of the user was to the question shown.
LEMMA Answered ==
    ASSUME WInv, buttons' \subseteq buttons, outbox' = outbox, shown' \in {shown, Unseen}
    PROVE  Numbered'
<1>1. \A f \in outbox \cup buttons : f.q # Unseen.q
  <2>1. \A f \in Question : f.q # 0
    BY DEF Question
  <2> QED BY <2>1, WaitsTypes, Types, BlankFacts
<1> QED BY <1>1, WaitsTypes DEF Numbered

\* A delete is confirmed, by a yes to its question if the user waits, or refused.
LEMMA ConfirmWaits ==
    ASSUME WInv, OInv', NEW x \in Handlers, Free(x), Patient, NEW ch, NEW confirmed \in BOOLEAN,
           resumePendingConfirmation(x, ch, confirmed), consent \subseteq consent',
           waits /\ confirmed /\ pendingConfirmation # None => pendingConfirmation.q \in consent',
           buttons' \subseteq buttons, list' = list, shown' \in {shown, Unseen}
    PROVE  WInv'
<1>1. /\ pendingConfirmation' = None
      /\ UNCHANGED <<pendingGenerator, controller, aborted, controllers, outbox, questions, waits, stopped>>
  BY DEF resumePendingConfirmation, cancelling, asking
<1>2. PICK p : p = pendingConfirmation
  OBVIOUS
<1>3. p.task \in Task /\ p.q \in 0..questions /\ (p = None \/ p.task.cmd \in 1..commands)
  BY <1>2, PendingTypes, WaitsTypes, Types
<1>4. PICK t : t = [p.task EXCEPT !.yes = p.q]
  OBVIOUS
<1>5. t \in Task
  <2>1. p.q \in 0..MaxQuestions
    BY <1>3, WaitsTypes, Types, Constants
  <2> QED BY <1>3, <1>4, <2>1 DEF Task
<1>6. t.cmd = p.task.cmd /\ t.i = p.task.i /\ t.ctl = p.task.ctl /\ t.yes = p.q
  BY <1>3, <1>4 DEF Task
<1>7. PICK h : h = [Idle EXCEPT !.pc = "execute", !.resumed = TRUE, !.task = t]
  OBVIOUS
<1>8. h \in Handler
  BY <1>5, <1>7, BlankFacts DEF Handler, Pcs
<1>9. h.pc = "execute" /\ h.resumed = TRUE /\ h.task = t
  BY <1>7 DEF Idle
<1>10. \/ p # None /\ confirmed /\ run' = [run EXCEPT ![x] = h] /\ executed' = executed
       \/ run' = run /\ executed' = executed
       \/ p # None /\ run' = run /\ Done(p.task, FALSE)
  BY <1>2, <1>4, <1>7 DEF resumePendingConfirmation
<1>11. \/ p # None /\ confirmed /\ run'[x] = h /\ \A y \in Handlers : y # x => run'[y] = run[y]
       \/ run' = run
  BY <1>8, <1>10, Put, WaitsTypes
<1>12. Numbered'
  BY <1>1, Answered
<1>13. ASSUME waits PROVE OneBusy' /\ LastAsked' /\ AllAgreed' /\ Stoppable' /\ \A s \in stopped' : Halted(s)'
  <2>1. OneBusy /\ LastAsked /\ AllAgreed /\ Stoppable /\ \A s \in stopped : Halted(s)
    BY <1>13, WaitsTypes
  <2>2. outbox = {} /\ \A y \in Handlers : run[y].pc = "idle"
    BY <1>13 DEF Patient, Quiet, Free
  <2>3. OneBusy'
    BY <1>1, <1>11, <2>2 DEF OneBusy, Free
  <2>4. LastAsked'
    BY <1>1 DEF LastAsked
  <2>5. AllAgreed'
    <3>1. p # None /\ confirmed => Agreed(t)'
      BY <1>2, <1>6, <1>13 DEF Agreed
    <3>2. \A y \in Handlers : Agreed(run[y].task)'
      BY <1>9, <1>11, <2>1, <3>1 DEF AllAgreed, Agreed
    <3> QED BY <1>1, <2>1, <3>2 DEF AllAgreed, Agreed
  <2>6. Stoppable'
    BY <1>9, <1>11, <2>2 DEF Stoppable, Registered
  <2>7. ASSUME NEW s \in stopped' PROVE Halted(s)'
    <3>1. HaltedRun(s, h)'
      BY <1>1, <1>2, <1>6, <1>9, <2>1, <2>7 DEF Halted, HaltedRun
    <3>2. \A y \in Handlers : HaltedRun(s, run[y])'
      BY <1>11, <2>2, <3>1, FreeRun DEF HaltedRun
    <3>3. s[1] # 0
      BY <1>1, <2>7, WaitsTypes, Types
    <3> QED BY <1>1, <2>1, <2>7, <3>2, <3>3, BlankFacts DEF Halted
  <2> QED BY <2>3, <2>4, <2>5, <2>6, <2>7
<1>14. DeleteConsented' /\ StopEnds'
  <2>1. CASE executed' = executed
    BY <1>1, <2>1, SameWaits
  <2>2. CASE p # None /\ Done(p.task, FALSE)
    <3>1. p.task.cmd \in 1..MaxCommands
      BY <1>3, <2>2, WaitsTypes, Types, Constants
    <3>2. waits => \A s \in stopped' : s[1] = p.task.cmd => p.task.i <= s[2]
      BY <1>1, <1>2, WaitsTypes DEF Halted
    <3> QED BY <1>1, <1>3, <2>2, <3>1, <3>2, DoneWaits
  <2> QED BY <1>10, <2>1, <2>2
<1> QED BY <1>1, <1>12, <1>13, <1>14 DEF WInv

\* The tool gets its answer, or is called off.
LEMMA RespondWaits ==
    ASSUME WInv, OInv', NEW x \in Handlers, ~Active(x), waits => Alone(x), NEW ch, NEW m, NEW cancelled \in BOOLEAN,
           handleGeneratorResponse(x, ch, m, cancelled), consent \subseteq consent',
           buttons' \subseteq buttons, list'["whatsapp"] = list["whatsapp"], shown' \in {shown, Unseen}
    PROVE  WInv'
<1>1. /\ pendingGenerator' = None
      /\ UNCHANGED <<pendingConfirmation, controller, aborted, controllers, outbox, questions, waits>>
      /\ stopped' \subseteq stopped
  BY DEF handleGeneratorResponse, cancelling, asking
<1>2. PICK p : p = pendingGenerator
  OBVIOUS
<1>3. p.task \in Task /\ p.q \in 0..questions /\ (p = None \/ p.task.cmd \in 1..commands)
  BY <1>2, PendingTypes, WaitsTypes, Types
<1>4. PICK t \in Task : t = p.task
  BY <1>3
<1>5. PICK h : h = [Idle EXCEPT !.pc = "drive", !.task = t]
  OBVIOUS
<1>6. h \in Handler
  BY <1>4, <1>5, BlankFacts DEF Handler, Pcs
<1>7. h.pc = "drive" /\ h.task = t
  BY <1>5 DEF Idle
<1>8. \/ /\ p # None /\ ~cancelled /\ run' = [run EXCEPT ![x] = h] /\ executed' = executed
         /\ \A s \in stopped' : s[1] # t.cmd
      \/ run' = [run EXCEPT ![x] = Idle] /\ executed' = executed
      \/ p # None /\ run' = [run EXCEPT ![x] = Idle] /\ Done(p.task, FALSE)
  BY <1>2, <1>4, <1>5 DEF handleGeneratorResponse
<1>9. \A y \in Handlers : y # x => run'[y] = run[y]
  BY <1>6, <1>8, BlankFacts, Put, WaitsTypes
<1>10. run'[x] = Idle \/ (run'[x] = h /\ \A s \in stopped' : s[1] # t.cmd)
  BY <1>6, <1>8, BlankFacts, Put, WaitsTypes
<1>11. Numbered'
  BY <1>1, Answered
<1>12. ASSUME waits PROVE OneBusy' /\ LastAsked' /\ AllAgreed' /\ Stoppable' /\ \A s \in stopped' : Halted(s)'
  <2>1. OneBusy /\ LastAsked /\ AllAgreed /\ Stoppable /\ \A s \in stopped : Halted(s)
    BY <1>12, WaitsTypes
  <2>2. outbox = {} /\ \A y \in Handlers : y # x => run'[y].pc = "idle"
    BY <1>9, <1>12 DEF Alone, Free
  <2>3. OneBusy'
    BY <1>1, <2>2 DEF OneBusy, Free
  <2>4. LastAsked'
    BY <1>1, <2>1, <2>2, BlankFacts DEF LastAsked
  <2>5. AllAgreed'
    <3>1. Agreed(t)' /\ Agreed(Blank)'
      BY <1>2, <1>4, <2>1, BlankFacts DEF AllAgreed, Agreed
    <3>2. \A y \in Handlers : Agreed(run[y].task)'
      BY <1>7, <1>9, <1>10, <2>1, <3>1, BlankFacts DEF AllAgreed, Agreed
    <3> QED BY <1>1, <3>1, <3>2, BlankFacts DEF AllAgreed, Agreed
  <2>6. Stoppable'
    BY <1>7, <1>10, <2>2, BlankFacts DEF Stoppable, Registered
  <2>7. ASSUME NEW s \in stopped' PROVE Halted(s)'
    <3>1. HaltedRun(s, run[x])'
      BY <1>7, <1>10, <2>7, BlankFacts, FreeRun DEF HaltedRun, Working
    <3>2. \A y \in Handlers : HaltedRun(s, run[y])'
      BY <2>2, <3>1, FreeRun DEF HaltedRun
    <3>3. s[1] # 0
      BY <1>1, <2>7, WaitsTypes, Types
    <3> QED BY <1>1, <2>1, <2>7, <3>2, <3>3, BlankFacts DEF Halted
  <2> QED BY <2>3, <2>4, <2>5, <2>6, <2>7
<1>13. DeleteConsented' /\ StopEnds'
  <2>1. CASE executed' = executed
    BY <1>1, <2>1, SameWaits
  <2>2. CASE p # None /\ Done(p.task, FALSE)
    <3>1. p.task.cmd \in 1..MaxCommands
      BY <1>3, <2>2, WaitsTypes, Types, Constants
    <3>2. waits => \A s \in stopped' : s[1] = p.task.cmd => p.task.i <= s[2]
      BY <1>1, <1>2, WaitsTypes DEF Halted
    <3> QED BY <1>1, <1>3, <2>2, <3>1, <3>2, DoneWaits
  <2> QED BY <1>8, <2>1, <2>2
<1> QED BY <1>1, <1>11, <1>12, <1>13 DEF WInv

-----------------------------------------------------------------------------
(* The actions of a run. *)

LEMMA RefuseInv ==
    ASSUME WInv, NEW x \in Handlers, Refuse(x)
    PROVE  WInv'
<1>1. /\ run[x].pc = "start" /\ run' = [run EXCEPT ![x] = Idle]
      /\ UNCHANGED <<source, pendingConfirmation, pendingGenerator, list, buttons, controller, aborted, controllers, outbox,
                     questions, commands, inputs, waits, shown, consent, executed, stopped, misfit>>
  BY DEF Refuse, pending, cancelling, asking, history
<1>2. OInv'
  BY <1>1, WaitsTypes, Types, BlankFacts, WalkOrder DEF Working
<1>3. waits => Alone(x)
  BY <1>1, AloneFacts DEF Free
<1>4. DeleteConsented' /\ StopEnds'
  BY <1>1, SameWaits
<1>5. Agreed(Idle.task) /\ Registered(Idle)' /\ \A s : HaltedRun(s, Idle)'
  BY BlankFacts, FreeRun DEF Agreed
<1> QED BY <1>1, <1>2, <1>3, <1>4, <1>5, BlankFacts, WalkWaits

\* A run ends without having done anything more.
LEMMA LeaveInv ==
    ASSUME WInv, NEW x \in Handlers, ~Free(x), Leave(x),
           UNCHANGED <<source, pendingConfirmation, pendingGenerator, list, buttons, outbox, questions, commands, inputs,
                       waits, shown, consent, executed, stopped, misfit>>
    PROVE  WInv'
<1>1. run' = [run EXCEPT ![x] = Idle] /\ controller' \in {0, controller} /\ UNCHANGED <<aborted, controllers>>
  BY LeaveFacts, WaitsTypes
<1>2. controllers' \in Nat /\ controller' \in 0..controllers' /\ aborted' \subseteq 1..controllers'
  BY <1>1, WaitsTypes, Types
<1>3. OInv'
  BY <1>1, <1>2, WaitsTypes, BlankFacts, WalkOrder DEF Working
<1>4. waits => Alone(x)
  BY AloneFacts
<1>5. DeleteConsented' /\ StopEnds'
  BY SameWaits
<1>6. Agreed(Idle.task) /\ Registered(Idle)' /\ \A s : HaltedRun(s, Idle)'
  BY BlankFacts, FreeRun DEF Agreed
<1> QED BY <1>1, <1>3, <1>4, <1>5, <1>6, BlankFacts, WalkWaits

\* A run goes on with its task, under its controller.
LEMMA GoOnInv ==
    ASSUME WInv, NEW x \in Handlers, Active(x), NEW h \in Handler, run' = [run EXCEPT ![x] = h],
           h.pc \in {"loop", "choose", "execute"}, run[x].pc # "drive", h.resumed = run[x].resumed,
           h.task.cmd = run[x].task.cmd, h.task.ctl = run[x].task.ctl, h.task.del = run[x].task.del,
           h.task.yes = run[x].task.yes, run[x].task.i <= h.task.i,
           h.pc = "loop" => h.task.i # 0,
           waits => \A s \in stopped : h.task.cmd = s[1] /\ h.task.ctl \in aborted =>
                        h.task.i <= IF h.pc = "loop" THEN s[2] + 1 ELSE s[2],
           UNCHANGED <<source, pendingConfirmation, pendingGenerator, list, buttons, controller, aborted, controllers, outbox,
                       questions, commands, inputs, waits, shown, consent, executed, stopped, misfit>>
    PROVE  WInv'
<1>1. OInv'
  BY WaitsTypes, Types, WalkOrder
<1>2. waits => Alone(x)
  BY AloneFacts DEF Active, Free, Working
<1>3. DeleteConsented' /\ StopEnds'
  BY SameWaits
<1>4. waits => Agreed(h.task)
  BY WaitsTypes DEF AllAgreed, Agreed
<1>5. waits => Registered(h)'
  <2>1. run[x].pc \in {"segment", "loop", "choose", "execute"}
    BY DEF Active, Working
  <2> QED BY <2>1, WaitsTypes DEF Stoppable, Registered
<1>6. waits => \A s \in stopped : HaltedRun(s, h)'
  <2> SUFFICES ASSUME waits, NEW s \in stopped, h.task.cmd = s[1] PROVE HaltedRun(s, h)'
    BY DEF HaltedRun
  <2>1. run[x].task.ctl \in aborted
    BY WaitsTypes DEF Halted, HaltedRun, Active
  <2>2. h.task.i <= IF h.pc = "loop" THEN s[2] + 1 ELSE s[2]
    BY <2>1
  <2> QED BY <2>1, <2>2 DEF HaltedRun
<1> QED BY <1>1, <1>2, <1>3, <1>4, <1>5, <1>6, WalkWaits

\* The task of a command that was stopped.
LEMMA HaltedFacts ==
    ASSUME WInv, waits, NEW x \in Handlers, Active(x), NEW s \in stopped, run[x].task.cmd = s[1]
    PROVE  /\ run[x].pc # "drive" /\ run[x].task.ctl \in aborted /\ s[2] \in Nat /\ run[x].task.i \in Nat
           /\ run[x].pc \in {"segment", "loop"} => run[x].task.i <= s[2] + 1
           /\ run[x].pc \in {"choose", "execute"} => run[x].task.i <= s[2]
<1>1. s[2] \in Nat /\ run[x].task.i \in Nat
  BY WaitsTypes, Types, RunTypes, TaskTypes
<1>2. HaltedRun(s, run[x])
  BY WaitsTypes DEF Halted
<1> QED BY <1>1, <1>2 DEF HaltedRun, Active

LEMMA SegmentInv ==
    ASSUME WInv, NEW x \in Handlers, Segment(x)
    PROVE  WInv'
<1>1. /\ run[x].pc = "segment"
      /\ UNCHANGED <<source, pendingConfirmation, pendingGenerator, list, buttons, outbox,
                     questions, commands, inputs, waits, shown, consent, executed, stopped, misfit>>
  BY DEF Segment, pending, asking, history
<1>2. CASE Leave(x)
  BY <1>1, <1>2, LeaveInv DEF Free
<1>3. ASSUME NEW n \in 1..MaxSegments, run' = [run EXCEPT ![x].pc = "loop", ![x].task.i = 1, ![x].task.n = n],
             UNCHANGED <<controller, aborted, controllers>>
      PROVE  WInv'
  <2>1. PICK t \in Task : t = run[x].task
    BY RunTypes, WaitsTypes
  <2>2. PICK u : u = [t EXCEPT !.i = 1, !.n = n]
    OBVIOUS
  <2>3. u \in Task
    <3>1. n \in 0..MaxSegments
      BY Constants
    <3> QED BY <2>1, <2>2, <3>1 DEF Task
  <2>4. u.cmd = t.cmd /\ u.ctl = t.ctl /\ u.del = t.del /\ u.yes = t.yes /\ u.i = 1
    BY <2>2 DEF Task
  <2>5. PICK h : h = [run[x] EXCEPT !.pc = "loop", !.task = u]
    OBVIOUS
  <2>6. h \in Handler
    BY <2>3, <2>5, RunTypes, WaitsTypes DEF Handler, Pcs
  <2>7. h.pc = "loop" /\ h.task = u /\ h.resumed = run[x].resumed
    BY <2>5, RunTypes, WaitsTypes DEF Handler
  <2>8. run' = [run EXCEPT ![x] = h]
    BY <1>3, <2>1, <2>2, <2>5
  <2>9. Active(x)
    BY <1>1 DEF Active, Working
  <2>10. run[x].task.i <= h.task.i /\ h.task.i # 0
    <3>1. t.i = 0
      BY <1>1, <2>1, WaitsTypes DEF TInv, TaskKnown
    <3> QED BY <2>1, <2>4, <2>7, <3>1
  <2>11. waits => \A s \in stopped : h.task.cmd = s[1] /\ h.task.ctl \in aborted =>
                      h.task.i <= IF h.pc = "loop" THEN s[2] + 1 ELSE s[2]
    BY <2>4, <2>7, WaitsTypes, Types
  <2> QED BY <1>1, <1>3, <2>1, <2>4, <2>6, <2>7, <2>8, <2>9, <2>10, <2>11, GoOnInv
<1> QED BY <1>1, <1>2, <1>3 DEF Segment, cancelling

\* A command gets its number and its controller.
LEMMA BeganInv ==
    ASSUME WInv, NEW x \in Handlers, run[x].pc = "start", commands < MaxCommands, start, commands' = commands + 1,
           run' = [run EXCEPT ![x].pc = "segment", ![x].task.cmd = commands', ![x].task.ctl = controllers'],
           UNCHANGED <<source, pendingConfirmation, pendingGenerator, list, buttons, outbox, questions, inputs,
                       waits, shown, consent, executed, stopped, misfit>>
    PROVE  WInv'
<1>1. OInv /\ TInv
  BY WaitsTypes
<1>2. PICK c \in Nat : c = commands' /\ c = commands + 1 /\ c \in 1..MaxCommands
  BY <1>1, Types, Constants
<1>3. PICK k \in Nat : k = controllers' /\ k # 0
  BY <1>1, StartFacts
<1>4. PICK u : u = [Blank EXCEPT !.cmd = c, !.ctl = k]
  OBVIOUS
<1>5. u \in Task
  <2>1. c \in 0..MaxCommands /\ k \in Nat /\ Blank \in Task
    BY <1>2, <1>3, BlankFacts, Constants
  <2> QED BY <1>4, <2>1 DEF Task
<1>6. u.cmd = c /\ u.ctl = k /\ u.i = 0 /\ u.del = FALSE
  BY <1>4 DEF Blank
<1>7. PICK h : h = [run[x] EXCEPT !.pc = "segment", !.task = u]
  OBVIOUS
<1>8. h \in Handler
  BY <1>1, <1>5, <1>7, RunTypes DEF Handler, Pcs
<1>9. h.pc = "segment" /\ h.task = u
  BY <1>1, <1>7, RunTypes DEF Handler
<1>10. run' = [run EXCEPT ![x] = h]
  <2>1. run[x].task = Blank
    BY <1>1, RunTypes
  <2> QED BY <1>2, <1>3, <1>4, <1>7, <2>1
<1>11. run' \in [Handlers -> Handler] /\ run'[x] = h /\ \A y \in Handlers : y # x => run'[y] = run[y]
  BY <1>1, <1>8, <1>10, Put
<1>12. /\ controllers' \in Nat /\ controller' = k /\ controller' \in 0..controllers'
       /\ aborted \subseteq aborted' /\ aborted' \subseteq 1..controllers'
  BY <1>1, <1>3, StartFacts
<1>13. /\ 1..commands \subseteq 1..c /\ commands <= c /\ c <= MaxCommands /\ c \in 1..c /\ commands \in Nat
       /\ \A d \in 1..commands : d # c
  BY <1>1, <1>2, Types
<1>14. \A y \in Handlers : TaskKnown(run[y])'
  <2> TAKE y \in Handlers
  <2>1. CASE y = x
    BY <1>2, <1>6, <1>9, <1>11, <1>13, <2>1 DEF TaskKnown
  <2>2. CASE y # x
    BY <1>1, <1>2, <1>11, <1>13, <2>2 DEF TInv, TaskKnown
  <2> QED BY <2>1, <2>2
<1>15. TInv'
  <2>1. Pending(pendingConfirmation)' /\ Pending(pendingGenerator)'
    <3>1. \A r : Pending(r) => Pending(r)'
      BY <1>1, <1>2, <1>13, Types, SamePending
    <3> QED BY <1>1, <3>1, Types DEF Pending
  <2>2. Question' = Question
    BY DEF Question
  <2> QED BY <1>1, <1>2, <1>11, <1>12, <1>13, <1>14, <2>1, <2>2, Types, Typed
<1>16. /\ pendingConfirmation.task.cmd # c /\ pendingGenerator.task.cmd # c
       /\ \A y \in Handlers : Active(y) => run[y].task.cmd # c
  BY <1>1, <1>13, RunTypes, Types, PendingTypes
<1>17. OneHolder'
  <2>1. OneHolder
    BY <1>1 DEF OInv
  <2>2. \A y \in Handlers : Active(y)' => \/ y = x /\ run'[y].task.cmd = c
                                          \/ y # x /\ Active(y) /\ run'[y] = run[y]
    BY <1>6, <1>9, <1>11 DEF Active
  <2> QED BY <1>16, <2>1, <2>2 DEF OneHolder
<1>18. executed[c] = <<>>
  BY <1>1, <1>2, <1>13 DEF OInv
<1>19. /\ \A y \in Handlers : Active(y)' => Fits(run[y].task)'
       /\ Fits(pendingConfirmation.task)' /\ Fits(pendingGenerator.task)'
  <2>1. Fits(pendingConfirmation.task)' /\ Fits(pendingGenerator.task)'
    BY <1>1 DEF OInv, Fits
  <2>2. ASSUME NEW y \in Handlers, Active(y)' PROVE Fits(run[y].task)'
    <3>1. CASE y = x
      <4>1. Before(executed'[c], u)
        BY <1>18 DEF Before
      <4> QED BY <1>6, <1>9, <1>11, <3>1, <4>1 DEF Fits
    <3>2. CASE y # x
      BY <1>1, <1>11, <2>2, <3>2 DEF OInv, Fits, Active
    <3> QED BY <3>1, <3>2
  <2> QED BY <2>1, <2>2
<1>20. SegmentsInOrder' /\ \A d \in 1..MaxCommands : d > commands' => executed'[d] = <<>>
  BY <1>1, <1>2, <1>13 DEF OInv, SegmentsInOrder
<1>21. OInv'
  BY <1>15, <1>17, <1>19, <1>20 DEF OInv
<1>22. waits => Alone(x)
  BY AloneFacts DEF Free
<1>23. Agreed(h.task)
  BY <1>6, <1>9 DEF Agreed
<1>24. Registered(h)'
  BY <1>3, <1>6, <1>9, <1>12 DEF Registered
<1>25. \A s \in stopped : HaltedRun(s, h)'
  <2>1. \A s \in stopped : s[1] \in 1..commands
    BY <1>1, Types
  <2> QED BY <1>6, <1>9, <1>13, <2>1 DEF HaltedRun
<1>26. DeleteConsented' /\ StopEnds'
  BY SameWaits
<1> QED BY <1>8, <1>10, <1>12, <1>21, <1>22, <1>23, <1>24, <1>25, <1>26, WalkWaits

LEMMA StartInv ==
    ASSUME WInv, NEW x \in Handlers, Start(x)
    PROVE  WInv'
<1>1. /\ run[x].pc = "start" /\ start /\ commands < MaxCommands
      /\ UNCHANGED <<source, pendingConfirmation, pendingGenerator, list, buttons, outbox,
                     questions, inputs, waits, shown, consent, executed, stopped, misfit>>
  BY DEF Start, pending, asking, history
<1>2. CASE run' = [run EXCEPT ![x] = Idle] /\ UNCHANGED commands
  <2>1. /\ controllers' \in Nat /\ controller' \in 0..controllers' /\ aborted \subseteq aborted'
        /\ aborted' \subseteq 1..controllers'
    BY <1>1, StartFacts, WaitsTypes
  <2>2. OInv'
    BY <1>1, <1>2, <2>1, WaitsTypes, BlankFacts, WalkOrder DEF Working
  <2>3. waits => Alone(x)
    BY <1>1, AloneFacts DEF Free
  <2>4. DeleteConsented' /\ StopEnds'
    BY <1>1, SameWaits
  <2>5. Agreed(Idle.task) /\ Registered(Idle)' /\ \A s : HaltedRun(s, Idle)'
    BY BlankFacts, FreeRun DEF Agreed
  <2> QED BY <1>1, <1>2, <2>1, <2>2, <2>3, <2>4, <2>5, BlankFacts, WalkWaits
<1>3. CASE /\ commands' = commands + 1
           /\ run' = [run EXCEPT ![x].pc = "segment", ![x].task.cmd = commands', ![x].task.ctl = controllers']
  BY <1>1, <1>3, BeganInv
<1> QED BY <1>2, <1>3 DEF Start

LEMMA LoopInv ==
    ASSUME WInv, NEW x \in Handlers, Loop(x)
    PROVE  WInv'
<1>1. /\ run[x].pc = "loop"
      /\ UNCHANGED <<source, pendingConfirmation, pendingGenerator, list, buttons, outbox,
                     questions, commands, inputs, waits, shown, consent, executed, stopped, misfit>>
  BY DEF Loop, pending, asking, history
<1>2. CASE Leave(x)
  BY <1>1, <1>2, LeaveInv DEF Free
<1>3. CASE run[x].task.ctl \notin aborted /\ Goto(x, "choose") /\ UNCHANGED <<controller, aborted, controllers>>
  <2>1. PICK h : h = [run[x] EXCEPT !.pc = "choose"]
    OBVIOUS
  <2>2. h \in Handler
    BY <2>1, RunTypes, WaitsTypes DEF Handler, Pcs
  <2>3. h.pc = "choose" /\ h.task = run[x].task /\ h.resumed = run[x].resumed
    BY <2>1, RunTypes, WaitsTypes DEF Handler
  <2>4. run' = [run EXCEPT ![x] = h]
    BY <1>3, <2>1 DEF Goto
  <2>5. Active(x)
    BY <1>1 DEF Active, Working
  <2>6. run[x].task.i <= h.task.i
    BY <2>3, RunTypes, TaskTypes, WaitsTypes
  <2> QED BY <1>1, <1>3, <2>2, <2>3, <2>4, <2>5, <2>6, GoOnInv
<1> QED BY <1>2, <1>3 DEF Loop, cancelling

LEMMA ChooseInv ==
    ASSUME WInv, NEW x \in Handlers, Choose(x)
    PROVE  WInv'
<1>1. /\ run[x].pc = "choose" /\ UNCHANGED <<source, commands, inputs, waits, shown, consent, executed, stopped, misfit>>
  BY DEF Choose, history
<1>2. PICK t \in Task : t = run[x].task
  BY RunTypes, WaitsTypes
<1>3. Active(x) /\ ~Free(x)
  BY <1>1 DEF Active, Working, Free
<1>4. CASE /\ run' = [run EXCEPT ![x].pc = "loop", ![x].task.i = t.i + 1]
           /\ UNCHANGED <<controller, aborted, controllers, pendingConfirmation, pendingGenerator, list, buttons, outbox,
                          questions>>
  <2>1. PICK u : u = [t EXCEPT !.i = t.i + 1]
    OBVIOUS
  <2>2. t.i \in Nat /\ t.i + 1 \in Nat
    BY TaskTypes
  <2>3. u \in Task
    BY <1>2, <2>1, <2>2 DEF Task
  <2>4. u.cmd = t.cmd /\ u.ctl = t.ctl /\ u.del = t.del /\ u.yes = t.yes /\ u.i = t.i + 1
    BY <2>1 DEF Task
  <2>5. PICK h : h = [run[x] EXCEPT !.pc = "loop", !.task = u]
    OBVIOUS
  <2>6. h \in Handler
    BY <2>3, <2>5, RunTypes, WaitsTypes DEF Handler, Pcs
  <2>7. h.pc = "loop" /\ h.task = u /\ h.resumed = run[x].resumed
    BY <2>5, RunTypes, WaitsTypes DEF Handler
  <2>8. run' = [run EXCEPT ![x] = h]
    BY <1>2, <1>4, <2>1, <2>5
  <2>9. run[x].task.i <= h.task.i /\ h.task.i # 0
    BY <1>2, <2>2, <2>4, <2>7
  <2>10. waits => \A s \in stopped : h.task.cmd = s[1] /\ h.task.ctl \in aborted =>
                      h.task.i <= IF h.pc = "loop" THEN s[2] + 1 ELSE s[2]
    <3> SUFFICES ASSUME waits, NEW s \in stopped, t.cmd = s[1] PROVE t.i + 1 <= s[2] + 1
      BY <2>4, <2>7
    <3>1. t.i <= s[2] /\ s[2] \in Nat
      BY <1>1, <1>2, <1>3, HaltedFacts
    <3> QED BY <2>2, <3>1
  <2> QED BY <1>1, <1>2, <1>3, <1>4, <2>4, <2>6, <2>7, <2>8, <2>9, <2>10, GoOnInv
<1>5. CASE /\ Goto(x, "execute")
           /\ UNCHANGED <<controller, aborted, controllers, pendingConfirmation, pendingGenerator, list, buttons, outbox,
                          questions>>
  <2>1. PICK h : h = [run[x] EXCEPT !.pc = "execute"]
    OBVIOUS
  <2>2. h \in Handler
    BY <2>1, RunTypes, WaitsTypes DEF Handler, Pcs
  <2>3. h.pc = "execute" /\ h.task = run[x].task /\ h.resumed = run[x].resumed
    BY <2>1, RunTypes, WaitsTypes DEF Handler
  <2>4. run' = [run EXCEPT ![x] = h]
    BY <1>5, <2>1 DEF Goto
  <2>5. run[x].task.i <= h.task.i
    BY <2>3, RunTypes, TaskTypes, WaitsTypes
  <2>6. waits => \A s \in stopped : h.task.cmd = s[1] /\ h.task.ctl \in aborted =>
                      h.task.i <= IF h.pc = "loop" THEN s[2] + 1 ELSE s[2]
    BY <1>1, <1>3, <2>3, HaltedFacts
  <2> QED BY <1>1, <1>3, <1>5, <2>2, <2>3, <2>4, <2>5, <2>6, GoOnInv
<1>6. CASE askDelete(x, [t EXCEPT !.del = TRUE])
  <2>1. PICK u : u = [t EXCEPT !.del = TRUE]
    OBVIOUS
  <2>2. u \in Task
    BY <2>1 DEF Task
  <2>3. u.cmd = t.cmd /\ u.i = t.i /\ u.ctl = t.ctl /\ u.yes = t.yes
    BY <2>1 DEF Task
  <2>4. PICK p : p = [q |-> questions', task |-> u]
    OBVIOUS
  <2>5. Ask("delete") /\ pendingConfirmation' = p /\ UNCHANGED <<pendingGenerator, list, buttons>> /\ Leave(x)
    BY <1>6, <2>1, <2>4 DEF askDelete
  <2>6. run' = [run EXCEPT ![x] = Idle] /\ controller' \in {0, controller} /\ UNCHANGED <<aborted, controllers>>
    BY <2>5, LeaveFacts, WaitsTypes
  <2>7. controllers' \in Nat /\ controller' \in 0..controllers' /\ aborted' \subseteq 1..controllers'
    BY <2>6, WaitsTypes, Types
  <2>8. OInv'
    BY <1>1, <1>2, <1>3, <2>2, <2>3, <2>4, <2>5, <2>6, <2>7, WaitsTypes, AskOrder
  <2> QED BY <1>1, <1>2, <1>3, <2>2, <2>3, <2>4, <2>5, <2>6, <2>8, AskWaits
<1>7. CASE Leave(x) /\ UNCHANGED <<pendingConfirmation, pendingGenerator, list, buttons, outbox, questions>>
  BY <1>1, <1>3, <1>7, LeaveInv
<1> QED BY <1>2, <1>4, <1>5, <1>6, <1>7 DEF Choose, cancelling, pending, asking

\* The rest of a command, from the next segment on.
LEMMA AtFacts ==
    \A t \in Task, i, ctl \in Nat : \A u :
        u = At(t, i, ctl) => u \in Task /\ u.cmd = t.cmd /\ u.i = i /\ u.ctl = ctl /\ u.del = FALSE
<1> SUFFICES ASSUME NEW t \in Task, NEW i \in Nat, NEW ctl \in Nat, NEW u, u = At(t, i, ctl)
             PROVE  u \in Task /\ u.cmd = t.cmd /\ u.i = i /\ u.ctl = ctl /\ u.del = FALSE
  OBVIOUS
<1>1. u = [t EXCEPT !.i = i, !.ctl = ctl, !.del = FALSE, !.yes = 0]
  BY DEF At
<1>2. u \in Task
  <2>1. 0 \in 0..MaxQuestions
    BY Constants
  <2> QED BY <1>1, <2>1 DEF Task
<1> QED BY <1>1, <1>2 DEF Task

\* A segment was done, or not, and the handler goes on as h.
LEMMA FinishInv ==
    ASSUME WInv, NEW x \in Handlers, run[x].pc \in {"execute", "drive"}, NEW h \in Handler, run' = [run EXCEPT ![x] = h],
           NEW ok \in BOOLEAN, Done(run[x].task, ok),
           \/ h = Idle
           \/ /\ ok /\ h.pc = "loop" /\ h.task.cmd = run[x].task.cmd /\ h.task.i = run[x].task.i + 1 /\ ~h.task.del
              /\ \/ run[x].pc = "execute" /\ h.task.ctl = run[x].task.ctl /\ h.resumed = run[x].resumed
                    /\ UNCHANGED <<controller, aborted, controllers>>
                 \/ run[x].pc = "drive" /\ h.task.ctl = controller' /\ controller' # 0,
           controllers' \in Nat, controller' \in 0..controllers', aborted \subseteq aborted',
           aborted' \subseteq 1..controllers',
           UNCHANGED <<source, pendingConfirmation, pendingGenerator, list, buttons, outbox, questions, commands, inputs,
                       waits, shown, consent, stopped, misfit>>
    PROVE  WInv'
<1>1. Active(x) /\ ~Free(x)
  BY DEF Active, Working, Free
<1>2. PICK t \in Task : t = run[x].task /\ t.i \in Nat /\ t.cmd \in 1..MaxCommands
  BY <1>1, RunTypes, TaskTypes, WaitsTypes, Types, Constants
<1>3. OInv'
  <2>1. h.pc \notin {"start", "segment"} /\ (h.pc \in Working => ok /\ h.task.cmd = run[x].task.cmd /\ run[x].task.i < h.task.i)
    BY <1>2, BlankFacts DEF Working
  <2> QED BY <1>1, <2>1, WaitsTypes, FinishOrder
<1>4. waits => Alone(x)
  BY <1>1, AloneFacts
<1>5. waits => Agreed(t)
  BY <1>2, WaitsTypes DEF AllAgreed
<1>6. waits => \A s \in stopped : s[1] = t.cmd => run[x].pc # "drive" /\ t.i <= s[2] /\ s[2] \in Nat /\ t.ctl \in aborted
  BY <1>1, <1>2, HaltedFacts
<1>7. DeleteConsented' /\ StopEnds'
  BY <1>2, <1>5, <1>6, DoneWaits
<1>8. Agreed(h.task)
  BY BlankFacts DEF Agreed
<1>9. waits => Registered(h)'
  <2>1. CASE h = Idle
    BY <2>1, BlankFacts, FreeRun
  <2>2. CASE run[x].pc = "execute" /\ h.task.ctl = run[x].task.ctl /\ h.resumed = run[x].resumed
             /\ UNCHANGED <<controller, aborted, controllers>>
    BY <2>2, WaitsTypes DEF Stoppable, Registered
  <2>3. CASE h.task.ctl = controller' /\ controller' # 0
    BY <2>3 DEF Registered
  <2> QED BY <2>1, <2>2, <2>3
<1>10. waits => \A s \in stopped : HaltedRun(s, h)'
  <2> SUFFICES ASSUME waits, NEW s \in stopped PROVE HaltedRun(s, h)'
    OBVIOUS
  <2>1. CASE h = Idle
    BY <2>1, BlankFacts, FreeRun
  <2>2. CASE h # Idle /\ s[1] = t.cmd
    <3>1. run[x].pc # "drive" /\ t.i <= s[2] /\ s[2] \in Nat /\ t.ctl \in aborted
      BY <1>6, <2>2
    <3>2. h.pc = "loop" /\ h.task.i = t.i + 1 /\ h.task.ctl = t.ctl
      BY <1>2, <2>2, <3>1
    <3>3. h.task.i <= s[2] + 1
      BY <1>2, <3>1, <3>2
    <3> QED BY <3>1, <3>2, <3>3 DEF HaltedRun
  <2>3. CASE h # Idle /\ s[1] # t.cmd
    BY <1>2, <2>3 DEF HaltedRun
  <2> QED BY <2>1, <2>2, <2>3
<1> QED BY <1>3, <1>4, <1>7, <1>8, <1>9, <1>10, WalkWaits

\* A tool asks for a choice.
LEMMA AskChoiceInv ==
    ASSUME WInv, NEW x \in Handlers, run[x].pc \in {"execute", "drive"}, askChoice(x, run[x].task),
           UNCHANGED <<source, commands, inputs, waits, shown, consent, executed, stopped, misfit>>
    PROVE  WInv'
<1>1. Active(x)
  BY DEF Active, Working
<1>2. PICK t \in Task : t = run[x].task
  BY RunTypes, WaitsTypes
<1>3. PICK p : p = [q |-> questions', task |-> t]
  OBVIOUS
<1>4. Ask("choice") /\ pendingGenerator' = p /\ UNCHANGED <<pendingConfirmation, list, buttons>> /\ Leave(x)
  BY <1>2, <1>3 DEF askChoice
<1>5. run' = [run EXCEPT ![x] = Idle] /\ controller' \in {0, controller} /\ UNCHANGED <<aborted, controllers>>
  BY <1>4, LeaveFacts, WaitsTypes
<1>6. controllers' \in Nat /\ controller' \in 0..controllers' /\ aborted' \subseteq 1..controllers'
  BY <1>5, WaitsTypes, Types
<1>7. OInv'
  BY <1>1, <1>2, <1>3, <1>4, <1>5, <1>6, WaitsTypes, AskOrder
<1> QED BY <1>1, <1>2, <1>3, <1>4, <1>5, <1>7, AskWaits

LEMMA ExecuteInv ==
    ASSUME WInv, NEW x \in Handlers, Execute(x)
    PROVE  WInv'
<1>1. run[x].pc = "execute" /\ UNCHANGED <<source, commands, inputs, waits, shown, consent, stopped, misfit>>
  BY DEF Execute
<1>2. PICK t \in Task : t = run[x].task /\ t.i \in Nat /\ t.i + 1 \in Nat /\ t.ctl \in Nat
  BY RunTypes, TaskTypes, WaitsTypes
<1>3. controllers \in Nat /\ controller \in 0..controllers /\ aborted \subseteq 1..controllers
  BY WaitsTypes, Types
<1>4. CASE /\ run' = [run EXCEPT ![x].pc = "loop",
                     ![x].task = At(t, IF run[x].resumed THEN resumeIndex(t) ELSE t.i + 1, t.ctl)]
           /\ Done(t, TRUE)
           /\ UNCHANGED <<pendingConfirmation, pendingGenerator, list, buttons, controller, aborted, controllers, outbox,
                          questions>>
  <2>1. PICK u : u = At(t, t.i + 1, t.ctl)
    OBVIOUS
  <2>2. u \in Task /\ u.cmd = t.cmd /\ u.i = t.i + 1 /\ u.ctl = t.ctl /\ u.del = FALSE
    <3>1. PICK n \in Nat : n = t.i + 1
      BY <1>2
    <3>2. PICK ctl \in Nat : ctl = t.ctl
      BY <1>2
    <3>3. u = At(t, n, ctl)
      BY <2>1, <3>1, <3>2
    <3>4. u \in Task /\ u.cmd = t.cmd /\ u.i = n /\ u.ctl = ctl /\ u.del = FALSE
      BY <3>3, AtFacts
    <3> QED BY <3>1, <3>2, <3>4
  <2>3. PICK h : h = [run[x] EXCEPT !.pc = "loop", !.task = u]
    OBVIOUS
  <2>4. h \in Handler
    BY <2>2, <2>3, RunTypes, WaitsTypes DEF Handler, Pcs
  <2>5. h.pc = "loop" /\ h.task = u /\ h.resumed = run[x].resumed
    BY <2>3, RunTypes, WaitsTypes DEF Handler
  <2>6. run' = [run EXCEPT ![x] = h]
    BY <1>2, <1>4, <2>1, <2>3 DEF resumeIndex
  <2> QED BY <1>1, <1>2, <1>3, <1>4, <2>2, <2>4, <2>5, <2>6, FinishInv
<1>5. CASE Leave(x) /\ Done(t, FALSE) /\ UNCHANGED <<pendingConfirmation, pendingGenerator, list, buttons, outbox, questions>>
  <2>1. run' = [run EXCEPT ![x] = Idle] /\ controller' \in {0, controller} /\ UNCHANGED <<aborted, controllers>>
    BY <1>5, LeaveFacts, WaitsTypes
  <2>2. controllers' \in Nat /\ controller' \in 0..controllers' /\ aborted' \subseteq 1..controllers'
    BY <1>3, <2>1
  <2> QED BY <1>1, <1>2, <1>5, <2>1, <2>2, BlankFacts, FinishInv
<1>6. CASE askChoice(x, t) /\ UNCHANGED executed
  BY <1>1, <1>2, <1>6, AskChoiceInv
<1> QED BY <1>2, <1>4, <1>5, <1>6 DEF Execute, pending, cancelling, asking

LEMMA DriveInv ==
    ASSUME WInv, NEW x \in Handlers, Drive(x)
    PROVE  WInv'
<1>1. run[x].pc = "drive" /\ UNCHANGED <<source, commands, inputs, waits, shown, consent, stopped, misfit>>
  BY DEF Drive
<1>2. PICK t \in Task : t = run[x].task /\ t.i \in Nat /\ t.i + 1 \in Nat /\ t.ctl \in Nat
  BY RunTypes, TaskTypes, WaitsTypes
<1>3. controllers \in Nat /\ controller \in 0..controllers /\ aborted \subseteq 1..controllers
  BY WaitsTypes, Types
<1>4. CASE /\ Done(t, TRUE) /\ start
           /\ run' = [run EXCEPT ![x].pc = "loop", ![x].task = At(t, resumeIndex(t), controllers')]
           /\ UNCHANGED <<pendingConfirmation, pendingGenerator, list, buttons, outbox, questions>>
  <2>1. PICK k \in Nat : k = controllers' /\ k = controller' /\ k # 0 /\ k \in 0..controllers'
    BY <1>4, StartFacts, WaitsTypes
  <2>2. PICK u : u = At(t, t.i + 1, k)
    OBVIOUS
  <2>3. u \in Task /\ u.cmd = t.cmd /\ u.i = t.i + 1 /\ u.ctl = k /\ u.del = FALSE
    <3>1. PICK n \in Nat : n = t.i + 1
      BY <1>2
    <3>2. u = At(t, n, k)
      BY <2>2, <3>1
    <3>3. u \in Task /\ u.cmd = t.cmd /\ u.i = n /\ u.ctl = k /\ u.del = FALSE
      BY <3>2, AtFacts
    <3> QED BY <3>1, <3>3
  <2>4. PICK h : h = [run[x] EXCEPT !.pc = "loop", !.task = u]
    OBVIOUS
  <2>5. h \in Handler
    BY <2>3, <2>4, RunTypes, WaitsTypes DEF Handler, Pcs
  <2>6. h.pc = "loop" /\ h.task = u
    BY <2>4, RunTypes, WaitsTypes DEF Handler
  <2>7. run' = [run EXCEPT ![x] = h]
    BY <1>4, <2>1, <2>2, <2>4 DEF resumeIndex
  <2>8. aborted \subseteq aborted' /\ aborted' \subseteq 1..controllers'
    BY <1>4, StartFacts, WaitsTypes
  <2> QED BY <1>1, <1>2, <1>4, <2>1, <2>3, <2>5, <2>6, <2>7, <2>8, FinishInv
<1>5. ASSUME NEW ok \in BOOLEAN, Leave(x), Done(t, ok),
             UNCHANGED <<pendingConfirmation, pendingGenerator, list, buttons, outbox, questions>>
      PROVE  WInv'
  <2>1. run' = [run EXCEPT ![x] = Idle] /\ controller' \in {0, controller} /\ UNCHANGED <<aborted, controllers>>
    BY <1>5, LeaveFacts, WaitsTypes
  <2>2. controllers' \in Nat /\ controller' \in 0..controllers' /\ aborted' \subseteq 1..controllers'
    BY <1>3, <2>1
  <2> QED BY <1>1, <1>2, <1>5, <2>1, <2>2, BlankFacts, FinishInv
<1>6. CASE askChoice(x, t) /\ UNCHANGED executed
  BY <1>1, <1>2, <1>6, AskChoiceInv
<1> QED BY <1>2, <1>4, <1>5, <1>6 DEF Drive, pending, asking

-----------------------------------------------------------------------------
(* The actions of the user. *)

LEMMA InputFacts ==
    ASSUME WInv, Input
    PROVE  inputs' \in Nat /\ inputs' <= MaxInputs
<1>1. inputs' = inputs + 1 /\ inputs < (IF waits THEN MaxInputs ELSE MaxAtOnce)
  BY DEF Input
<1>2. inputs \in Nat /\ MaxInputs \in Nat /\ MaxAtOnce \in Nat /\ MaxAtOnce <= MaxInputs
  BY WaitsTypes, Types, Constants
<1> QED BY <1>1, <1>2

LEMMA AnswerFacts ==
    ASSUME WInv, NEW ch, NEW m, Answer(ch, m)
    PROVE  /\ ch \in Channels /\ inputs' \in Nat /\ inputs' <= MaxInputs /\ Patient /\ shown' \in {shown, Unseen}
           /\ waits => m # 0 /\ shown.q = m /\ shown.ch = ch /\ shown' = Unseen
BY InputFacts DEF Answer

\* A free handler takes up what the user sends.
LEMMA TakeUpInv ==
    ASSUME WInv, NEW x \in Handlers, Free(x), Patient, NEW h \in Handler, run' = [run EXCEPT ![x] = h],
           h.pc \in {"start", "answer", "cancel"}, h.task = Blank, source' \in Channels \cup {"web"},
           inputs' \in Nat, inputs' <= MaxInputs, list' \in [Messengers -> 0..questions],
           consent \subseteq consent', consent' \subseteq 0..questions, buttons' \subseteq buttons, shown' \in {shown, Unseen},
           waits => shown' = Unseen \/ (shown' = shown /\ list'["whatsapp"] = list["whatsapp"]),
           UNCHANGED <<pendingConfirmation, pendingGenerator, controller, aborted, controllers, outbox, questions, commands,
                       waits, executed, stopped, misfit>>
    PROVE  WInv'
<1>1. OInv /\ TInv
  BY WaitsTypes
<1>2. TaskKnown(h)
  BY DEF TaskKnown, Working
<1>3. /\ run' \in [Handlers -> Handler] /\ run'[x] = h /\ (\A y \in Handlers : y # x => run'[y] = run[y])
      /\ \A y \in Handlers : TaskKnown(run[y])'
  BY <1>1, <1>2, RunTyped
<1>4. TInv'
  BY <1>1, <1>3, Types, KeepTyped
<1>5. \A y \in Handlers : Active(y)' => /\ Active(y) /\ run'[y].task.cmd = run[y].task.cmd
                                        /\ run'[y].task.i \in Nat /\ run[y].task.i <= run'[y].task.i
  BY <1>1, <1>3, RunTypes, TaskTypes DEF Active, Working
<1>6. OInv'
  BY <1>1, <1>4, <1>5, Calm
<1>7. Numbered'
  BY Answered
<1>8. DeleteConsented' /\ StopEnds'
  BY SameWaits
<1>9. ASSUME waits PROVE OneBusy' /\ LastAsked' /\ AllAgreed' /\ Stoppable' /\ \A s \in stopped' : Halted(s)'
  <2>1. OneBusy /\ LastAsked /\ AllAgreed /\ Stoppable /\ \A s \in stopped : Halted(s)
    BY <1>9, WaitsTypes
  <2>2. outbox = {} /\ \A y \in Handlers : y # x => run'[y].pc = "idle"
    BY <1>3, <1>9 DEF Patient, Quiet, Free
  <2>3. OneBusy'
    BY <2>2 DEF OneBusy, Free
  <2>4. LastAsked'
    BY <1>9, <2>1, <2>2, BlankFacts DEF LastAsked
  <2>5. AllAgreed'
    BY <1>3, <2>1, BlankFacts DEF AllAgreed, Agreed
  <2>6. Stoppable'
    BY <1>3, <2>2 DEF Stoppable, Registered
  <2>7. ASSUME NEW s \in stopped' PROVE Halted(s)'
    <3>1. \A y \in Handlers : HaltedRun(s, run[y])'
      BY <1>3, <2>2, FreeRun DEF HaltedRun, Working
    <3> QED BY <2>1, <2>7, <3>1 DEF Halted
  <2> QED BY <2>3, <2>4, <2>5, <2>6, <2>7
<1> QED BY <1>6, <1>7, <1>8, <1>9 DEF WInv

LEMMA BeginInv ==
    ASSUME WInv, NEW x \in Handlers, NEW ch, Begin(x, ch)
    PROVE  WInv'
<1>1. /\ Free(x) /\ ch \in Channels /\ Patient /\ source' = ch
      /\ UNCHANGED <<pendingConfirmation, pendingGenerator, list, buttons, controller, aborted, controllers, outbox, questions,
                     commands, waits, shown, consent, executed, stopped, misfit>>
  BY DEF Begin, pending, cancelling, asking, history
<1>2. PICK h : h = [Idle EXCEPT !.pc = "start", !.own = TRUE]
  OBVIOUS
<1>3. h \in Handler
  BY <1>2, BlankFacts DEF Handler, Pcs
<1>4. h.pc = "start" /\ h.task = Blank
  BY <1>2 DEF Idle
<1>5. run' = [run EXCEPT ![x] = h]
  BY <1>2 DEF Begin
<1>6. inputs' \in Nat /\ inputs' <= MaxInputs
  BY InputFacts DEF Begin
<1> QED BY <1>1, <1>3, <1>4, <1>5, <1>6, WaitsTypes, Types, TakeUpInv

LEMMA CommandInv ==
    ASSUME WInv, NEW x \in Handlers, Command(x)
    PROVE  WInv'
BY BeginInv DEF Command, WebMessage, WhatsappText, WhatsappVoice, BotText, BotVoice

\* A choice from a list.
LEMMA ListInv ==
    ASSUME WInv, NEW x \in Handlers, Free(x), NEW ch \in Messengers, NEW m, NEW a, Answer(ch, a), NEW cancelled \in BOOLEAN,
           ListReply(x, ch, m, cancelled), consent \subseteq consent', consent' \subseteq 0..questions, buttons' \subseteq buttons
    PROVE  WInv'
<1>1. /\ list' = [list EXCEPT ![ch] = 0]
      /\ UNCHANGED <<source, pendingConfirmation, pendingGenerator, controller, aborted, controllers, outbox, questions,
                     commands, waits, executed, stopped, misfit>>
  BY DEF ListReply, cancelling, asking
<1>2. /\ ch \in Channels /\ inputs' \in Nat /\ inputs' <= MaxInputs /\ Patient /\ shown' \in {shown, Unseen}
      /\ waits => shown' = Unseen
  BY AnswerFacts
<1>3. PICK n : n = IF m = list[ch] THEN m ELSE 0
  OBVIOUS
<1>4. n \in 0..MaxQuestions
  <2>1. list[ch] \in 0..questions
    BY WaitsTypes, Types
  <2> QED BY <1>3, <2>1, WaitsTypes, Types, Constants
<1>5. PICK pc \in {"cancel", "answer"} : pc = IF cancelled THEN "cancel" ELSE "answer"
  OBVIOUS
<1>6. PICK h : h = [Idle EXCEPT !.pc = pc, !.ch = ch, !.q = n]
  OBVIOUS
<1>7. h \in Handler
  BY <1>2, <1>4, <1>5, <1>6, BlankFacts DEF Handler, Pcs
<1>8. h.pc = pc /\ h.task = Blank
  BY <1>6 DEF Idle
<1>9. run' = [run EXCEPT ![x] = h]
  BY <1>3, <1>5, <1>6 DEF ListReply
<1>10. list' \in [Messengers -> 0..questions]
  BY <1>1, WaitsTypes, Types
<1> QED BY <1>1, <1>2, <1>5, <1>7, <1>8, <1>9, <1>10, WaitsTypes, Types, TakeUpInv

\* The user's yes.
LEMMA YesFacts ==
    ASSUME WInv, NEW m \in 0..questions, NEW yes, SaysYes(m, yes)
    PROVE  consent \subseteq consent' /\ consent' \subseteq 0..questions /\ (waits /\ yes => m \in consent')
BY WaitsTypes, Types DEF SaysYes

LEMMA ShownTypes ==
    ASSUME WInv
    PROVE  /\ shown.q \in 0..questions
           /\ shown.q # 0 => shown.kind \in {"delete", "choice"}
           /\ \A e \in buttons : e.q \in 0..questions
<1>1. \A e \in Question : e.q \in 1..questions /\ e.kind \in {"delete", "choice"}
  BY DEF Question
<1>2. questions \in Nat /\ shown \in Question \cup {Unseen} /\ buttons \subseteq Question
  BY WaitsTypes, Types
<1> QED BY <1>1, <1>2, BlankFacts

\* The delete that waits is confirmed by its own question.
LEMMA ConfirmInv ==
    ASSUME WInv, NEW x \in Handlers, Free(x), NEW ch, NEW m \in 0..questions, Answer(ch, m), NEW yes, SaysYes(m, yes),
           NEW confirmed \in BOOLEAN, resumePendingConfirmation(x, ch, confirmed),
           waits /\ confirmed /\ pendingConfirmation # None => yes /\ shown.kind = "delete",
           list' = list, buttons' \subseteq buttons
    PROVE  WInv'
<1>1. /\ ch \in Channels /\ inputs' \in Nat /\ inputs' <= MaxInputs /\ Patient /\ shown' \in {shown, Unseen}
      /\ waits => shown.q = m
  BY AnswerFacts
<1>2. consent \subseteq consent' /\ consent' \subseteq 0..questions /\ (waits /\ yes => m \in consent')
  BY YesFacts
<1>3. ~Active(x)
  BY DEF Free, Active, Working
<1>4. OInv'
  BY <1>1, <1>2, <1>3, WaitsTypes, ConfirmOrder
<1>5. waits /\ confirmed /\ pendingConfirmation # None => pendingConfirmation.q \in consent'
  <2> SUFFICES ASSUME waits, confirmed, pendingConfirmation # None PROVE pendingConfirmation.q \in consent'
    OBVIOUS
  <2>1. outbox = {} /\ LastAsked
    BY <1>1, WaitsTypes DEF Patient
  <2>2. pendingConfirmation.q = m
    BY <1>1, <2>1 DEF LastAsked
  <2> QED BY <1>2, <2>2
<1> QED BY <1>1, <1>2, <1>4, <1>5, ConfirmWaits

LEMMA WebConfirmInv ==
    ASSUME WInv, NEW x \in Handlers, NEW yes \in BOOLEAN, WebConfirm(x, yes)
    PROVE  WInv'
<1>1. /\ Free(x) /\ shown.kind = "delete" /\ Answer("web", shown.q) /\ SaysYes(shown.q, yes)
      /\ resumePendingConfirmation(x, "web", yes) /\ list' = list /\ buttons' = buttons
  BY DEF WebConfirm
<1>2. shown.q \in 0..questions
  BY ShownTypes
<1> QED BY <1>1, <1>2, ConfirmInv

LEMMA ConfirmButtonInv ==
    ASSUME WInv, NEW x \in Handlers, NEW e \in buttons, NEW yes \in BOOLEAN, ConfirmButton(x, e, yes)
    PROVE  WInv'
<1>1. /\ Free(x) /\ e.kind = "delete" /\ Answer("telegram", e.q) /\ SaysYes(e.q, yes) /\ buttons' = buttons \ {e}
      /\ resumePendingConfirmation(x, "telegram", yes) /\ list' = list
  BY DEF ConfirmButton, Press
<1>2. e.q \in 0..questions
  BY ShownTypes
<1>3. waits => shown = e
  BY <1>1, AnswerFacts, WaitsTypes DEF Numbered
<1> QED BY <1>1, <1>2, <1>3, ConfirmInv

\* The tool's question is answered.
LEMMA RespondInv ==
    ASSUME WInv, NEW x \in Handlers, Free(x), NEW ch, NEW a, Answer(ch, a), NEW m, NEW cancelled \in BOOLEAN,
           handleGeneratorResponse(x, ch, m, cancelled), consent \subseteq consent', consent' \subseteq 0..questions,
           list' \in [Messengers -> 0..questions], list'["whatsapp"] = list["whatsapp"], buttons' \subseteq buttons
    PROVE  WInv'
<1>1. /\ ch \in Channels /\ inputs' \in Nat /\ inputs' <= MaxInputs /\ Patient /\ shown' \in {shown, Unseen}
  BY AnswerFacts
<1>2. ~Active(x) /\ (waits => Alone(x))
  BY <1>1, AloneFacts DEF Free, Active, Working
<1>3. OInv'
  BY <1>1, <1>2, WaitsTypes, RespondOrder
<1> QED BY <1>1, <1>2, <1>3, RespondWaits

LEMMA WebRespondInv ==
    ASSUME WInv, NEW x \in Handlers, NEW cancelled \in BOOLEAN, WebRespond(x, cancelled)
    PROVE  WInv'
<1>1. list \in [Messengers -> 0..questions] /\ consent \subseteq 0..questions
  BY WaitsTypes, Types
<1> QED BY <1>1, RespondInv DEF WebRespond

LEMMA CancelButtonInv ==
    ASSUME WInv, NEW x \in Handlers, NEW e \in buttons, CancelButton(x, e)
    PROVE  WInv'
<1>1. /\ Free(x) /\ Answer("telegram", e.q) /\ buttons' = buttons \ {e} /\ list' = [list EXCEPT !["telegram"] = 0]
      /\ handleGeneratorResponse(x, "telegram", e.q, TRUE) /\ consent' = consent
  BY DEF CancelButton, Press
<1>2. consent \subseteq 0..questions /\ list' \in [Messengers -> 0..questions] /\ list'["whatsapp"] = list["whatsapp"]
  BY <1>1, WaitsTypes, Types DEF Messengers
<1> QED BY <1>1, <1>2, RespondInv

LEMMA OptionButtonInv ==
    ASSUME WInv, NEW x \in Handlers, NEW e \in buttons, OptionButton(x, e)
    PROVE  WInv'
<1>1. /\ Free(x) /\ Answer("telegram", e.q) /\ buttons' = buttons \ {e} /\ consent' = consent
      /\ ListReply(x, "telegram", e.q, FALSE)
  BY DEF OptionButton, Press
<1>2. consent \subseteq 0..questions /\ "telegram" \in Messengers
  BY WaitsTypes, Types DEF Messengers
<1> QED BY <1>1, <1>2, ListInv

LEMMA GiveAnswerInv ==
    ASSUME WInv, NEW x \in Handlers, GiveAnswer(x)
    PROVE  WInv'
<1>1. /\ run[x].pc \in {"answer", "cancel"} /\ UNCHANGED <<list, buttons, shown, consent, inputs>>
  BY DEF GiveAnswer
<1>2. PICK cancelled \in BOOLEAN : cancelled = (run[x].pc = "cancel")
  OBVIOUS
<1>3. PICK ch \in Channels \cup {"web"} : ch = run[x].ch
  BY RunTypes, WaitsTypes
<1>4. handleGeneratorResponse(x, ch, run[x].q, cancelled)
  BY <1>2, <1>3 DEF GiveAnswer
<1>5. ~Active(x) /\ (waits => Alone(x))
  BY <1>1, AloneFacts DEF Free, Active, Working
<1>6. OInv'
  BY <1>1, <1>4, <1>5, WaitsTypes, Types, RespondOrder
<1> QED BY <1>1, <1>4, <1>5, <1>6, RespondWaits

\* One map after the other is asked.
LEMMA WhatsappReplyInv ==
    ASSUME WInv, NEW x \in Handlers, NEW r \in {"one", "two", "cancel"}, WhatsappReply(x, r)
    PROVE  WInv'
<1>1. /\ Free(x) /\ Answer("whatsapp", shown.q) /\ Route(x, r) /\ buttons' = buttons
      /\ SaysYes(shown.q, shown.kind = "delete" /\ r = "one")
  BY DEF WhatsappReply
<1>2. PICK m \in 0..questions : m = shown.q
  BY ShownTypes
<1>3. PICK yes \in BOOLEAN : yes = (shown.kind = "delete" /\ r = "one")
  OBVIOUS
<1>4. Answer("whatsapp", m) /\ SaysYes(m, yes)
  BY <1>1, <1>2, <1>3
<1>5. consent \subseteq consent' /\ consent' \subseteq 0..questions
  BY <1>4, YesFacts
<1>6. CASE list["whatsapp"] # 0
  <2>1. PICK cancelled \in BOOLEAN : cancelled = (r = "cancel")
    OBVIOUS
  <2>2. ListReply(x, "whatsapp", m, cancelled)
    BY <1>1, <1>2, <1>6, <2>1 DEF Route
  <2>3. "whatsapp" \in Messengers
    BY DEF Messengers
  <2> QED BY <1>1, <1>4, <1>5, <2>2, <2>3, ListInv
<1>7. CASE list["whatsapp"] = 0 /\ pendingConfirmation # None
  <2>1. PICK confirmed \in BOOLEAN : confirmed = (r = "one")
    OBVIOUS
  <2>2. resumePendingConfirmation(x, "whatsapp", confirmed) /\ list' = list
    BY <1>1, <1>7, <2>1 DEF Route, DeleteReply
  <2>3. waits => shown.kind = "delete"
    <3> SUFFICES ASSUME waits PROVE shown.kind = "delete"
      OBVIOUS
    <3>1. shown.q # 0 /\ shown.ch = "whatsapp" /\ outbox = {}
      BY <1>1, AnswerFacts DEF Patient
    <3>2. LastAsked
      BY WaitsTypes
    <3> QED BY <1>7, <3>1, <3>2, ShownTypes DEF LastAsked
  <2> QED BY <1>1, <1>3, <1>4, <2>1, <2>2, <2>3, ConfirmInv
<1>8. CASE list["whatsapp"] = 0 /\ pendingConfirmation = None
  <2>1. PICK cancelled \in BOOLEAN : cancelled = (r = "cancel")
    OBVIOUS
  <2>2. handleGeneratorResponse(x, "whatsapp", 0, cancelled) /\ list' = list
    BY <1>1, <1>8, <2>1 DEF Route, NumberReply
  <2>3. list' \in [Messengers -> 0..questions] /\ list'["whatsapp"] = list["whatsapp"]
    BY <2>2, WaitsTypes, Types
  <2> QED BY <1>1, <1>4, <1>5, <2>2, <2>3, RespondInv
<1> QED BY <1>6, <1>7, <1>8

LEMMA SameInv ==
    ASSUME WInv, UNCHANGED vars
    PROVE  WInv'
<1>1. UNCHANGED <<run, source, pendingConfirmation, pendingGenerator, list, buttons, controller, aborted, controllers, outbox,
                  questions, commands, inputs, waits, shown, consent, executed, stopped, misfit>>
  BY DEF vars, pending, cancelling, asking, history
<1>2. TInv'
  BY <1>1, WaitsTypes DEF TInv, TypeOK, Question, Entry, Pending, TaskKnown
<1>3. OInv'
  BY <1>1, <1>2, WaitsTypes DEF OInv, OneHolder, Active, Fits, Before, SegmentsInOrder
<1>4. Numbered' /\ DeleteConsented' /\ StopEnds'
  BY <1>1, WaitsTypes DEF Numbered, DeleteConsented, StopEnds
<1>5. ASSUME waits PROVE OneBusy' /\ LastAsked' /\ AllAgreed' /\ Stoppable' /\ \A s \in stopped' : Halted(s)'
  <2>1. OneBusy /\ LastAsked /\ AllAgreed /\ Stoppable /\ \A s \in stopped : Halted(s)
    BY <1>5, WaitsTypes
  <2>2. OneBusy' /\ LastAsked'
    BY <1>1, <2>1 DEF OneBusy, LastAsked, Free
  <2>3. AllAgreed' /\ Stoppable'
    BY <1>1, <2>1 DEF AllAgreed, Agreed, Stoppable, Registered
  <2>4. \A s \in stopped' : Halted(s)'
    BY <1>1, <2>1 DEF Halted, HaltedRun
  <2> QED BY <2>2, <2>3, <2>4
<1> QED BY <1>1, <1>3, <1>4, <1>5 DEF WInv

LEMMA InitInv == Init => WInv
<1> SUFFICES ASSUME Init PROVE WInv
  OBVIOUS
<1>1. /\ source = "web" /\ controller = 0 /\ aborted = {} /\ controllers = 0
      /\ pendingConfirmation = None /\ pendingGenerator = None /\ list = [m \in Messengers |-> 0]
      /\ outbox = {} /\ buttons = {} /\ questions = 0 /\ commands = 0 /\ inputs = 0 /\ waits \in BOOLEAN
      /\ shown = Unseen /\ consent = {} /\ stopped = {} /\ misfit = FALSE
      /\ executed = [c \in 1..MaxCommands |-> <<>>]
      /\ run = [x \in Handlers |-> Idle]
  BY DEF Init
<1>2. \A x \in Handlers : run[x] = Idle
  BY <1>1
<1>3. \A c \in 1..MaxCommands : executed[c] = <<>> /\ Len(executed[c]) = 0
  BY <1>1
<1>4. TInv
  <2>1. TypeOK
    <3>1. pendingConfirmation \in [q : 0..questions, task : Task] /\ pendingGenerator \in [q : 0..questions, task : Task]
      BY <1>1, BlankFacts DEF None
    <3>2. run \in [Handlers -> Handler] /\ list \in [Messengers -> 0..questions]
      BY <1>1, BlankFacts
    <3>3. /\ controller \in 0..controllers /\ aborted \subseteq 1..controllers /\ consent \subseteq 0..questions
          /\ source \in Channels \cup {"web"}
      BY <1>1
    <3>4. commands \in 0..MaxCommands /\ questions \in 0..MaxQuestions /\ inputs \in 0..MaxInputs
      BY <1>1, Constants
    <3>5. misfit \in BOOLEAN
      BY <1>1, Zenon
    <3> QED BY <1>1, <3>1, <3>2, <3>3, <3>4, <3>5 DEF TypeOK
  <2>2. executed \in [1..MaxCommands -> Seq(Entry)]
    BY <1>1
  <2>3. Pending(pendingConfirmation) /\ Pending(pendingGenerator)
    BY <1>1, <2>1 DEF Pending, TypeOK
  <2>4. \A x \in Handlers : TaskKnown(run[x])
    BY <1>2, IdleKnown
  <2> QED BY <1>1, <2>1, <2>2, <2>3, <2>4 DEF TInv
<1>5. \A x \in Handlers : ~Active(x) /\ Free(x)
  BY <1>2, BlankFacts DEF Active, Working, Free
<1>6. OInv
  <2>1. OneHolder
    BY <1>1, <1>5, BlankFacts DEF OneHolder
  <2>2. Fits(pendingConfirmation.task) /\ Fits(pendingGenerator.task)
    BY <1>1, BlankFacts DEF Fits
  <2>3. SegmentsInOrder
    BY <1>3 DEF SegmentsInOrder
  <2> QED BY <1>3, <1>4, <1>5, <2>1, <2>2, <2>3 DEF OInv
<1>7. Numbered /\ StopEnds
  BY <1>1 DEF Numbered, StopEnds
<1>8. DeleteConsented
  BY <1>3 DEF DeleteConsented
<1>9. OneBusy /\ LastAsked
  BY <1>1, <1>5 DEF OneBusy, LastAsked
<1>10. AllAgreed
  BY <1>1, <1>2, BlankFacts DEF AllAgreed, Agreed
<1>11. Stoppable
  BY <1>2, BlankFacts DEF Stoppable, Registered
<1> QED BY <1>1, <1>6, <1>7, <1>8, <1>9, <1>10, <1>11 DEF WInv

\* A question arrives: from now on it is the last one.
LEMMA ShowInv ==
    ASSUME WInv, NEW e \in outbox, Show(e)
    PROVE  WInv'
<1>1. /\ outbox' = outbox \ {e} /\ list' = KeepList(e) /\ buttons' = KeepButtons(e) /\ shown' = e
      /\ UNCHANGED <<run, source, pendingConfirmation, pendingGenerator, controller, aborted, controllers, questions,
                     commands, inputs, waits, consent, executed, stopped, misfit>>
  BY DEF Show, cancelling
<1>2. OInv /\ TInv
  BY WaitsTypes
<1>3. e.q \in 0..questions /\ e.q # 0
  <2>1. e \in Question /\ questions \in Nat
    BY <1>2, Types
  <2> QED BY <2>1 DEF Question
<1>4. list' \in [Messengers -> 0..questions] /\ (e.kind = "choice" /\ e.ch = "whatsapp" => list'["whatsapp"] # 0)
  <2>1. list \in [Messengers -> 0..questions]
    BY <1>2, Types
  <2> QED BY <1>1, <1>3, <2>1 DEF KeepList, Messengers
<1>5. buttons' \subseteq buttons \cup outbox
  BY <1>1 DEF KeepButtons
<1>6. \A y \in Handlers : TaskKnown(run[y])'
  BY <1>1, <1>2 DEF TInv, TaskKnown
<1>7. TInv'
  BY <1>1, <1>2, <1>4, <1>5, <1>6, Types, KeepTyped
<1>8. OInv'
  <2>1. \A y \in Handlers : Active(y)' => Active(y) /\ run[y].task.i \in Nat
    BY <1>1, <1>2, RunTypes, TaskTypes DEF Active
  <2> QED BY <1>1, <1>2, <1>7, <2>1, Calm
<1>9. Numbered'
  BY <1>1, <1>5, WaitsTypes DEF Numbered
<1>10. DeleteConsented' /\ StopEnds'
  BY <1>1, SameWaits
<1>11. ASSUME waits PROVE OneBusy' /\ LastAsked' /\ AllAgreed' /\ Stoppable' /\ \A s \in stopped' : Halted(s)'
  <2>1. OneBusy /\ LastAsked /\ AllAgreed /\ Stoppable /\ \A s \in stopped : Halted(s)
    BY <1>11, WaitsTypes
  <2>2. outbox' = {}
    BY <1>1, <2>1 DEF OneBusy
  <2>3. OneBusy'
    BY <1>1, <2>1, <2>2 DEF OneBusy, Free
  <2>4. LastAsked'
    BY <1>1, <1>4, <2>1 DEF LastAsked
  <2>5. AllAgreed' /\ Stoppable'
    BY <1>1, <2>1 DEF AllAgreed, Agreed, Stoppable, Registered
  <2>6. \A s \in stopped' : Halted(s)'
    BY <1>1, <2>1 DEF Halted, HaltedRun
  <2> QED BY <2>3, <2>4, <2>5, <2>6
<1> QED BY <1>1, <1>8, <1>9, <1>10, <1>11 DEF WInv

\* The user stops what runs: nothing has been done for it past the segment it is at.
LEMMA StopInv ==
    ASSUME WInv, Stop
    PROVE  WInv'
<1>1. /\ Input /\ cancel
      /\ UNCHANGED <<run, source, pendingConfirmation, pendingGenerator, list, buttons, outbox, questions, commands,
                     waits, shown, consent, executed, misfit>>
  BY DEF Stop, pending, asking
<1>2. OInv /\ TInv
  BY WaitsTypes
<1>3. /\ controllers' = controllers /\ controller' = 0 /\ aborted \subseteq aborted' /\ aborted' \subseteq 1..controllers'
      /\ controller = 0 \/ controller \in aborted'
  BY <1>1, <1>2, CancelFacts
<1>4. inputs' \in Nat /\ inputs' <= MaxInputs
  BY <1>1, InputFacts
<1>5. ASSUME NEW s \in stopped', s \notin stopped
      PROVE  \E x \in Handlers :
                 /\ waits /\ run[x].pc \in {"segment", "loop", "choose", "execute"} /\ ~run[x].resumed
                 /\ s = <<run[x].task.cmd, IF run[x].pc = "loop" THEN run[x].task.i - 1 ELSE run[x].task.i>>
  BY <1>5 DEF Stop
<1>6. ASSUME NEW s \in stopped', s \notin stopped
      PROVE  /\ waits /\ s[1] \in 1..commands /\ s[2] \in Nat /\ s = <<s[1], s[2]>>
             /\ \E x \in Handlers :
                  /\ Active(x) /\ run[x].pc # "drive" /\ run[x].task.cmd = s[1] /\ run[x].task.ctl \in aborted'
                  /\ run[x].task.i = IF run[x].pc = "loop" THEN s[2] + 1 ELSE s[2]
  <2>1. PICK x \in Handlers :
                 /\ waits /\ run[x].pc \in {"segment", "loop", "choose", "execute"} /\ ~run[x].resumed
                 /\ s = <<run[x].task.cmd, IF run[x].pc = "loop" THEN run[x].task.i - 1 ELSE run[x].task.i>>
    BY <1>5, <1>6
  <2>2. Active(x) /\ run[x].pc # "drive"
    BY <2>1 DEF Active, Working
  <2>3. PICK t \in Task : t = run[x].task /\ t.i \in Nat /\ t.cmd \in 1..commands
    BY <1>2, <2>2, RunTypes, TaskTypes
  <2>4. run[x].pc = "loop" => t.i # 0
    BY <1>2, <2>3 DEF TInv, TaskKnown
  <2>5. t.ctl \in aborted'
    BY <1>3, <2>1, <2>3, WaitsTypes DEF Stoppable, Registered
  <2>6. /\ s[1] = t.cmd /\ s[2] = (IF run[x].pc = "loop" THEN t.i - 1 ELSE t.i) /\ s = <<s[1], s[2]>>
    BY <2>1, <2>3
  <2>7. s[2] \in Nat /\ t.i = IF run[x].pc = "loop" THEN s[2] + 1 ELSE s[2]
    BY <2>3, <2>4, <2>6
  <2> QED BY <2>1, <2>2, <2>3, <2>5, <2>6, <2>7
<1>7. stopped' \subseteq (1..commands) \X Nat
  <2> SUFFICES ASSUME NEW s \in stopped' PROVE s \in (1..commands) \X Nat
    OBVIOUS
  <2>1. CASE s \in stopped
    BY <1>2, <2>1, Types
  <2>2. CASE s \notin stopped
    BY <1>6, <2>2
  <2> QED BY <2>1, <2>2
<1>8. \A y \in Handlers : TaskKnown(run[y])'
  BY <1>1, <1>2 DEF TInv, TaskKnown
<1>9. TInv'
  BY <1>1, <1>2, <1>3, <1>4, <1>7, <1>8, Types, KeepTyped
<1>10. OInv'
  <2>1. \A y \in Handlers : Active(y)' => Active(y) /\ run[y].task.i \in Nat
    BY <1>1, <1>2, RunTypes, TaskTypes DEF Active
  <2> QED BY <1>1, <1>2, <1>9, <2>1, Calm
<1>11. Numbered' /\ DeleteConsented'
  BY <1>1, WaitsTypes DEF Numbered, DeleteConsented
<1>12. StopEnds'
  <2> SUFFICES ASSUME waits, NEW s \in stopped', NEW k \in 1..Len(executed[s[1]])
               PROVE  executed[s[1]][k].i <= s[2]
    BY <1>1 DEF StopEnds
  <2>1. CASE s \in stopped
    BY <2>1, WaitsTypes DEF StopEnds
  <2>2. CASE s \notin stopped
    <3>1. s[2] \in Nat /\ s[1] \in 1..MaxCommands /\ s[1] # 0
      BY <1>2, <1>6, <2>2, Types, Constants
    <3>2. PICK x \in Handlers : Active(x) /\ run[x].task.cmd = s[1] /\ (run[x].task.i = s[2] \/ run[x].task.i = s[2] + 1)
      BY <1>6, <2>2
    <3>3. executed[s[1]][k].i < run[x].task.i
      BY <1>2, <3>1, <3>2 DEF OInv, Fits, Before
    <3>4. executed[s[1]][k].i \in Nat
      <4>1. executed[s[1]] \in Seq(Entry)
        BY <1>2, <3>1, Types
      <4> QED BY <4>1, EntryTypes
    <3> QED BY <3>1, <3>2, <3>3, <3>4
  <2> QED BY <2>1, <2>2
<1>13. ASSUME waits PROVE OneBusy' /\ LastAsked' /\ AllAgreed' /\ Stoppable' /\ \A s \in stopped' : Halted(s)'
  <2>1. OneBusy /\ LastAsked /\ AllAgreed /\ Stoppable /\ \A s \in stopped : Halted(s)
    BY <1>13, WaitsTypes
  <2>2. OneBusy' /\ LastAsked'
    BY <1>1, <2>1 DEF OneBusy, LastAsked, Free
  <2>3. AllAgreed' /\ Stoppable'
    BY <1>1, <1>3, <2>1 DEF AllAgreed, Agreed, Stoppable, Registered
  <2>4. ASSUME NEW s \in stopped' PROVE Halted(s)'
    <3>1. CASE s \in stopped
      BY <1>1, <1>3, <2>1, <3>1 DEF Halted, HaltedRun
    <3>2. CASE s \notin stopped
      <4>1. PICK x \in Handlers :
                  /\ Active(x) /\ run[x].pc # "drive" /\ run[x].task.cmd = s[1] /\ run[x].task.ctl \in aborted'
                  /\ run[x].task.i = IF run[x].pc = "loop" THEN s[2] + 1 ELSE s[2]
        BY <1>6, <2>4, <3>2
      <4>2. s[2] \in Nat
        BY <1>6, <2>4, <3>2
      <4>3. \A y \in Handlers : Active(y) /\ run[y].task.cmd = s[1] => y = x
        BY <1>2, <4>1 DEF OInv, OneHolder
      <4>4. pendingConfirmation.task.cmd # s[1] /\ pendingGenerator.task.cmd # s[1]
        BY <1>2, <4>1 DEF OInv, OneHolder
      <4>5. run[x].task.i <= IF run[x].pc \in {"segment", "loop"} THEN s[2] + 1 ELSE s[2]
        BY <4>1, <4>2
      <4>6. \A y \in Handlers : HaltedRun(s, run[y])'
        BY <1>1, <4>1, <4>3, <4>5 DEF HaltedRun, Active
      <4> QED BY <1>1, <4>4, <4>6 DEF Halted
    <3> QED BY <3>1, <3>2
  <2> QED BY <2>2, <2>3, <2>4
<1> QED BY <1>1, <1>10, <1>11, <1>12, <1>13 DEF WInv

\* Nothing waits any more.
LEMMA ForgottenInv ==
    ASSUME WInv, OInv', DeleteConsented', StopEnds', pendingConfirmation' = None, pendingGenerator' = None,
           UNCHANGED <<run, buttons, controller, aborted, outbox, waits, shown, consent, stopped>>
    PROVE  WInv'
<1>1. Numbered'
  BY WaitsTypes DEF Numbered
<1>2. ASSUME waits PROVE OneBusy' /\ LastAsked' /\ AllAgreed' /\ Stoppable' /\ \A s \in stopped' : Halted(s)'
  <2>1. OneBusy /\ LastAsked /\ AllAgreed /\ Stoppable /\ \A s \in stopped : Halted(s)
    BY <1>2, WaitsTypes
  <2>2. OneBusy' /\ LastAsked'
    BY <2>1 DEF OneBusy, LastAsked, Free
  <2>3. AllAgreed' /\ Stoppable'
    BY <2>1, BlankFacts DEF AllAgreed, Agreed, Stoppable, Registered
  <2>4. ASSUME NEW s \in stopped' PROVE Halted(s)'
    <3>1. s[1] # 0
      BY <2>4, WaitsTypes, Types
    <3>2. \A y \in Handlers : HaltedRun(s, run[y])'
      BY <2>1, <2>4 DEF Halted, HaltedRun
    <3> QED BY <3>1, <3>2, BlankFacts DEF Halted
  <2> QED BY <2>2, <2>3, <2>4
<1> QED BY <1>1, <1>2 DEF WInv

\* Everything that waits is forgotten.
LEMMA WhatsappHomeInv ==
    ASSUME WInv, WhatsappHome
    PROVE  WInv'
<1>1. /\ "whatsapp" \in Channels /\ Input /\ list' = [list EXCEPT !["whatsapp"] = 0]
      /\ pendingConfirmation' = None /\ pendingGenerator' = None /\ source' \in {source, "whatsapp"}
      /\ UNCHANGED <<run, buttons, controller, aborted, controllers, outbox, questions, commands, waits, shown, consent,
                     stopped, misfit>>
  BY DEF WhatsappHome, cancelling, asking
<1>2. OInv /\ TInv
  BY WaitsTypes
<1>3. PICK p : p = pendingGenerator
  OBVIOUS
<1>4. p.task \in Task /\ (p = None \/ p.task.cmd \in 1..commands)
  BY <1>2, <1>3, PendingTypes, Types
<1>5. \/ executed' = executed
      \/ p # None /\ Done(p.task, FALSE)
  BY <1>3 DEF WhatsappHome
<1>6. Pending(None)
  BY <1>2, BlankFacts, Types DEF Pending, None
<1>7. inputs' \in Nat /\ inputs' <= MaxInputs /\ list' \in [Messengers -> 0..questions]
  <2>1. inputs' \in Nat /\ inputs' <= MaxInputs
    BY <1>1, InputFacts
  <2>2. list \in [Messengers -> 0..questions] /\ 0 \in 0..questions
    BY <1>2, Types
  <2> QED BY <1>1, <2>1, <2>2
<1>8. p # None => p.task.cmd \in 1..MaxCommands
  BY <1>2, <1>4, Types, Constants
<1>9. executed' \in [1..MaxCommands -> Seq(Entry)]
  <2>1. CASE executed' = executed
    BY <1>2, <2>1, Types
  <2>2. CASE p # None /\ Done(p.task, FALSE)
    BY <1>2, <1>4, <1>8, <2>2, DoneFacts
  <2> QED BY <1>5, <2>1, <2>2
<1>10. \A y \in Handlers : TaskKnown(run[y])'
  BY <1>1, <1>2 DEF TInv, TaskKnown
<1>11. TInv'
  BY <1>1, <1>2, <1>6, <1>7, <1>9, <1>10, Types, KeepTyped
<1>12. \A y \in Handlers : Active(y)' => Active(y) /\ run[y].task.i \in Nat
  BY <1>1, <1>2, RunTypes, TaskTypes DEF Active
<1>13. CASE executed' = executed
  <2>1. OInv'
    BY <1>1, <1>2, <1>11, <1>12, <1>13, Calm
  <2>2. DeleteConsented' /\ StopEnds'
    BY <1>1, <1>13, SameWaits
  <2> QED BY <1>1, <2>1, <2>2, ForgottenInv
<1>14. CASE p # None /\ Done(p.task, FALSE)
  <2>1. PICK c \in 1..commands : c = p.task.cmd /\ c \in 1..MaxCommands
    BY <1>4, <1>8, <1>14
  <2>2. \A d \in 1..MaxCommands : d # c => executed'[d] = executed[d]
    BY <1>2, <1>4, <1>14, <2>1, DoneFacts
  <2>3. \A y \in Handlers : Active(y)' => Active(y) /\ run'[y] = run[y] /\ run[y].task.cmd # c
    BY <1>1, <1>2, <1>3, <1>12, <2>1 DEF OInv, OneHolder
  <2>4. Ordered(executed'[c])
    <3>1. Fits(p.task)
      BY <1>2, <1>3 DEF OInv
    <3> QED BY <1>2, <1>4, <1>14, <2>1, <3>1, DoneInOrder
  <2>5. None.task.cmd # c
    BY <1>2, <2>1, BlankFacts, Types
  <2>6. OInv'
    BY <1>1, <1>2, <1>11, <2>2, <2>3, <2>4, <2>5, Tokens
  <2>7. waits => \A s \in stopped' : s[1] = p.task.cmd => p.task.i <= s[2]
    BY <1>1, <1>3, WaitsTypes DEF Halted
  <2>8. DeleteConsented' /\ StopEnds'
    BY <1>1, <1>4, <1>8, <1>14, <2>7, DoneWaits
  <2> QED BY <1>1, <2>6, <2>8, ForgottenInv
<1> QED BY <1>5, <1>13, <1>14

LEMMA WorkInv ==
    ASSUME WInv, NEW x \in Handlers, Work(x)
    PROVE  WInv'
BY RefuseInv, StartInv, SegmentInv, LoopInv, ChooseInv, ExecuteInv, DriveInv, GiveAnswerInv DEF Work

LEMMA NextInv == WInv /\ [Next]_vars => WInv'
<1> SUFFICES ASSUME WInv, [Next]_vars PROVE WInv'
  OBVIOUS
<1>1. ASSUME NEW x \in Handlers, Work(x) \/ Command(x) PROVE WInv'
  BY <1>1, WorkInv, CommandInv
<1>2. ASSUME NEW x \in Handlers, NEW b \in BOOLEAN, WebConfirm(x, b) \/ WebRespond(x, b) PROVE WInv'
  BY <1>2, WebConfirmInv, WebRespondInv
<1>3. ASSUME NEW x \in Handlers, NEW r \in {"one", "two", "cancel"}, WhatsappReply(x, r) PROVE WInv'
  BY <1>3, WhatsappReplyInv
<1>4. ASSUME NEW x \in Handlers, NEW e \in buttons, NEW b \in BOOLEAN, ConfirmButton(x, e, b) PROVE WInv'
  BY <1>4, ConfirmButtonInv
<1>5. ASSUME NEW x \in Handlers, NEW e \in buttons, OptionButton(x, e) \/ CancelButton(x, e) PROVE WInv'
  BY <1>5, OptionButtonInv, CancelButtonInv
<1>6. ASSUME NEW e \in outbox, Show(e) PROVE WInv'
  BY <1>6, ShowInv
<1>7. CASE WhatsappHome
  BY <1>7, WhatsappHomeInv
<1>8. CASE Stop
  BY <1>8, StopInv
<1>9. CASE UNCHANGED vars
  BY <1>9, SameInv
<1> QED BY <1>1, <1>2, <1>3, <1>4, <1>5, <1>6, <1>7, <1>8, <1>9 DEF Next

-----------------------------------------------------------------------------
(* The theorems. *)

LEMMA Inductive == Spec => []WInv
BY InitInv, NextInv, PTL DEF Spec

\* The types of the assistant's state: the controller registered is one that was made, what waits is a
\* task of at most MaxSegments segments, and lists and consents name questions that were asked.
THEOREM TypeCorrect == Spec => []TypeOK
<1>1. WInv => TypeOK
  BY DEF WInv, OInv, TInv
<1> QED BY <1>1, Inductive, PTL

\* However commands and answers of several channels meet, the segments of a command are done in order, none
\* twice, and none after one that failed: one handler or one entry of the maps goes on with a command, and
\* it is at a later segment than all that was done (runSegments, resumePendingConfirmation).
THEOREM InOrder == Spec => []SegmentsInOrder
<1>1. WInv => SegmentsInOrder
  BY DEF WInv, OInv
<1> QED BY <1>1, Inductive, PTL

\* A user who lets runs end and answers the last question where it was shown has every delete done on a yes
\* to its own question, although no answer names one: handleIncomingMessage asks the list before the delete.
THEOREM Consented == Spec => []DeleteConsented
<1>1. WInv => DeleteConsented
  BY DEF WInv
<1> QED BY <1>1, Inductive, PTL

\* After stop no later segment of the command is done until a choice goes on: a run is under the controller
\* registered or under one that was aborted, and its controller is the one the loop looks at.
THEOREM Stops == Spec => []StopEnds
<1>1. WInv => StopEnds
  BY DEF WInv
<1> QED BY <1>1, Inductive, PTL
=============================================================================
