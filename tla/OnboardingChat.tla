---------------------------- MODULE OnboardingChat ----------------------------
(***************************************************************************)
(* The onboarding dialog of a board: the sessions on the server, whose     *)
(* messages the user's answers and the agent's replies each rewrite as a   *)
(* whole, and the dialog, which polls while it waits for an assistant      *)
(* message that differs from the one it answered.                          *)
(*                                                                         *)
(* A message is 0 for the user's, or the number of the assistant's: its    *)
(* time and content.  Every assistant message is a question or, with       *)
(* complete, a draft.  The page is active throughout.                      *)
(***************************************************************************)
EXTENDS Naturals, FiniteSets, SequencesExt

CONSTANTS MaxOnboardingEvents,  \* bound: answers, confirmations and reopened dialogs
          MaxPolls              \* bound: polls in flight at once

ASSUME OnboardingBoundsAssumption == {MaxOnboardingEvents, MaxPolls} \subseteq Nat

NoSession == [id |-> 0, ver |-> 0, msgs |-> <<>>, draft |-> FALSE, status |-> "none"]

VARIABLES onboarding,     \* the sessions on the server; ver orders their commits
          prompts,        \* messages dispatched to the agent and not replied to
          replying,       \* the agent's update in progress: the session it has read
          session,        \* the session the dialog shows
          loading,        \* a start, an answer or a confirmation is in flight
          awaiting,       \* awaitingAssistantFingerprint, 0 for none
          calls,          \* requests in flight
          dialogEvents,   \* events of this behaviour so far
          replies,        \* assistant messages so far
          replyLost,      \* history: a reply that no session holds
          reoffer         \* history: why an answered question may be offered again

onboardingVars == <<onboarding, prompts, replying, session, loading, awaiting, calls, dialogEvents,
                    replies, replyLost, reoffer>>
-------------------------------------------------------------------------------
\* Every endpoint but start takes the session updated last.
Latest == IF onboarding = <<>> THEN NoSession
          ELSE CHOOSE s \in ToSet(onboarding) : \A r \in ToSet(onboarding) : r.ver <= s.ver

\* Row s is written, and is the session updated last from now on.
Stored(s) == LET row == [s EXCEPT !.id = IF @ = 0 THEN Len(onboarding) + 1 ELSE @,
                                  !.ver = Latest.ver + 1]
             IN IF s.id = 0 THEN Append(onboarding, row) ELSE ReplaceAt(onboarding, s.id, row)

\* lastAssistantFingerprint
LastAssistant(s) == Max({0} \cup ToSet(s.msgs))
AnsweredLast(s) == s.msgs # <<>> /\ Last(s.msgs) = 0

IsAwaitingAgent == awaiting # 0 /\ LastAssistant(session) = awaiting
HasQuestion == session.draft \/ LastAssistant(session) # 0

\* Variant: only the first question is polled for.
ShouldPollAtStart == loading \/ ~HasQuestion

ShouldPoll == loading \/ IsAwaitingAgent \/ ~HasQuestion

\* What the dialog shows next, and the effect that ends the wait.
Show(s, wait) ==
    /\ session' = s
    /\ awaiting' = IF LastAssistant(s) = wait THEN wait ELSE 0

\* A request of the open dialog (mounted), with the message it shows now.
Call(kind, s) == [kind |-> kind, phase |-> "sent", mounted |-> TRUE, before |-> LastAssistant(s),
                  got |-> NoSession]
Replace(c, d) == calls' = (calls \ {c}) \cup {d}

OnboardingInit ==
    /\ onboarding = <<>>
    /\ prompts = 0
    /\ replying = <<>>
    /\ session = NoSession
    /\ loading = TRUE
    /\ awaiting = 0
    /\ calls = {Call("start", NoSession)}
    /\ dialogEvents = 0
    /\ replies = 0
    /\ replyLost = FALSE
    /\ reoffer = {}
-------------------------------------------------------------------------------
DialogEvent == dialogEvents < MaxOnboardingEvents /\ dialogEvents' = dialogEvents + 1

\* The dialog is closed and opened again: the answers to its requests find no one, the
\* session is started again, and nothing says that an answer was waiting.
Reopen ==
    /\ DialogEvent
    /\ loading' = TRUE
    /\ awaiting' = 0
    /\ session' = NoSession
    /\ calls' = {[c EXCEPT !.mounted = FALSE] : c \in {d \in calls : d.kind # "get"}}
                 \cup {Call("start", NoSession)}
    /\ reoffer' = reoffer \cup {"reopened"}
    /\ UNCHANGED <<onboarding, prompts, replying, replies, replyLost>>

\* refreshSession, every two seconds; no poll is cancelled by the next.
PollSession ==
    /\ ShouldPoll
    /\ Cardinality({c \in calls : c.kind = "get"}) < MaxPolls
    /\ \A c \in calls : c.kind = "get" => c.phase # "sent"
    /\ calls' = calls \cup {Call("get", NoSession)}
    /\ UNCHANGED <<onboarding, prompts, replying, session, loading, awaiting, dialogEvents, replies,
                   replyLost, reoffer>>

\* handleAnswer and submitExtraContext up to their await.
SubmitAnswer ==
    /\ DialogEvent
    /\ HasQuestion /\ ~loading /\ ~IsAwaitingAgent
    /\ loading' = TRUE
    /\ awaiting' = 0
    /\ calls' = calls \cup {Call("answer", session)}
    /\ UNCHANGED <<onboarding, prompts, replying, session, replies, replyLost, reoffer>>

ConfirmGoal ==
    /\ DialogEvent
    /\ session.draft /\ ~loading /\ ~IsAwaitingAgent
    /\ loading' = TRUE
    /\ calls' = calls \cup {Call("confirm", session)}
    /\ UNCHANGED <<onboarding, prompts, replying, session, awaiting, replies, replyLost, reoffer>>
-------------------------------------------------------------------------------
ServeGet(c) ==
    /\ c \in calls /\ c.kind = "get" /\ c.phase = "sent"
    /\ Replace(c, [c EXCEPT !.phase = "done", !.got = Latest])
    /\ UNCHANGED <<onboarding, prompts, replying, session, loading, awaiting, dialogEvents, replies,
                   replyLost, reoffer>>

\* start_onboarding resumes a session that is active, if there is one.  If its last
\* message is the user's, the agent is written to again; if not, it is only returned.
StartReads(c) ==
    /\ c \in calls /\ c.kind = "start" /\ c.phase = "sent"
    /\ LET active == {s \in ToSet(onboarding) : s.status = "active"}
       IN \E s \in IF active = {} THEN {NoSession} ELSE active :
             IF s = NoSession \/ AnsweredLast(s)
             THEN prompts' = prompts + 1 /\ Replace(c, [c EXCEPT !.phase = "read", !.got = s])
             ELSE UNCHANGED prompts /\ Replace(c, [c EXCEPT !.phase = "done", !.got = s])
    /\ UNCHANGED <<onboarding, replying, session, loading, awaiting, dialogEvents, replies, replyLost,
                   reoffer>>

\* A new session holds the prompt; nothing keeps two starts from each making one.
StartCommits(c) ==
    /\ c \in calls /\ c.kind = "start" /\ c.phase = "read"
    /\ onboarding' = Stored(IF c.got = NoSession
                            THEN [NoSession EXCEPT !.msgs = <<0>>, !.status = "active"]
                            ELSE onboarding[c.got.id])
    /\ Replace(c, [c EXCEPT !.phase = "done", !.got = Latest'])
    /\ UNCHANGED <<prompts, replying, session, loading, awaiting, dialogEvents, replies, replyLost,
                   reoffer>>

\* answer_onboarding reads the session and writes to the agent...
Dispatch(c) ==
    /\ c \in calls /\ c.kind = "answer" /\ c.phase = "sent"
    /\ prompts' = prompts + 1
    /\ Replace(c, [c EXCEPT !.phase = "read", !.got = Latest])
    /\ UNCHANGED <<onboarding, replying, session, loading, awaiting, dialogEvents, replies, replyLost,
                   reoffer>>

\* ... and commits the messages it had read with the answer appended: a reply stored
\* in between is gone from the transcript.
Commit(c) ==
    /\ c \in calls /\ c.kind = "answer" /\ c.phase = "read"
    /\ LET row == onboarding[c.got.id]
           next == [row EXCEPT !.msgs = Append(c.got.msgs, 0)]
       IN /\ onboarding' = Stored(next)
          /\ replyLost' = (replyLost \/ LastAssistant(next) < LastAssistant(row))
    /\ Replace(c, [c EXCEPT !.phase = "done", !.got = Latest'])
    /\ UNCHANGED <<prompts, replying, session, loading, awaiting, dialogEvents, replies, reoffer>>

\* confirm_onboarding
ServeConfirm(c) ==
    /\ c \in calls /\ c.kind = "confirm" /\ c.phase = "sent"
    /\ onboarding' = Stored([Latest EXCEPT !.status = "confirmed"])
    /\ Replace(c, [c EXCEPT !.phase = "done"])
    /\ UNCHANGED <<prompts, replying, session, loading, awaiting, dialogEvents, replies, replyLost,
                   reoffer>>
-------------------------------------------------------------------------------
\* agent_onboarding_update: it reads the session too before it commits it.
AgentReads ==
    /\ prompts > 0
    /\ replying = <<>>
    /\ prompts' = prompts - 1
    /\ IF Latest.status \in {"none", "confirmed"}
       THEN replyLost' = TRUE /\ UNCHANGED replying
       ELSE replying' = <<Latest>> /\ UNCHANGED replyLost
    /\ UNCHANGED <<onboarding, session, loading, awaiting, calls, dialogEvents, replies, reoffer>>

AgentCommits ==
    /\ replying # <<>>
    /\ replying' = <<>>
    /\ replies' = replies + 1
    /\ \E complete \in BOOLEAN :
          onboarding' = Stored([onboarding[replying[1].id] EXCEPT
              !.msgs = Append(replying[1].msgs, replies + 1),
              !.draft = @ \/ complete, !.status = IF complete THEN "completed" ELSE @])
    /\ UNCHANGED <<prompts, session, loading, awaiting, calls, dialogEvents, replyLost, reoffer>>
-------------------------------------------------------------------------------
\* A poll's answer is shown whatever was shown before it; a 404 is ignored.
GetAnswered(c) ==
    /\ c \in calls /\ c.mounted /\ c.kind = "get" /\ c.phase = "done"
    /\ calls' = calls \ {c}
    /\ IF c.got = NoSession THEN UNCHANGED <<session, awaiting>> ELSE Show(c.got, awaiting)
    /\ reoffer' = IF c.got.ver < session.ver THEN reoffer \cup {"stale"} ELSE reoffer
    /\ UNCHANGED <<onboarding, prompts, replying, loading, dialogEvents, replies, replyLost>>

StartAnswered(c) ==
    /\ c \in calls /\ c.mounted /\ c.kind = "start" /\ c.phase = "done"
    /\ calls' = calls \ {c}
    /\ Show(c.got, awaiting)
    /\ loading' = FALSE
    /\ reoffer' = IF c.got.ver < session.ver THEN reoffer \cup {"stale"} ELSE reoffer
    /\ UNCHANGED <<onboarding, prompts, replying, dialogEvents, replies, replyLost>>

\* Variant: the wait is not started.
AnswerAnsweredNoWait(c) ==
    /\ c \in calls /\ c.mounted /\ c.kind = "answer" /\ c.phase = "done"
    /\ calls' = calls \ {c}
    /\ Show(c.got, 0)
    /\ loading' = FALSE
    /\ UNCHANGED <<onboarding, prompts, replying, dialogEvents, replies, replyLost, reoffer>>

\* The wait is for a message other than the one shown when the answer was sent.
AnswerAnswered(c) ==
    /\ c \in calls /\ c.mounted /\ c.kind = "answer" /\ c.phase = "done"
    /\ calls' = calls \ {c}
    /\ Show(c.got, c.before)
    /\ loading' = FALSE
    /\ reoffer' = IF c.got.ver < session.ver THEN reoffer \cup {"stale"} ELSE reoffer
    /\ UNCHANGED <<onboarding, prompts, replying, dialogEvents, replies, replyLost>>

\* onConfirmed closes the dialog for good.
ConfirmAnswered(c) ==
    /\ c \in calls /\ c.mounted /\ c.kind = "confirm" /\ c.phase = "done"
    /\ calls' = {}
    /\ loading' = FALSE
    /\ dialogEvents' = MaxOnboardingEvents
    /\ UNCHANGED <<onboarding, prompts, replying, session, awaiting, replies, replyLost, reoffer>>

OrphanAnswered(c) ==
    /\ c \in calls /\ ~c.mounted /\ c.phase = "done"
    /\ calls' = calls \ {c}
    /\ UNCHANGED <<onboarding, prompts, replying, session, loading, awaiting, dialogEvents, replies,
                   replyLost, reoffer>>

\* Refused (the gateway is away) or lost, also after the server has committed.
CallFails(c) ==
    /\ c \in calls /\ c.mounted
    /\ c.kind \in {"start", "answer", "confirm"} /\ c.phase # "read"
    /\ calls' = calls \ {c}
    /\ loading' = FALSE
    /\ reoffer' = reoffer \cup {"failed"}
    /\ UNCHANGED <<onboarding, prompts, replying, session, awaiting, dialogEvents, replies, replyLost>>

OnboardingServer == \E c \in calls : \/ ServeGet(c)
                                     \/ StartReads(c) \/ StartCommits(c)
                                     \/ Dispatch(c) \/ Commit(c)
                                     \/ ServeConfirm(c)
OnboardingAnswers == \E c \in calls : \/ GetAnswered(c) \/ StartAnswered(c)
                                      \/ AnswerAnswered(c) \/ ConfirmAnswered(c)
                                      \/ OrphanAnswered(c)
OnboardingFailures == \E c \in calls : CallFails(c)
OnboardingAgent == AgentReads \/ AgentCommits

OnboardingNext == \/ Reopen \/ PollSession \/ SubmitAnswer \/ ConfirmGoal
                  \/ OnboardingServer \/ OnboardingAnswers \/ OnboardingFailures
                  \/ OnboardingAgent

OnboardingSpec == OnboardingInit /\ [][OnboardingNext]_onboardingVars

\* The browser polls, the server and the agent answer.
OnboardingFairness ==
    /\ WF_onboardingVars(PollSession)
    /\ WF_onboardingVars(OnboardingServer)
    /\ WF_onboardingVars(OnboardingAnswers)
    /\ WF_onboardingVars(OnboardingAgent)
OnboardingFairSpec == OnboardingSpec /\ OnboardingFairness
-------------------------------------------------------------------------------
SessionType == [id : Nat, ver : Nat, msgs : Seq(Nat), draft : BOOLEAN,
                status : {"none", "active", "completed", "confirmed"}]

OnboardingTypeOK ==
    /\ {session} \cup ToSet(onboarding) \cup ToSet(replying) \subseteq SessionType
    /\ {prompts, awaiting, dialogEvents, replies} \subseteq Nat
    /\ {loading, replyLost} \subseteq BOOLEAN
    /\ calls \subseteq [mounted : BOOLEAN, kind : {"start", "get", "answer", "confirm"},
                        phase : {"sent", "read", "done"}, before : Nat, got : SessionType]
    /\ reoffer \subseteq {"reopened", "stale", "failed"}

\* A question already answered is not offered again, unless the dialog was reopened
\* before the reply, an answer was taken for failed, or a late poll brought the
\* transcript from before the answer.
OfferedQuestionIsOpen ==
    HasQuestion /\ ~loading /\ ~IsAwaitingAgent => ~AnsweredLast(session) \/ reoffer # {}

\* The dialog does not wait for ever: the reply ends the wait, if it was not lost when
\* the answer's transaction wrote back the messages from before it.
ReplyEndsWait == []<>(~IsAwaitingAgent \/ replyLost)
===============================================================================
