------------------------------ MODULE Feedback ------------------------------
(***************************************************************************)
(* Asking for a feature: the form of web/app/(public)/feedback/page.tsx,   *)
(* the handler of internal/feedback/feedback.go with its mail on a         *)
(* goroutine, and the inbox of the administrators,                         *)
(* web/app/dashboard/feedback/page.tsx.  Name and address go with the      *)
(* message.                                                                *)
(***************************************************************************)
EXTENDS Naturals, Sequences

CONSTANTS
  Messages,    \* what a visitor writes
  Torn,        \* those whose 4000th byte is in the middle of a character
  NoMessage,   \* nothing but spaces
  InboxLimit,  \* rows the inbox shows, 200 in the query
  MaxSends     \* bounds the requests

ASSUME FeedbackAssumption ==
  Torn \subseteq Messages /\ NoMessage \notin Messages /\ {InboxLimit, MaxSends} \subseteq Nat

VARIABLES
  letter,    \* the form: its message, whether the hidden field is filled, and its state
  sending,   \* the POST
  feedback,  \* rows of the table, newest first
  mails,     \* goroutines that still send a mail
  mailed,    \* mails sent
  inbox,     \* what an administrator sees
  sends,     \* how many requests there were
  heard,     \* history: rows stored for this form
  unheard    \* history: answers about a stored row that were lost

feedbackVars == <<letter, sending, feedback, mails, mailed, inbox, sends, heard, unheard>>
-----------------------------------------------------------------------------
BlankLetter == [message |-> NoMessage, trap |-> FALSE, state |-> "idle"]
NotSending == [pc |-> "idle", message |-> NoMessage, trap |-> FALSE]
ClosedInbox == [view |-> "closed", items |-> << >>]

FeedbackInit ==
  /\ letter = BlankLetter /\ sending = NotSending
  /\ feedback = << >> /\ mails = 0 /\ mailed = 0
  /\ inbox = ClosedInbox
  /\ sends = 0 /\ heard = 0 /\ unheard = 0

\* What the page shows: "thanks" has no way back to the form.
FormControls ==
  CASE letter.state = "success" -> {"roadmap"}
    [] letter.state = "loading" -> {"message"}
    [] OTHER -> {"message"} \cup (IF letter.message = NoMessage THEN {} ELSE {"send"})
-----------------------------------------------------------------------------
Write(m) ==
  /\ "message" \in FormControls /\ letter.message # m
  /\ letter' = [letter EXCEPT !.message = m]
  /\ UNCHANGED <<sending, feedback, mails, mailed, inbox, sends, heard, unheard>>

\* The browser fills in the hidden field for the visitor.
FillTrap ==
  /\ "message" \in FormControls /\ ~letter.trap
  /\ letter' = [letter EXCEPT !.trap = TRUE]
  /\ UNCHANGED <<sending, feedback, mails, mailed, inbox, sends, heard, unheard>>

Sendable == "send" \in FormControls

\* handleSubmit
HandleSubmit ==
  /\ Sendable /\ sends < MaxSends
  /\ sends' = sends + 1
  /\ sending' = [pc |-> "sent", message |-> letter.message, trap |-> letter.trap]
  /\ letter' = [letter EXCEPT !.state = "loading"]
  /\ UNCHANGED <<feedback, mails, mailed, inbox, heard, unheard>>

\* Handler: the trap drops the message without a word; a message cut within a character
\* is no text to the database, whose error is the answer, as any other error is.
Handler ==
  /\ sending.pc = "sent"
  /\ IF sending.trap
       THEN /\ sending' = [sending EXCEPT !.pc = "done"]
            /\ UNCHANGED <<feedback, mails, heard>>
       ELSE \/ /\ sending.message \notin Torn
               /\ sending' = [sending EXCEPT !.pc = "done"]
               /\ feedback' = <<sending.message>> \o feedback
               /\ mails' = mails + 1
               /\ heard' = heard + 1
            \/ /\ sending' = [sending EXCEPT !.pc = "error"]
               /\ UNCHANGED <<feedback, mails, heard>>
  /\ UNCHANGED <<letter, mailed, inbox, sends, unheard>>

FeedbackAnswered ==
  /\ sending.pc \in {"done", "error"}
  /\ sending' = NotSending
  /\ letter' = [letter EXCEPT !.state = IF sending.pc = "done" THEN "success" ELSE "error"]
  /\ UNCHANGED <<feedback, mails, mailed, inbox, sends, heard, unheard>>

\* No answer: "please try again", whether or not the message is stored.
FeedbackFails ==
  /\ sending.pc # "idle"
  /\ unheard' = IF sending.pc = "done" THEN unheard + 1 ELSE unheard
  /\ sending' = NotSending
  /\ letter' = [letter EXCEPT !.state = "error"]
  /\ UNCHANGED <<feedback, mails, mailed, inbox, sends, heard>>

\* The page is left and opened again, which bounds the requests in flight: a request
\* whose page is gone runs to its end, and nobody waits for it.
LeaveFeedback ==
  /\ letter # BlankLetter /\ sending.pc = "idle"
  /\ letter' = BlankLetter
  /\ heard' = 0 /\ unheard' = 0
  /\ UNCHANGED <<sending, feedback, mails, mailed, inbox, sends>>

\* The goroutine: one attempt, and whatever goes wrong is only logged.
SendMail ==
  /\ mails > 0
  /\ mails' = mails - 1
  /\ mailed' \in {mailed, mailed + 1}
  /\ UNCHANGED <<letter, sending, feedback, inbox, sends, heard, unheard>>
-----------------------------------------------------------------------------
\* FeedbackInboxPage, for an administrator or somebody else, with or without an answer
FeedbackInboxPage(admin, ok) ==
  /\ inbox' = CASE ok /\ admin  -> [view |-> "list",
                                   items |-> SubSeq(feedback, 1, IF Len(feedback) < InboxLimit
                                                                 THEN Len(feedback) ELSE InboxLimit)]
                [] ok /\ ~admin -> [view |-> "forbidden", items |-> << >>]
                [] ~ok          -> [view |-> "error", items |-> << >>]
  /\ inbox' # inbox
  /\ UNCHANGED <<letter, sending, feedback, mails, mailed, sends, heard, unheard>>
-----------------------------------------------------------------------------
FeedbackNext ==
  \/ \E m \in Messages \cup {NoMessage} : Write(m)
  \/ FillTrap \/ HandleSubmit \/ Handler \/ FeedbackAnswered \/ FeedbackFails
  \/ LeaveFeedback \/ SendMail
  \/ \E admin, ok \in BOOLEAN : FeedbackInboxPage(admin, ok)

FeedbackSpec == FeedbackInit /\ [][FeedbackNext]_feedbackVars
-----------------------------------------------------------------------------
FeedbackTypeOK ==
  /\ letter \in [message : Messages \cup {NoMessage}, trap : BOOLEAN,
                 state : {"idle", "loading", "success", "error"}]
  /\ sending \in [pc : {"idle", "sent", "done", "error"}, message : Messages \cup {NoMessage},
                  trap : BOOLEAN]
  /\ feedback \in Seq(Messages \ Torn) /\ Len(feedback) <= sends
  /\ inbox.view \in {"closed", "list", "forbidden", "error"} /\ Len(inbox.items) <= InboxLimit
  /\ sends \in 0 .. MaxSends /\ {heard, unheard, mails, mailed} \subseteq Nat

\* "Thanks" is said for a message that is stored, unless the hidden field was filled; it
\* is stored once, and once more for every lost answer that was tried again; and there is
\* at most one mail for each row.
FeedbackHeardOnce ==
  /\ letter.state = "success" => heard > 0 \/ letter.trap
  /\ heard <= 1 + unheard
  /\ mails + mailed <= Len(feedback)
=============================================================================
