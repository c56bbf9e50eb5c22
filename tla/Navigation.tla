------------------------------ MODULE Navigation ------------------------------
(***************************************************************************)
(* POST /api/browser/navigate: the handler drives one tab of Chromium over *)
(* its debugging WebSocket.  Each command is sent when the one before has  *)
(* been answered; the tab, which is external, mixes events of its own into *)
(* what it sends, may refuse a command, and may take its time.             *)
(***************************************************************************)
EXTENDS Naturals, Sequences

CONSTANT MaxEvents  \* bound on events of the tab that wait in the connection

VARIABLES
  command,  \* the command it sends or awaits, 0 when no request is handled
  awaited,  \* it has been sent
  handled,  \* commands the tab has dealt with
  done,     \* those it has carried out
  mail,     \* messages on the way to the handler
  verdict   \* "none", "ok" or "error": the answer to the request

navVars == <<command, awaited, handled, done, mail, verdict>>

Commands == 1..4   \* screen metrics, touch, user agent, Page.navigate
Event == 0         \* a message without an id

NavInit ==
  /\ command = 0 /\ awaited = FALSE /\ verdict = "none"
  /\ handled = 0 /\ done = {} /\ mail = <<>>

\* No request is left, and nobody looks at the answer to the last one.
NavOver ==
  /\ command' = 0 /\ awaited' = FALSE /\ verdict' = "none"
  /\ handled' = 0 /\ done' = {} /\ mail' = <<>>

\* Chromium is up, has a page, and the WebSocket is open.
Navigate ==
  /\ command = 0 /\ command' = 1 /\ awaited' = FALSE /\ verdict' = "none"
  /\ handled' = 0 /\ done' = {} /\ mail' = <<>>

SendCommand ==
  /\ command # 0 /\ ~awaited /\ awaited' = TRUE
  /\ UNCHANGED <<command, handled, done, mail, verdict>>

Sent == IF command = 0 \/ awaited THEN command ELSE command - 1

TabObeys ==
  /\ handled < Sent /\ handled' = handled + 1 /\ done' = done \cup {handled'}
  /\ mail' = Append(mail, [id |-> handled', error |-> FALSE])
  /\ UNCHANGED <<command, awaited, verdict>>

TabRefuses ==
  /\ handled < Sent /\ handled' = handled + 1
  /\ mail' = Append(mail, [id |-> handled', error |-> TRUE])
  /\ UNCHANGED <<command, awaited, done, verdict>>

TabReports ==
  /\ command # 0 /\ Len(mail) < MaxEvents
  /\ mail' = Append(mail, [id |-> Event, error |-> FALSE])
  /\ UNCHANGED <<command, awaited, handled, done, verdict>>

\* Fault: the next message is taken for the answer.
Answers_Any(message) == TRUE
IsAnswer(message) == message.id = command

Ends(v) == command' = 0 /\ awaited' = FALSE /\ verdict' = v   \* ws.Close

Receive ==
  /\ awaited /\ mail # <<>> /\ mail' = Tail(mail)
  /\ \/ ~IsAnswer(Head(mail)) /\ UNCHANGED <<command, awaited, verdict>>
     \/ /\ IsAnswer(Head(mail)) /\ Head(mail).error
        /\ Ends("error")
     \/ /\ IsAnswer(Head(mail)) /\ ~Head(mail).error /\ command < 4
        /\ command' = command + 1 /\ awaited' = FALSE /\ UNCHANGED verdict
     \/ /\ IsAnswer(Head(mail)) /\ ~Head(mail).error /\ command = 4
        /\ Ends("ok")
  /\ UNCHANGED <<handled, done>>

\* Send or Receive fails, or the ten seconds of the connection are over.
NavigationFails ==
  /\ command # 0 /\ Ends("error") /\ UNCHANGED <<handled, done, mail>>

\* The handler says ok exactly when the tab was told to load the page, and it
\* loads it as a phone: with the metrics, the touch screen and the user agent
\* already set.  A tab that runs behind must not be mistaken for one that obeys.
NavigatesAsPhone ==
  /\ 4 \in done => done = Commands
  /\ verdict = "ok" => 4 \in done
=============================================================================
