------------------------------- MODULE Reader -------------------------------
(***************************************************************************)
(* The programs that read a mailbox: tabc read, open, pull, ack and tac    *)
(* show (src/tabus/cli.py) and the pull, open and ack tools of the MCP     *)
(* server (src/tabus/mcp_server.py), each a client that makes one request  *)
(* after another and prints bodies in between.                             *)
(*                                                                         *)
(* Session r talks to the request thread r of Mailbox: a step that sends a *)
(* request is also the first step of the thread, and a step that receives  *)
(* the answer is also its Reply.  A request that the server refuses        *)
(* changes no delivery and is a step of the session alone.  Either side    *)
(* may be gone before the other knows: the thread dies and call() raises,  *)
(* or the client is stopped and the thread works on for nobody.            *)
(***************************************************************************)
EXTENDS Mailbox

VARIABLES
  doing,   \* the command a session runs, "none" between commands
  turn,    \* where it is in it
  todo,    \* the messages it has still to go through, as listed or as pulled
  held,    \* the message in hand
  said,    \* what the closing line of a read says of what is left
  shown    \* the messages whose bodies were printed by some session

sessions == <<doing, turn, todo, held, said>>
allvars  == <<vars, sessions, shown>>

Pulls    == {"pull", "titles", "tool pull"}
Opens    == {"open", "tool open"}
Commands == {"none", "read", "ack", "show"} \cup Pulls \cup Opens
Turns    == {"off", "next", "opening", "inject", "injecting", "mark", "marking", "waiting"}
Lines    == {"none", "clear", "more", "unknown"}

ReaderTypeOK ==
  /\ TypeOK
  /\ doing \in [Requests -> Commands]
  /\ turn  \in [Requests -> Turns]
  /\ todo  \in [Requests -> SUBSET Messages]
  /\ held  \in [Requests -> SUBSET Messages]
  /\ said  \in [Requests -> Lines]
  /\ shown \in SUBSET Messages

ReaderInit ==
  /\ Init
  /\ doing = [r \in Requests |-> "none"]
  /\ turn  = [r \in Requests |-> "off"]
  /\ todo  = [r \in Requests |-> {}]
  /\ held  = [r \in Requests |-> {}]
  /\ said  = [r \in Requests |-> "none"]
  /\ shown = {}

-----------------------------------------------------------------------------
(* What the steps are made of.                                             *)

Free(r) == doing[r] = "none" /\ at[r] = "idle"

\* list_unread_titles: the three unread states, in the order of the mailbox.
Unread == {m \in Messages : state[m] \in UNREAD_STATES}

IsFirst(m, set) == m \in set /\ \A x \in set : m <= x

Begin(r, command, where, list, hand) ==
  /\ doing' = [doing EXCEPT ![r] = command]
  /\ turn'  = [turn EXCEPT ![r] = where]
  /\ todo'  = [todo EXCEPT ![r] = list]
  /\ held'  = [held EXCEPT ![r] = hand]
  /\ said'  = [said EXCEPT ![r] = "none"]

Go(r, where) == Begin(r, doing[r], where, todo[r], held[r])

EndSaying(r, line) ==
  /\ doing' = [doing EXCEPT ![r] = "none"]
  /\ turn'  = [turn EXCEPT ![r] = "off"]
  /\ todo'  = [todo EXCEPT ![r] = {}]
  /\ held'  = [held EXCEPT ![r] = {}]
  /\ said'  = [said EXCEPT ![r] = line]

End(r) == EndSaying(r, "none")

\* After the INJECTED of the message in hand, whatever came of it: read marks
\* it READ, pull goes on to the next body, open is done.
AfterInject(r) ==
  \/ doing[r] = "read" /\ Go(r, "mark")
  \/ doing[r] = "pull" /\ Go(r, "next")
  \/ doing[r] \in Opens /\ End(r)

-----------------------------------------------------------------------------
(* tabc read: list the unread, then open, print, INJECTED and READ one by  *)
(* one, then ask again how many are left.                                  *)

ReadLists(r) ==
  /\ Free(r)
  /\ Unread # {}
  /\ Begin(r, "read", "next", Page(Unread), {})
  /\ UNCHANGED <<vars, shown>>

\* A message that is no longer unread is answered 404 and left alone.
ReadOpens(r, m) ==
  /\ doing[r] = "read" /\ turn[r] = "next"
  /\ IsFirst(m, todo[r])
  /\ \/ /\ ReopenSelect(r, m)
        /\ Begin(r, "read", "opening", todo[r] \ {m}, {})
     \/ /\ state[m] \notin UNREAD_STATES /\ at[r] = "idle"
        /\ Begin(r, "read", "next", todo[r] \ {m}, {})
        /\ UNCHANGED vars
  /\ UNCHANGED shown

ListedBug(r) == todo[r]

\* The closing query of read: never the snapshot it started from.
Remaining(r) == Unread

\* It prints how many are left, or that it could not ask, and ends.
ReadReports(r) ==
  /\ doing[r] = "read" /\ turn[r] = "next" /\ todo[r] = {}
  /\ at[r] = "idle"
  /\ \/ EndSaying(r, IF Remaining(r) = {} THEN "clear" ELSE "more")
     \/ EndSaying(r, "unknown")
  /\ UNCHANGED <<vars, shown>>

-----------------------------------------------------------------------------
(* tabc open and the open tool: one message.                               *)

Opened(r, m) ==
  /\ Free(r)
  /\ ReopenSelect(r, m)
  /\ \E command \in Opens : Begin(r, command, "opening", {}, {})
  /\ UNCHANGED shown

\* The claim was lost to another request: 404 "no such delivery".
NotOpened(r) ==
  /\ turn[r] = "opening" /\ at[r] = "reply" /\ bodies[r] = {}
  /\ Reply(r)
  /\ IF doing[r] = "read" THEN Go(r, "next") ELSE End(r)
  /\ UNCHANGED shown

BeforePrintBug(r, set) == shown

\* The bodies that are on the screen once a response with set has arrived.
Printed(r, set) == shown \cup set

MarkUnopenedBug(r) == FALSE

\* The answer says CLAIMED when the delivery was ACCEPTED or CLAIMED.
NeedsInject(r) == saw[r] # "INJECTED"

\* read goes by the state the answer carries, open records the arrival in any
\* case, and the tool leaves what was INJECTED already.  The id that is then
\* acknowledged is the one in the answer.
BodyArrives(r) ==
  /\ turn[r] = "opening" /\ at[r] = "reply" /\ bodies[r] # {}
  /\ shown' = Printed(r, bodies[r])
  /\ Reply(r)
  /\ \/ /\ NeedsInject(r) \/ doing[r] = "open"
        /\ Begin(r, doing[r], "inject", todo[r], bodies[r])
     \/ /\ ~NeedsInject(r) /\ doing[r] = "read"
        /\ Begin(r, "read", "mark", todo[r], bodies[r])
     \/ ~NeedsInject(r) /\ doing[r] = "tool open" /\ End(r)

-----------------------------------------------------------------------------
(* tabc pull with bodies, with titles only, and the pull tool.             *)

PullBegins(r) ==
  /\ Free(r)
  /\ StartPull(r)
  /\ \E command \in Pulls : Begin(r, command, "waiting", {}, {})
  /\ UNCHANGED shown

PullArrives(r) ==
  /\ turn[r] = "waiting" /\ doing[r] \in Pulls /\ at[r] = "reply"
  /\ Reply(r)
  /\ IF doing[r] = "pull" THEN Begin(r, "pull", "next", bodies[r], {}) ELSE End(r)
  /\ shown' = IF doing[r] = "tool pull" THEN Printed(r, bodies[r]) ELSE shown

PullPrints(r, m) ==
  /\ doing[r] = "pull" /\ turn[r] = "next"
  /\ IsFirst(m, todo[r])
  /\ shown' = Printed(r, {m})
  /\ Begin(r, "pull", "inject", todo[r] \ {m}, {m})
  /\ UNCHANGED vars

PullEnds(r) ==
  /\ doing[r] = "pull" /\ turn[r] = "next" /\ todo[r] = {}
  /\ End(r)
  /\ UNCHANGED <<vars, shown>>

-----------------------------------------------------------------------------
(* The acknowledgements a command sends by itself.                         *)

Inject(r, m) ==
  /\ turn[r] = "inject" /\ at[r] = "idle" /\ m \in held[r]
  /\ \/ AckRead(r, m, "INJECTED") /\ Go(r, "injecting")
     \/ /\ state[m] \notin ALLOWED_DELIVERY_TRANSITIONS["INJECTED"]
        /\ AfterInject(r)
        /\ UNCHANGED vars
  /\ UNCHANGED shown

Injected(r) ==
  /\ turn[r] = "injecting" /\ at[r] = "reply"
  /\ Reply(r)
  /\ AfterInject(r)
  /\ UNCHANGED shown

BlanketBug(r) == Unread

\* The messages read may mark now: the one it has just printed.
Markable(r) == held[r]

\* A mark that is refused is reported, and the message will appear again.
Mark(r, m) ==
  /\ turn[r] = "mark" /\ at[r] = "idle" /\ m \in Markable(r)
  /\ \/ AckRead(r, m, "READ") /\ Go(r, "marking")
     \/ /\ state[m] \notin ALLOWED_DELIVERY_TRANSITIONS["READ"]
        /\ Go(r, "next")
        /\ UNCHANGED vars
  /\ UNCHANGED shown

Marked(r) ==
  /\ turn[r] = "marking" /\ at[r] = "reply"
  /\ Reply(r)
  /\ Go(r, "next")
  /\ UNCHANGED shown

-----------------------------------------------------------------------------
(* tabc ack, the ack tool and tac show --node.  A reader acknowledges by   *)
(* hand only what it was shown.                                            *)

AckByHand(r, m, s) ==
  /\ Free(r)
  /\ m \in shown
  /\ AckRead(r, m, s)
  /\ Begin(r, "ack", "waiting", {}, {})
  /\ UNCHANGED shown

ShowTac(r, set) ==
  /\ Free(r)
  /\ CatchUpSelect(r, set)
  /\ Begin(r, "show", "waiting", {}, set)
  /\ UNCHANGED shown

AnswerArrives(r) ==
  /\ turn[r] = "waiting" /\ doing[r] \in {"ack", "show"} /\ at[r] = "reply"
  /\ Reply(r)
  /\ shown' = shown \cup held[r]
  /\ End(r)

-----------------------------------------------------------------------------
(* The server at work, and the ends nobody asked for.                      *)

Serves(r) ==
  /\ \/ PullCheck(r) \/ PullRecover(r) \/ PullSelect(r) \/ PullClaim(r)
     \/ ReopenUnfit(r) \/ ReopenClaims(r) \/ ReopenAsIs(r)
     \/ AckWrite(r) \/ CatchUpMark(r)
  /\ UNCHANGED <<sessions, shown>>

\* No answer: urlopen raises, call() lets it out and the command is over.  The
\* tools report UNKNOWN and are over too.
HandlerFails(r) ==
  /\ Die(r)
  /\ End(r)
  /\ UNCHANGED shown

\* The client is stopped, or gives up waiting; its request is worked on.
ClientGone(r) ==
  /\ doing[r] # "none"
  /\ End(r)
  /\ UNCHANGED <<vars, shown>>

AnswerToNobody(r) ==
  /\ doing[r] = "none"
  /\ Reply(r)
  /\ UNCHANGED <<sessions, shown>>

Read(r) == \/ ReadLists(r) \/ ReadReports(r)
           \/ \E m \in Messages : ReadOpens(r, m)

Open(r) == NotOpened(r) \/ BodyArrives(r) \/ \E m \in Messages : Opened(r, m)

PullCommand(r) == \/ PullBegins(r) \/ PullArrives(r) \/ PullEnds(r)
                  \/ \E m \in Messages : PullPrints(r, m)

Acknowledge(r) == \/ Injected(r) \/ Marked(r)
                  \/ \E m \in Messages : Inject(r, m) \/ Mark(r, m)

ByHand(r) == \/ AnswerArrives(r)
             \/ \E m \in Messages, s \in AckStates : AckByHand(r, m, s)
             \/ \E set \in SUBSET TacMail : ShowTac(r, set)

Works(r) == \/ Read(r) \/ Open(r) \/ PullCommand(r) \/ Acknowledge(r) \/ ByHand(r)
            \/ Serves(r) \/ AnswerToNobody(r)

Session(r) == Works(r) \/ HandlerFails(r)

Around == Environment /\ UNCHANGED <<sessions, shown>>

ReaderNext == Around \/ \E r \in Requests : Session(r) \/ ClientGone(r)

ReaderSpec == ReaderInit /\ [][ReaderNext]_allvars

\* As in CalmSpec: no other request works between the read and the write of an
\* ack on the same row.
CalmReaderSpec == ReaderInit /\ [][ReaderNext /\ AcksUndisturbed]_allvars

-----------------------------------------------------------------------------
(* Properties.                                                             *)

\* "The read mark can never run ahead of the reading" (fn_read) and "record
\* INJECTED after the body actually printed" (fn_pull): whatever sessions do,
\* and wherever they are cut off, mail that is READ or PROCESSED was printed,
\* and so was what is INJECTED unless a tac catch-up injected it.
SeenBeforeMarked ==
  \A m \in Messages :
    /\ state[m] \in {"READ", "PROCESSED"} => m \in shown
    /\ state[m] = "INJECTED" => m \in shown \cup TacMail

SetAside(m) == state[m] \in {"QUARANTINED", "DEAD"}

\* "The closing count is a fresh query, never an assumption of zero": when read
\* ends with "0 still unread", everything stored by then was printed or set
\* aside, what arrived during the run and what did not fit its list included.
ClearMeansSeen ==
  [][\A r \in Requests : said'[r] = "clear" /\ said[r] # "clear" =>
       \A m \in Messages : state[m] # "NONE" => m \in shown \/ SetAside(m)]_allvars

\* What a message is to its reader.
MailOf(m) ==
  IF state[m] = "NONE" THEN "none"
  ELSE IF state[m] \in {"READ", "PROCESSED"} THEN "read"
  ELSE IF SetAside(m) THEN "lost"
  ELSE IF m \in shown THEN "seen" ELSE "unseen"

Inbox == INSTANCE ReaderContract WITH mail <- [m \in Messages |-> MailOf(m)]

\* The sessions and the mailbox together keep the contract of the reader, when
\* acks are not overtaken.
KeepsInbox == Inbox!Spec

-----------------------------------------------------------------------------
(* Progress.  The user runs read again and again, whatever else is run in  *)
(* between; a request and a command end (timeouts and the hold time see to *)
(* that); and at some time no answer is lost any more and no process is    *)
(* stopped.  An exception the handler raises is no bad luck of this kind,  *)
(* nor is a step that is also one of the work.                             *)

GivesUp(r) == at[r] # "reply" /\ Serves(r) /\ at'[r] = "reply"

Unlucky(r) == /\ ~Works(r)
              /\ ClientGone(r) \/ (at[r] # "raised" /\ HandlerFails(r))

ReaderFairness ==
  /\ \A r \in Requests :
       /\ SF_allvars(ReadLists(r))
       /\ SF_allvars(GivesUp(r))
       /\ WF_allvars(Session(r) /\ ~Free(r))
  /\ <>[][\A r \in Requests : ~Unlucky(r)]_allvars

FairReaderSpec == CalmReaderSpec /\ ReaderFairness

\* An unread message at or before m that was claimed or injected and has become
\* unfit since: every read ends at it with an exception.
Blocked(m) ==
  \E x \in unfit : x <= m /\ state[x] \in {"CLAIMED", "INJECTED"}

\* "Run read again to see them" (fn_read): whoever runs read again and again is
\* shown every message that is not set aside, unless such a message stays in
\* front of it for ever.
EverythingShown ==
  \A m \in Messages :
    \/ state[m] \in UNREAD_STATES ~> m \in shown \/ SetAside(m)
    \/ <>[]Blocked(m)
=============================================================================
