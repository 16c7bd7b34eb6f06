----------------------------- MODULE MailSending -----------------------------
(***************************************************************************)
(* What sending, scheduling and cancelling do on the mail servers           *)
(* (send_mail of mail.rs, jmap.rs and imap.rs, sendMail of the Gmail       *)
(* client).  A send is a series of requests; each may be refused, and its  *)
(* answer may be lost after the server acted.  A scheduled message is sent *)
(* by the server when its date comes.                                      *)
(***************************************************************************)
EXTENDS Integers, Sequences

CONSTANTS MaxSends,      \* bound: sends
          MaxAttachments \* bound: attachments of a message

VARIABLES sends,  \* every send so far: its requests to come, its answer, the server's side
          listed, \* the sends that the list of the Scheduled folder shows
          opened  \* those opened from it, whose submission is known (scheduledQuery)

Providers == {"ews", "jmap", "gmail", "imap"}
Locations == {"none", "drafts", "outbox", "sent", "scheduled"}

Init == sends = <<>> /\ listed = {} /\ opened = {}

SendFirst(p, atts, sched) == IF p = "ews" THEN <<"create">> \o [i \in 1..atts |-> "attach"] ELSE <<"submit">>
\* The requests a send makes, in order.
Requests(p, atts, sched) ==
  CASE p = "ews" /\ atts = 0 -> <<"create">>
    [] p = "ews" /\ atts > 0 -> <<"save">> \o [i \in 1..atts |-> "attach"] \o <<"get">>
                                \o (IF sched THEN <<>> ELSE <<"submit">>)
    [] p = "jmap"  -> <<"lookup", "import", "submit">> \o (IF sched THEN <<"verify">> ELSE <<>>)
    [] p = "gmail" -> <<"lookup", "submit">>
    [] p = "imap"  -> <<"submit">>
\* Only Exchange and Fastmail schedule; the date lies in the future.
Send(p, atts, sched) ==
  /\ Len(sends) < MaxSends
  /\ sched => p \in {"ews", "jmap"}
  /\ sends' = Append(sends, [by |-> p, atts |-> atts, sched |-> sched, todo |-> Requests(p, atts, sched),
                             answer |-> "none", lost |-> FALSE, item |-> "none", has |-> 0,
                             fate |-> "none", out |-> 0, told |-> FALSE])

\* The message goes out with the attachments it has.
GoesOut(s, where) == [s EXCEPT !.fate = "out", !.out = s.has, !.item = where]
Whole(s) == [s EXCEPT !.has = s.atts]

\* What a request does on the server.
Effect(s) ==
  CASE Head(s.todo) = "create" -> IF s.sched THEN [s EXCEPT !.item = "outbox"] ELSE GoesOut(s, "sent")
    [] Head(s.todo) = "save"   -> [s EXCEPT !.item = IF s.sched THEN "outbox" ELSE "drafts"]
    [] Head(s.todo) = "attach" -> [s EXCEPT !.has = @ + 1]
    [] Head(s.todo) = "import" -> [Whole(s) EXCEPT !.item = IF s.sched THEN "drafts" ELSE "sent"]
    [] Head(s.todo) = "submit" /\ s.by = "jmap" /\ s.sched -> [s EXCEPT !.fate = "held", !.item = "scheduled"]
    [] Head(s.todo) = "submit" /\ s.by = "gmail" -> GoesOut(Whole(s), "sent")
    [] Head(s.todo) = "submit" /\ s.by = "imap" -> GoesOut(Whole(s), "none")
    [] Head(s.todo) = "submit" /\ s.by = "ews" -> GoesOut(s, "sent")
    [] Head(s.todo) = "submit" /\ s.by = "jmap" /\ ~s.sched -> GoesOut(s, "sent")
    [] OTHER -> s

Running(s) == s.answer = "none"
\* Attachments are added to an item that is still there.
Possible(s) == ~(Head(s.todo) = "attach" /\ s.item = "sent" /\ s.sched)
Advanced(s) == [s EXCEPT !.todo = Tail(@), !.answer = IF Len(s.todo) = 1 THEN "ok" ELSE "none"]

Answered(n) == /\ Running(sends[n]) /\ Possible(sends[n])
               /\ sends' = [sends EXCEPT ![n] = Advanced(Effect(@))]

\* Gmail's lookup of the message replied to is not critical.
Refused(n) == /\ Running(sends[n])
              /\ sends' = [sends EXCEPT ![n] =
                   IF sends[n].by = "gmail" /\ Head(sends[n].todo) = "lookup" THEN Advanced(@)
                   ELSE [@ EXCEPT !.answer = "error"]]

Unanswered(n) == /\ Running(sends[n]) /\ Possible(sends[n])
                 /\ sends' = [sends EXCEPT ![n] = [Effect(@) EXCEPT !.answer = "error", !.lost = TRUE]]

\* Exchange sends what lies in the outbox with a date, Fastmail what it holds.
Dispatch(n) == /\ sends[n].item = "outbox" \/ sends[n].fate = "held"
               /\ sends' = [sends EXCEPT ![n] = GoesOut(@, "sent")]

\* The Scheduled folder lists the submissions whose date is to come, those taken
\* back too; the message opened from it asks for its submission.
ListScheduled == /\ listed' = {n \in 1..Len(sends) : sends[n].by = "jmap" /\ sends[n].fate \in {"held", "cancelled"}}
                 /\ UNCHANGED <<sends, opened>>
GetScheduledSend(n) == /\ n \in listed \ opened /\ opened' = opened \cup {n}
                       /\ UNCHANGED <<sends, listed>>

\* What is taken back is a draft again, and all mail queries ask anew.
TakenBack(n, told) ==
  /\ sends' = [sends EXCEPT ![n].fate = "cancelled", ![n].item = "drafts", ![n].told = told]
  /\ opened' = opened \ {n} /\ listed' = IF told THEN {} ELSE listed
CancelUnchecked(n) == n \in opened /\ sends' = [sends EXCEPT ![n].told = TRUE] /\ UNCHANGED <<listed, opened>>

\* jmap_cancel_scheduled_send: what is out by now, or taken back, is refused
\* (notUpdated), and nothing changes.
CancelScheduledSend(n) == /\ n \in opened /\ sends[n].fate = "held"
                          /\ \E told \in BOOLEAN : TakenBack(n, told)

Next == \/ \E p \in Providers, atts \in 0..MaxAttachments, sched \in BOOLEAN :
             Send(p, atts, sched) /\ UNCHANGED <<listed, opened>>
        \/ \E n \in 1..Len(sends) : /\ Answered(n) \/ Refused(n) \/ Unanswered(n) \/ Dispatch(n)
                                    /\ UNCHANGED <<listed, opened>>
        \/ ListScheduled
        \/ \E n \in 1..Len(sends) : GetScheduledSend(n) \/ CancelScheduledSend(n)

Spec == Init /\ [][Next]_<<sends, listed, opened>>
-----------------------------------------------------------------------------
\* Every send has its type.
TypeOK == \A n \in 1..Len(sends) :
            /\ sends[n].item \in Locations /\ sends[n].answer \in {"none", "ok", "error"}
            /\ sends[n].fate \in {"none", "held", "out", "cancelled"}
            /\ sends[n].has \in 0..sends[n].atts /\ sends[n].out \in 0..sends[n].atts
            /\ sends[n].answer = "none" => sends[n].todo # <<>>

\* What a send answers is true: accepted, the message is out, waits for its
\* date or was taken back; an immediate send that failed with no answer lost
\* sent nothing, so that sending it again does not send it twice, and one that
\* went out went out with all its attachments; a scheduled message reported
\* cancelled never goes out, also when the cancellation meets the server's send.
AnswerIsTrue ==
  \A n \in 1..Len(sends) : LET s == sends[n] IN
    /\ s.answer = "ok" => s.fate # "none" \/ s.item = "outbox"
    /\ s.answer = "error" /\ ~s.lost /\ ~s.sched => s.fate = "none"
    /\ s.fate = "out" /\ ~s.sched => s.out = s.atts
    /\ s.told => s.fate # "out"
=============================================================================
