----------------------------- MODULE Invitation -----------------------------
(***************************************************************************)
(* The invitation card of a message                                        *)
(* (frontend/src/features/mail/components/ICSInvitationCard.tsx): the      *)
(* meeting it is about is looked up among the events the page has, the     *)
(* user answers it, adds it to a calendar, or accepts another time that a  *)
(* participant proposes.  The card shows the choice before the server has  *)
(* it.  Other clients change the meetings meanwhile.                       *)
(***************************************************************************)
EXTENDS Naturals, Functions

CONSTANTS Meetings,  \* meetings that look like the one of the message
          Times,     \* times of the day of the invitation, which is at 0
          MaxCalls,  \* actions of the user
          MaxOthers  \* changes by other clients

VARIABLES kind,      \* provider of the selected calendar
          method,    \* "REQUEST", or "COUNTER" and the time it proposes
          server,    \* the meetings of the calendar: start, version, own reply
          listed,    \* those the page has loaded
          action,    \* loadingAction: <<>>, or the call, its meeting and how far it is
          override,  \* rsvpOverride
          accepted,  \* acceptedCounter
          success,   \* actionSuccess
          agreed,    \* replies the server carried out
          there,     \* the meetings found at the proposed time since the page listed them
          made, others

card == <<action, override, accepted, success>>
facts == <<agreed, there>>
vars == <<kind, method, server, listed, card, facts, made, others>>

Replies == {"ACCEPTED", "DECLINED", "TENTATIVE"}
Proposed == [m \in Meetings |-> 1]
AtProposed(f) == {m \in DOMAIN f : f[m].start = Proposed[m]}

Init == /\ kind \in {"google", "nextcloud", "exchange"} /\ method \in {"REQUEST", "COUNTER"}
        /\ server \in [Meetings -> [start : Times, key : {0}, reply : {"NONE"}]]
        /\ \E loaded \in SUBSET Meetings : listed = Restrict(server, loaded)
        /\ action = <<>> /\ override = "NONE" /\ accepted = <<>> /\ success = "none"
        /\ agreed = {} /\ there = {} /\ made = 0 /\ others = 0
-----------------------------------------------------------------------------
\* matchEvent: an event at the time of the invitation, or else one of its day.
Matching(events) == LET exact == {m \in DOMAIN events : events[m].start = 0}
                    IN IF exact # {} THEN exact ELSE DOMAIN events

\* matchCounterProposal: the only one there is.
Counterpart(events) == {m \in DOMAIN events : DOMAIN events = {m}}

Busy == action # <<>>
Current == IF override # "NONE" THEN {override} ELSE {listed[m].reply : m \in Matching(listed)}
Begin(a) == /\ ~Busy /\ made < MaxCalls /\ made' = made + 1
            /\ action' = <<a>> /\ success' = "none" /\ there' = AtProposed(server) \cup AtProposed(listed)
            /\ UNCHANGED <<kind, method, server, listed, agreed, others>>

\* handleRsvp: the choice shows at once; a meeting that is not loaded is
\* looked for on the server and never created.
Rsvp(status) ==
  /\ method = "REQUEST" /\ status \notin Current
  /\ \/ \E m \in Matching(listed) : Begin([what |-> "rsvp", event |-> m, seen |-> listed[m], to |-> status, before |-> override, stage |-> "send"])
     \/ /\ DOMAIN listed = {}
        /\ Begin([what |-> "rsvp", to |-> status, before |-> override, stage |-> "find"])
  /\ override' = status /\ UNCHANGED accepted

\* handleAcceptCounter, of the meeting the page found.
AcceptCounter ==
  /\ method = "COUNTER" /\ accepted = <<>> /\ success = "none"
  /\ \E m \in Counterpart(listed) :
       /\ Begin([what |-> "counter", event |-> m, seen |-> listed[m], stage |-> "send"])
       /\ accepted' = <<m>>
  /\ UNCHANGED override

Step(stage) == action' = <<[action[1] EXCEPT !.stage = stage]>>
Shown == <<override, accepted, success>>

Find == /\ Busy /\ action[1].stage = "find" /\ listed' = server
        /\ \E m \in Matching(server) :
             action' = <<[what |-> "rsvp", event |-> m, seen |-> server[m], to |-> action[1].to,
                          before |-> action[1].before, stage |-> "send"]>>
        /\ UNCHANGED <<kind, method, server, Shown, facts, made, others>>

\* The provider carries the call out.  Exchange refuses to change another
\* version than the one the page has; an answer leaves versions alone.
Fresh(m) == server[m].key = action[1].seen.key
Respond == /\ Busy /\ action[1].what = "rsvp" /\ action[1].stage = "send"
           /\ LET m == action[1].event
              IN server' = [server EXCEPT ![m].reply = action[1].to]
           /\ agreed' = agreed \cup {action[1].to} /\ Step("done")
           /\ UNCHANGED <<kind, method, listed, Shown, there, made, others>>
Move == /\ Busy /\ action[1].what = "counter" /\ action[1].stage = "send"
        /\ LET m == action[1].event
           IN /\ kind = "exchange" => Fresh(m)
              /\ server' = [server EXCEPT ![m].start = Proposed[m], ![m].key = @ + 1]
        /\ there' = there \cup AtProposed(server') /\ Step("done")
        /\ UNCHANGED <<kind, method, listed, Shown, agreed, made, others>>

\* A refused version: the calendar is read again, and the proposal counts as
\* accepted when the meeting is where it should be.  When the calendar cannot
\* be read the page compares with what it had.
Conflict == /\ Busy /\ action[1].what = "counter" /\ action[1].stage = "send" /\ kind = "exchange"
            /\ ~Fresh(action[1].event) /\ Step("compare")
            /\ listed' \in {server, listed}
            /\ UNCHANGED <<kind, method, server, Shown, facts, made, others>>

\* A slip: the meeting is there, whenever it is.
StillThere(m) == m \in DOMAIN listed

SameTime(m) == m \in DOMAIN listed /\ listed[m].start = Proposed[m]
Compare == /\ Busy /\ action[1].stage = "compare"
           /\ IF SameTime(action[1].event)
              THEN Step("done") /\ UNCHANGED Shown
              ELSE action' = <<>> /\ accepted' = <<>> /\ UNCHANGED <<override, success>>
           /\ UNCHANGED <<kind, method, server, listed, facts, made, others>>

\* The end: the calendar is listed again, which may fail.
Succeed == /\ Busy /\ action[1].stage = "done"
           /\ success' = action[1].what /\ action' = <<>>
           /\ listed' \in {server, listed}
           /\ UNCHANGED <<kind, method, server, override, accepted, facts, made, others>>

\* The call fails, or its answer is lost, or there is no such meeting.
Fail == /\ Busy /\ action' = <<>>
        /\ override' = IF action[1].what = "rsvp" THEN action[1].before ELSE override
        /\ accepted' = IF action[1].what = "counter" THEN <<>> ELSE accepted
        /\ UNCHANGED <<kind, method, server, listed, success, facts, made, others>>

\* Another client moves a meeting; the page lists the calendar again.
OtherMoves(m, t) == /\ others < MaxOthers /\ others' = others + 1 /\ server[m].start # t
                    /\ server' = [server EXCEPT ![m].start = t, ![m].key = @ + 1]
                    /\ there' = there \cup AtProposed(server')
                    /\ UNCHANGED <<kind, method, listed, card, agreed, made>>
List == /\ listed # server /\ listed' = server
        /\ UNCHANGED <<kind, method, server, card, facts, made, others>>

Next == \/ \E status \in Replies : Rsvp(status)
        \/ AcceptCounter \/ Find \/ Respond \/ Move \/ Conflict \/ Compare \/ Succeed \/ Fail \/ List
        \/ \E m \in Meetings, t \in Times : OtherMoves(m, t)

Spec == Init /\ [][Next]_vars
-----------------------------------------------------------------------------
TypeOK == /\ DOMAIN listed \subseteq Meetings /\ override \in Replies \cup {"NONE"}
          /\ success \in {"none", "rsvp", "counter"} /\ (accepted # <<>> => accepted[1] \in Meetings)
          /\ made \in 0..MaxCalls /\ others \in 0..MaxOthers

\* The card tells the truth once a call has ended: a reply it shows was
\* carried out, and the meeting of a proposal it shows as accepted has been at
\* the proposed time since the page listed it, even when Exchange refused the
\* version and the page had to look again (ICSInvitationCard.tsx:795).
CardIsTrue == ~Busy => /\ override # "NONE" => override \in agreed
                       /\ accepted # <<>> => accepted[1] \in there
=============================================================================
