------------------------- MODULE NotificationOpening -------------------------
(***************************************************************************)
(* Opening a conversation from its Android notification: the loader over   *)
(* the WebView and the target MainActivity retains, the three ways it      *)
(* reaches NativeDeepLinks, the preview with its timers, and the mail      *)
(* page, which selects the conversation and reports that its body shows.   *)
(* A target is a conversation and what to do with it; messages between the *)
(* WebView and the native side keep their order.                           *)
(***************************************************************************)
EXTENDS Naturals, Sequences

CONSTANTS Conversations, \* with a notification
          MaxTurns       \* bound: taps on a notification, and times the app is left,
                         \* locked, or another screen opened

VARIABLES native,   \* its loader, the target it retains, the one it was launched with, the vault
          away,     \* the app is in the background
          asks,     \* calls to the native side: what is asked, and releaseIfEmpty
          messages, \* events and answers on their way to the WebView
          active,   \* activeNotificationUrlRef
          cover,    \* openingNotification, whether its frames are requested, paintPending
          timers,   \* of the preview and of the enrichment: none, set, or cleared with the ref kept
          opening,  \* the enrichment is paused (notificationOpening)
          route,    \* the settings are shown; the effect of NativeDeepLinks is to run (again)
          page,     \* the target in the URL, the selected conversation, its body is to be reported
          opened,   \* history: targets opened since the app was left, and not tapped again
          turns     \* how many of both so far

vars == <<native, away, asks, messages, active, cover, timers, opening, route, page, opened, turns>>

None == [of |-> "none", act |-> "none"]
Target(c, act) == [of |-> c, act |-> act]
Targets == {Target(c, act) : c \in Conversations, act \in {"open", "delete"}}
Url == Targets \cup {None}

TypeOK == /\ native \in [loader : BOOLEAN, retained : Url, launch : Url, locked : BOOLEAN]
          /\ active \in Url /\ {away, opening} \subseteq BOOLEAN
          /\ cover \in [of : Url, frames : BOOLEAN, paint : BOOLEAN]
          /\ timers \in [safety : {"none", "set", "cut"}, enrich : {"none", "set", "cut"}]
          /\ page \in [target : Url, selected : Conversations \cup {"none"}, due : BOOLEAN]
          /\ asks \in Seq([what : {"consume", "launch"}, release : BOOLEAN])

NoCover(c) == [c EXCEPT !.of = None, !.frames = FALSE]
NoTimers == [safety |-> "none", enrich |-> "none"]
NoPage == [target |-> None, selected |-> "none", due |-> FALSE]
Consume(release) == [what |-> "consume", release |-> release]
Launch == [what |-> "launch", release |-> FALSE]
Message(what, url, release) == [what |-> what, url |-> url, release |-> release]

Init == /\ \E locked \in BOOLEAN, url \in {None, Target(CHOOSE c \in Conversations : TRUE, "open")} :
             /\ native = [loader |-> url # None /\ ~locked, retained |-> url, launch |-> url, locked |-> locked]
             /\ route = [settings |-> FALSE, effect |-> ~locked]
        /\ away = FALSE /\ asks = <<>> /\ messages = <<>> /\ active = None
        /\ cover = [of |-> None, frames |-> FALSE, paint |-> FALSE]
        /\ timers = NoTimers /\ opening = TRUE /\ page = NoPage
        /\ opened = {} /\ turns = 0
Turn == turns < MaxTurns /\ turns' = turns + 1
-----------------------------------------------------------------------------
\* onNewIntent: the loader covers the old screen, unless the vault is locked; the
\* target is retained, and sent (appUrlOpen), before the app is told it is active.
Tap(u) == /\ Turn
          /\ native' = [native EXCEPT !.loader = ~native.locked, !.retained = u]
          /\ messages' = messages \o <<Message("opened", u, FALSE)>>
                         \o (IF native.locked THEN <<>> ELSE <<Message("active", None, FALSE)>>)
          /\ away' = FALSE /\ opened' = opened \ {u}
          /\ UNCHANGED <<asks, active, cover, timers, opening, route, page>>

\* The app is left, and resumed from the launcher.
Leave == /\ ~away /\ Turn
         /\ away' = TRUE /\ active' = None /\ opened' = {}
         /\ UNCHANGED <<native, asks, messages, cover, timers, opening, route, page>>
Resume == /\ away
          /\ away' = FALSE
          /\ messages' = IF native.locked THEN messages ELSE Append(messages, Message("active", None, FALSE))
          /\ UNCHANGED <<native, asks, active, cover, timers, opening, route, page, opened, turns>>

\* The vault is locked, with no message under way: NativeDeepLinks and the page unmount.
Lock == /\ ~native.locked /\ messages = <<>> /\ asks = <<>> /\ Turn
        /\ native' = [native EXCEPT !.locked = TRUE, !.loader = FALSE]
        /\ active' = None /\ cover' = [NoCover(cover) EXCEPT !.paint = FALSE]
        /\ timers' = NoTimers /\ page' = NoPage /\ opened' = {}
        /\ route' = [settings |-> FALSE, effect |-> FALSE]
        /\ UNCHANGED <<away, asks, messages, opening>>
Unlock == /\ native.locked
          /\ native' = [native EXCEPT !.locked = FALSE]
          /\ route' = [route EXCEPT !.effect = TRUE]
          /\ UNCHANGED <<away, asks, messages, active, cover, timers, opening, page, opened, turns>>

\* A slip in Consumed: the target is retained after it was given.
Retains(n) == n

Consumed(n) == [n EXCEPT !.retained = None]

\* consumeNotificationUrl, getLaunchUrl.
Answer == /\ asks # <<>>
          /\ asks' = Tail(asks)
          /\ LET consumes == Head(asks).what = "consume"
                 url == IF consumes THEN native.retained ELSE native.launch
             IN  /\ native' = IF consumes THEN Consumed(native) ELSE native
                 /\ messages' = IF consumes \/ url # None
                                THEN Append(messages, Message(Head(asks).what, url, Head(asks).release))
                                ELSE messages
          /\ UNCHANGED <<away, active, cover, timers, opening, route, page, opened, turns>>
\* The loader's own timer.
LoaderTimeout == /\ native.loader
                 /\ native' = [native EXCEPT !.loader = FALSE]
                 /\ UNCHANGED <<away, asks, messages, active, cover, timers, opening, route, page, opened, turns>>
-----------------------------------------------------------------------------
\* The effect of NativeDeepLinks runs: its cleanup clears the timers; both URLs are asked for.
Effect == /\ route.effect
          /\ timers' = [t \in DOMAIN timers |-> IF timers[t] = "set" THEN "cut" ELSE timers[t]]
          /\ asks' = asks \o <<Consume(TRUE), Launch>>
          /\ route' = [route EXCEPT !.effect = FALSE]
          /\ UNCHANGED <<native, away, messages, active, cover, opening, page, opened, turns>>

\* openDeepLink of the target that is active: only the loader is removed, unless it awaits the paint.
Duplicate == native' = IF cover.paint THEN native ELSE [native EXCEPT !.loader = FALSE]

\* openDeepLink: the preview, its timer, then the target in the URL; a preview of the same
\* target stays as it is, its frames included.
TappedSince(u) == \E i \in 2..Len(messages) : messages[i].what = "opened" /\ messages[i].url = u
Accept(u) ==
  /\ active' = u
  /\ cover' = [of |-> u, frames |-> cover.of # u \/ cover.frames, paint |-> TRUE]
  /\ timers' = [safety |-> "set", enrich |-> "none"] /\ opening' = TRUE
  /\ route' = [settings |-> FALSE, effect |-> route.effect \/ route.settings]
  /\ page' = [page EXCEPT !.target = u, !.due = @ \/ (~opening /\ page.selected # "none")]
  /\ opened' = IF TappedSince(u) THEN opened ELSE opened \cup {u}
OpenDeepLink(u) ==
  IF active = u THEN Duplicate /\ UNCHANGED <<active, cover, timers, opening, route, page, opened>>
  ELSE Accept(u) /\ UNCHANGED native

\* No target is retained: the loader goes unless it awaits the paint, and the enrichment is released.
Nothing(release) ==
  /\ native' = IF cover.paint THEN native ELSE [native EXCEPT !.loader = FALSE]
  /\ opening' = (opening /\ ~release)
  /\ UNCHANGED <<active, cover, timers, route, page, opened>>

Handle == /\ messages # <<>> /\ ~native.locked /\ ~route.effect
          /\ messages' = Tail(messages)
          /\ LET m == Head(messages)
             IN  IF m.what = "active"
                 THEN /\ asks' = Append(asks, Consume(FALSE))
                      /\ UNCHANGED <<native, active, cover, timers, opening, route, page, opened>>
                 ELSE IF m.url = None THEN Nothing(m.release) /\ UNCHANGED asks
                 ELSE OpenDeepLink(m.url) /\ UNCHANGED asks
          /\ UNCHANGED <<away, turns>>

\* Two frames after the preview was committed.
Paint == /\ cover.frames
         /\ cover' = [cover EXCEPT !.frames = FALSE, !.paint = FALSE]
         /\ native' = [native EXCEPT !.loader = FALSE]
         /\ UNCHANGED <<away, asks, messages, active, timers, opening, route, page, opened, turns>>

SafetyTimeout == /\ timers.safety = "set"
                 /\ timers' = [timers EXCEPT !.safety = "cut"] \* the ref keeps the timer that has run
                 /\ cover' = NoCover(cover) /\ opening' = FALSE
                 /\ UNCHANGED <<native, away, asks, messages, active, route, page, opened, turns>>
EnrichmentTimeout == /\ timers.enrich = "set"
                     /\ timers' = [timers EXCEPT !.enrich = "none"] /\ opening' = FALSE
                     /\ UNCHANGED <<native, away, asks, messages, active, cover, route, page, opened, turns>>

\* The user acts once what a tap sends has arrived.
Arrived == messages = <<>> /\ asks = <<>> /\ ~native.loader

\* The button on the preview that deletes the conversation.
DeleteFromSkeleton ==
  /\ cover.of # None /\ cover.of.act = "open" /\ Arrived
  /\ LET u == Target(cover.of.of, "delete")
     IN  /\ active' = u
         /\ page' = [page EXCEPT !.target = u]
  /\ cover' = [NoCover(cover) EXCEPT !.paint = TRUE]
  /\ timers' = NoTimers /\ opening' = FALSE
  /\ UNCHANGED <<native, away, asks, messages, route, opened, turns>>
\* The preview's back button (closeNotification), and Android's, with a preview: the page deselects.
Close == /\ cover.of # None /\ Arrived
         /\ cover' = NoCover(cover) /\ opening' = FALSE
         /\ \E enrich \in {"none", timers.enrich} : timers' = [safety |-> "none", enrich |-> enrich]
         /\ page' = NoPage
         /\ UNCHANGED <<native, away, asks, messages, active, route, opened, turns>>
-----------------------------------------------------------------------------
\* The page selects the conversation of its URL; a delete leaves it again.
Select == /\ page.target # None /\ ~route.settings /\ ~native.locked
          /\ page' = IF page.target.act = "delete" THEN NoPage
                     ELSE [target |-> None, selected |-> page.target.of,
                           due |-> page.due \/ page.selected # page.target.of]
          /\ UNCHANGED <<native, away, asks, messages, active, cover, timers, opening, route, opened, turns>>

IsActive(c) == active # None /\ active.of = c

\* The body of the selected conversation shows: its preview goes, the enrichment waits a little.
BodyReady == /\ page.due /\ page.selected # "none"
             /\ page' = [page EXCEPT !.due = FALSE]
             /\ IF IsActive(page.selected)
                THEN cover' = NoCover(cover) /\ timers' = [safety |-> "none", enrich |-> "set"]
                ELSE UNCHANGED <<cover, timers>>
             /\ UNCHANGED <<native, away, asks, messages, active, opening, route, opened, turns>>
\* The conversation cannot be loaded.
Unavailable == /\ page.due /\ page.selected # "none"
               /\ IF IsActive(page.selected) /\ timers.safety # "none"
                  THEN cover' = NoCover(cover) /\ timers' = NoTimers /\ opening' = FALSE /\ page' = NoPage
                  ELSE page' = [page EXCEPT !.due = FALSE] /\ UNCHANGED <<cover, timers, opening>>
               /\ UNCHANGED <<native, away, asks, messages, active, route, opened, turns>>

\* The user selects a conversation, opens the settings or comes back from them.
SelectOther(c) == /\ cover.of = None /\ Arrived /\ ~native.locked /\ ~route.settings /\ page.selected # c
                  /\ page' = [page EXCEPT !.selected = c, !.due = TRUE]
                  /\ UNCHANGED <<native, away, asks, messages, active, cover, timers, opening, route, opened, turns>>
Settings == /\ cover.of = None /\ Arrived /\ ~native.locked /\ Turn
            /\ route' = [settings |-> ~route.settings, effect |-> TRUE]
            /\ page' = NoPage
            /\ UNCHANGED <<native, away, asks, messages, active, cover, timers, opening, opened>>

Next == \/ Leave \/ Resume \/ Lock \/ Unlock \/ Answer \/ LoaderTimeout \/ Effect \/ Handle \/ Paint
        \/ SafetyTimeout \/ EnrichmentTimeout \/ DeleteFromSkeleton \/ Close
        \/ Select \/ BodyReady \/ Unavailable \/ Settings
        \/ \E c \in Conversations : Tap(Target(c, "open")) \/ SelectOther(c)

Spec == Init /\ [][Next]_vars
-----------------------------------------------------------------------------
\* In an app that no notification launched, a target is opened once until it is
\* tapped again or the app is left, however it reaches NativeDeepLinks.
NotReopened == native.launch = None => \A u \in opened : active' = u => active = u
OpensOnce == [][NotReopened]_vars
=============================================================================
