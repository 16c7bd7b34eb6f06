----------------------------- MODULE MCServices -----------------------------
(***************************************************************************)
(* The services beside the mail pages, one at a time.  The calendar: the   *)
(* page, a recurring event and a task of a CalDAV server, a series of      *)
(* Exchange, the copies on the device, the invitation card.  Those under   *)
(* both pages: the OAuth credentials, the snapshot of the query cache, the *)
(* opening of a notification, the continuous listener.  The first state    *)
(* chooses the part.  They share no state: the tasks have their own        *)
(* variables, and each other part uses as many of v1 to v17 as it has, in  *)
(* the order it declares them, and leaves the rest empty.                  *)
(***************************************************************************)
EXTENDS CalDavTasks

CONSTANTS Events, Recurring, New, MaxLists, Slots, Times,
          Items, Chunk, MaxWrites, Parallel, Cals, Kept, Passing, Batch, MaxRuns, MaxRestarts,
          Meetings, MaxCalls, SeriesCalls, MaxOthers,
          MaxLogins, MaxGen, MaxSteps,
          MaxSnapshots, MaxRemovals, MaxMounts, Conversations,
          Accounts, Push, MaxTurns, MaxStarts

VARIABLES part, v1, v2, v3, v4, v5, v6, v7, v8, v9, v10, v11, v12, v13,
          v14, v15, v16, v17

Edits == INSTANCE CalendarEdits WITH
  kind <- v1, server <- v2, list <- v3, cached <- v4, deleted <- v5, updated <- v6,
  temp <- v7, form <- v8, asking <- v9, calls <- v10, lists <- v11
Series == INSTANCE CalDavSeries WITH MaxCalls <- SeriesCalls,
  file <- v1, seen <- v2, changes <- v3, made <- v4
Exchange == INSTANCE ExchangeCalendar WITH
  item <- v1, master <- v2, seen <- v3, listing <- v4, edits <- v5, calls <- v6, writes <- v7
Mirror == INSTANCE CalendarMirror WITH
  source <- v1, cache <- v2, selected <- v3, loaded <- v4, errors <- v5, runs <- v6, last <- v7,
  again <- v8, queue <- v9, job <- v10, device <- v11, started <- v12, restarts <- v13
Card == INSTANCE Invitation WITH
  kind <- v1, method <- v2, server <- v3, listed <- v4, action <- v5, override <- v6,
  accepted <- v7, success <- v8, agreed <- v9, there <- v10, made <- v11, others <- v12
Oauth == INSTANCE Credentials WITH
  kind <- v1, server <- v2, account <- v3, screen <- v4, ref <- v5, asked <- v6, told <- v7,
  held <- v8, record <- v9, saved <- v10, known <- v11, import <- v12, push <- v13, pass <- v14,
  writes <- v15, mixed <- v16, steps <- v17
Snapshots == INSTANCE QuerySnapshots WITH
  phase <- v1, timer <- v2, saving <- v3, dirty <- v4, pending <- v5, queue <- v6,
  removals <- v7, store <- v8, asked <- v9, removed <- v10, mounts <- v11
Opening == INSTANCE NotificationOpening WITH
  native <- v1, away <- v2, asks <- v3, messages <- v4, active <- v5, cover <- v6, timers <- v7,
  opening <- v8, route <- v9, page <- v10, opened <- v11, turns <- v12
Listener == INSTANCE ContinuousListener WITH
  modes <- v1, running <- v2, asked <- v3, starts <- v4, reading <- v5, jobs <- v6, network <- v7,
  active <- v8, news <- v9, heard <- v10, unsynced <- v11, stranded <- v12,
  networks <- v13, turns <- v14

after13 == <<v14, v15, v16, v17>>
after12 == <<v13, after13>>
after11 == <<v12, after12>>
after7 == <<v8, v9, v10, v11, after11>>
after4 == <<v5, v6, v7, after7>>
all == <<v1, v2, v3, v4, after4>>

No13 == v14 = 0 /\ v15 = 0 /\ v16 = 0 /\ v17 = 0
No12 == v13 = 0 /\ No13
No11 == v12 = 0 /\ No12
No7 == v8 = 0 /\ v9 = 0 /\ v10 = 0 /\ v11 = 0 /\ No11
No4 == v5 = 0 /\ v6 = 0 /\ v7 = 0 /\ No7
NoTask == /\ task = [etag |-> 0, value |-> 0, done |-> FALSE] /\ saved = 0
          /\ shown = [c \in Clients |-> <<>>] /\ form = shown /\ saves = {}

Others == \/ part = "edits" /\ Edits!Init /\ No11
          \/ part = "series" /\ Series!Init /\ No4
          \/ part = "exchange" /\ Exchange!Init /\ No7
          \/ part = "mirror" /\ Mirror!Init /\ No13
          \/ part = "card" /\ Card!Init /\ No12
          \/ part = "oauth" /\ Oauth!Init
          \/ part = "snapshots" /\ Snapshots!Init /\ No11
          \/ part = "opening" /\ Opening!Init /\ No12
          \/ part = "listener" /\ Listener!Init /\ v15 = 0 /\ v16 = 0 /\ v17 = 0
MCInit == \/ Others /\ NoTask
          \/ part = "tasks" /\ Init /\ v1 = 0 /\ v2 = 0 /\ v3 = 0 /\ v4 = 0 /\ No4

EditsStep == part = "edits" /\ Edits!Next /\ UNCHANGED <<part, vars, after11>>
SeriesStep == part = "series" /\ Series!Next /\ UNCHANGED <<part, vars, after4>>
ExchangeStep == part = "exchange" /\ Exchange!Next /\ UNCHANGED <<part, vars, after7>>
MirrorStep == part = "mirror" /\ Mirror!Next /\ UNCHANGED <<part, vars, after13>>
CardStep == part = "card" /\ Card!Next /\ UNCHANGED <<part, vars, after12>>
OauthStep == part = "oauth" /\ Oauth!Next /\ UNCHANGED <<part, vars>>
SnapshotsStep == part = "snapshots" /\ Snapshots!Next /\ UNCHANGED <<part, vars, after11>>
OpeningStep == part = "opening" /\ Opening!Next /\ UNCHANGED <<part, vars, after12>>
ListenerStep == part = "listener" /\ Listener!Next /\ UNCHANGED <<part, vars, v15, v16, v17>>
TasksStep == part = "tasks" /\ Next /\ UNCHANGED <<part, all>>

MCNext == EditsStep \/ SeriesStep \/ TasksStep \/ ExchangeStep \/ MirrorStep \/ CardStep
          \/ OauthStep \/ SnapshotsStep \/ OpeningStep \/ ListenerStep

allVars == <<part, vars, all>>
MCSpec == MCInit /\ [][MCNext]_allVars
-----------------------------------------------------------------------------
\* An edit the server refused is not on the page once that was reported
\* (CalendarEdits).
FailedNotShown == part = "edits" => Edits!FailedNotShown

\* Changing one occurrence of a CalDAV series changes no other (CalDavSeries).
EditTouchesOne == part = "series" => Series!EditTouchesOne

\* An edit of Exchange overwrites nothing unseen (ExchangeCalendar).
NothingUnseenReplaced == part = "exchange" => Exchange!NothingUnseenReplaced

\* A copied event its source still has stays on the device (CalendarMirror).
KeptStays == [][part = "mirror" => Mirror!RetainsKept]_allVars

\* What the invitation card reports is true (Invitation).
CardIsTrue == part = "card" => Card!CardIsTrue

\* A rotated refresh token on the device is not replaced by an older one (Credentials).
RotationKept == [][part = "oauth" => Oauth!KeepsRotation]_allVars

\* A removed query cache is not stored again (QuerySnapshots).
RemovedStays == part = "snapshots" => Snapshots!RemovedStays

\* A notification opens its conversation once (NotificationOpening).
OpensOnce == [][part = "opening" => Opening!NotReopened]_allVars

\* The accounts listened to are the continuous ones (ContinuousListener).
ListensToContinuous == part = "listener" => Listener!ListensToContinuous
=============================================================================
