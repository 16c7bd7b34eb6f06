------------------------- MODULE ContinuousListener -------------------------
(***************************************************************************)
(* The Android service that listens to the accounts in continuous mode     *)
(* (ContinuousSyncService.kt) and who starts it: the settings, a reboot,   *)
(* the application.  Every start, and every network that comes up,         *)
(* launches a coroutine that reads the modes and then starts and cancels   *)
(* the listeners; the settings, the network callbacks and the listeners    *)
(* run between its two steps.                                              *)
(*                                                                         *)
(* A listener makes a pass, then waits for events of its server, each of   *)
(* which asks for another.  What a pass does is in AndroidSync; the hourly *)
(* work that every continuous account also has is left out.                *)
(***************************************************************************)
EXTENDS Naturals, Sequences, FiniteSets

CONSTANTS Accounts,
          Push,         \* those of JMAP: an event source; the others wait for one event at a time
          MaxTurns,     \* bound: changes of a mode, events of the servers, networks that come up
                        \* and ends of the process, together
          MaxStarts     \* bound: starts and coroutines under way

VARIABLES modes,    \* SyncVault: the mode of each account, "none" without it
          running,  \* the service exists
          asked,    \* a call of the plugin has written a mode and not yet reconciled
          starts,   \* starts Android has not delivered yet
          reading,  \* the coroutines of reconcileAccounts
          jobs,     \* the supervise coroutine of each account
          network,  \* the default network, 0 without one
          active,   \* activeNetwork, 0 for null
          news,     \* network callbacks to come, in order
          heard,    \* the pass an event asked for: none, in its debounce, or running
          unsynced, \* history: an event was heard and no pass has ended since
          stranded, \* history: not started since the boot, ended by itself, or cut by old modes
          networks, \* networks so far: they are numbered
          turns     \* for the bound

vars == <<modes, running, asked, starts, reading, jobs, network, active, news, heard, unsynced,
          stranded, networks, turns>>
counts == <<networks, turns>>
Turn == turns < MaxTurns /\ turns' = turns + 1
mail == <<heard, unsynced>>
service == <<running, reading, jobs, active, news, heard>>

Modes == {"none", "periodic", "continuous"}
Phases == {"none", "starting", "leaving", "sync", "listen", "wait"}
Continuous == {a \in Accounts : modes[a] = "continuous"}
NoJobs == [a \in Accounts |-> "none"]
NoPasses == [a \in Accounts |-> "none"]
Available(n) == [up |-> TRUE, net |-> n]
Lost(n) == [up |-> FALSE, net |-> n]

TypeOK == /\ modes \in [Accounts -> Modes] /\ running \in BOOLEAN /\ starts \in 0..MaxStarts
          /\ \A r \in reading : r.read \in BOOLEAN /\ r.continuous \subseteq Accounts
          /\ jobs \in [Accounts -> Phases] /\ {network, active} \subseteq 0..MaxTurns + 1
          /\ \A i \in 1..Len(news) : news[i].up \in BOOLEAN /\ news[i].net \in 1..MaxTurns + 1
          /\ stranded \subseteq Accounts /\ unsynced \subseteq Accounts
          /\ heard \in [Accounts -> {"none", "debounce", "pass"}]
          /\ asked \in BOOLEAN
          /\ ~running => jobs = NoJobs /\ reading = {} /\ active = 0 /\ news = <<>>

\* The phone has just started: nothing runs.
Init == /\ modes \in [Accounts -> Modes]
        /\ running = FALSE /\ asked = FALSE /\ starts = 0 /\ reading = {} /\ jobs = NoJobs
        /\ network \in 0..1 /\ active = 0 /\ news = <<>>
        /\ heard = NoPasses /\ unsynced = {}
        /\ stranded = Continuous /\ networks = 1 /\ turns = 0
-----------------------------------------------------------------------------
\* One more coroutine of reconcileAccounts.
Numbers == {n \in 1..MaxStarts : \A r \in reading : r.n # n}
Launched == {[n |-> CHOOSE n \in Numbers : TRUE, read |-> FALSE, continuous |-> {}]}

\* onDestroy: the scope is cancelled and the callback unregistered.
Destroyed == /\ running' = FALSE /\ starts' = 0 /\ reading' = {} /\ jobs' = NoJobs
             /\ active' = 0 /\ news' = <<>> /\ heard' = NoPasses

\* ContinuousSyncService.reconcile, with the modes as they are now.
Reconcile(ms) ==
  LET continuous == {a \in Accounts : ms[a] = "continuous"}
  IN  \/ /\ continuous # {} /\ starts < MaxStarts
         /\ starts' = starts + 1
         /\ UNCHANGED service
      \/ continuous = {} /\ Destroyed

\* configureSync and disableSync, one call at a time: the record is written, then ...
ConfigureSync(a, mode) ==
  /\ Turn /\ modes[a] # mode /\ ~asked
  /\ modes' = [modes EXCEPT ![a] = mode]
  /\ asked' = TRUE
  /\ stranded' = stranded \ {a}
  /\ UNCHANGED <<starts, service, network, unsynced, networks>>
\* ... the service is started or stopped.
Configured == /\ asked
              /\ asked' = FALSE
              /\ Reconcile(modes)
              /\ UNCHANGED <<modes, network, unsynced, stranded, counts>>

\* The receiver of the boot, and the application when it opens.
Restore == /\ ~running /\ starts = 0 /\ Continuous # {}
           /\ Reconcile(modes)
           /\ UNCHANGED <<modes, asked, network, unsynced, stranded, counts>>

\* onCreate for the first start, then onStartCommand.
OnStartCommand ==
  /\ starts > 0 /\ Numbers # {}
  /\ starts' = starts - 1
  /\ running' = TRUE
  /\ reading' = reading \cup Launched
  /\ news' = IF ~running /\ network # 0 THEN <<Available(network)>> ELSE news
  /\ UNCHANGED <<modes, asked, jobs, network, active, mail, stranded, counts>>

\* The process dies; Android starts a sticky service again.
Kill == /\ running /\ Turn
        /\ running' = FALSE /\ starts' = 1 /\ reading' = {} /\ jobs' = NoJobs
        /\ active' = 0 /\ news' = <<>> /\ heard' = NoPasses
        /\ UNCHANGED <<modes, asked, network, unsynced, stranded, networks>>
-----------------------------------------------------------------------------
\* reconcileAccounts reads the modes.
ReadModes(r) == /\ ~r.read
                /\ reading' = (reading \ {r}) \cup {[r EXCEPT !.read = TRUE, !.continuous = Continuous]}
                /\ UNCHANGED <<modes, asked, running, starts, jobs, network, active, news, mail, stranded, counts>>

\* None is continuous: stopSelf, which also drops the starts not yet delivered.
StopSelf(r) == /\ r.read /\ r.continuous = {}
               /\ Destroyed
               /\ UNCHANGED <<modes, asked, network, unsynced, stranded, counts>>

\* A listener that is cancelled takes the pass of its last event with it.
Cancelled(as) == heard' = [a \in Accounts |-> IF a \in as /\ jobs[a] = "listen" THEN "none" ELSE heard[a]]

\* Listeners of other accounts are cancelled, missing ones launched; nothing orders the
\* coroutines by what they read.
IsActive(a) == jobs[a] # "none"
Supervise(r) ==
  /\ r.read /\ r.continuous # {}
  /\ jobs' = [a \in Accounts |-> IF a \notin r.continuous THEN "none"
                                 ELSE IF IsActive(a) THEN jobs[a] ELSE "starting"]
  /\ stranded' = (stranded \ {a \in r.continuous : ~IsActive(a)}) \cup (Continuous \ r.continuous)
  /\ Cancelled(Accounts \ r.continuous)
  /\ reading' = reading \ {r}
  /\ UNCHANGED <<modes, asked, running, starts, network, active, news, unsynced, counts>>

around == <<modes, asked, running, starts, reading, network, active, news, stranded>>
Steps(a, phase) == /\ jobs' = [jobs EXCEPT ![a] = phase]
                   /\ UNCHANGED <<around, heard, counts>>

\* supervise: the mode is read again before each attempt.
Checks(a) == /\ jobs[a] = "starting" /\ UNCHANGED unsynced
             /\ Steps(a, IF modes[a] = "continuous" THEN "sync" ELSE "leaving")
\* The first pass succeeds; the account is read again for its new credentials.
Synced(a) == /\ jobs[a] = "sync"
             /\ Steps(a, IF modes[a] = "none" THEN "leaving" ELSE "listen")
             /\ unsynced' = unsynced \ {a}
\* A permanent failure ends the listener.
Refused(a) == jobs[a] = "sync" /\ Steps(a, "leaving") /\ UNCHANGED unsynced
\* Any other failure waits, and so does the end of a connection, which is always one:
\* an event source that fails or is closed keeps its pass; IDLE and the stream of
\* Exchange end while they wait for an event.
Fails(a) == jobs[a] = "sync" /\ Steps(a, "wait") /\ UNCHANGED unsynced
SourceEnds(a) == a \in Push /\ jobs[a] = "listen" /\ Steps(a, "wait") /\ UNCHANGED unsynced
WaitFails(a) == /\ a \notin Push /\ jobs[a] = "listen" /\ heard[a] = "none"
                /\ Steps(a, "wait") /\ UNCHANGED unsynced
DelayEnds(a) == jobs[a] = "wait" /\ Steps(a, "starting") /\ UNCHANGED unsynced

Hears(a, pass, of) == /\ heard' = [heard EXCEPT ![a] = pass]
                      /\ unsynced' = of
                      /\ UNCHANGED <<around, jobs, networks>>
\* onEvent: the pass of the event before is cancelled, even one that is running.
OnEvent(a) == /\ a \in Push /\ jobs[a] = "listen" /\ Turn
              /\ Hears(a, "debounce", unsynced \cup {a})
DebounceEnds(a) == heard[a] = "debounce" /\ Hears(a, "pass", unsynced) /\ UNCHANGED turns
\* awaitEvent returns: the pass follows, and only then the wait for another event.
AwaitEvent(a) == /\ a \notin Push /\ jobs[a] = "listen" /\ heard[a] = "none" /\ Turn
                 /\ Hears(a, "pass", unsynced \cup {a})
\* The pass ends.  Its result is not looked at: after a failure the mail waits for the
\* next event, the next connection or the hourly work.
PassEnds(a) == heard[a] = "pass" /\ Hears(a, "none", unsynced \ {a}) /\ UNCHANGED turns

\* The coroutine is over: only now would a reconciliation launch another.
Leaves(a) == /\ jobs[a] = "leaving"
             /\ jobs' = [jobs EXCEPT ![a] = "none"]
             /\ stranded' = stranded \cup ({a} \cap Continuous)
             /\ UNCHANGED <<modes, asked, running, starts, reading, network, active, news, mail, counts>>
-----------------------------------------------------------------------------
\* The default network changes; a handover tells of the new one before or after the
\* loss of the old one.
Told(old, new) == IF old = 0 THEN {<<Available(new)>>}
                  ELSE {<<Lost(old), Available(new)>>, <<Available(new), Lost(old)>>}
NetworkUp == /\ Turn
             /\ networks' = networks + 1
             /\ network' = networks + 1
             /\ \E told \in IF running THEN Told(network, network') ELSE {<<>>} : news' = news \o told
             /\ UNCHANGED <<modes, asked, running, starts, reading, jobs, active, mail, stranded>>
NetworkDown == /\ network # 0
               /\ network' = 0
               /\ news' = IF running THEN Append(news, Lost(network)) ELSE news
               /\ UNCHANGED <<modes, asked, running, starts, reading, jobs, active, mail, stranded, counts>>

\* All listeners are cancelled and launched again on the new network.
OnAvailable == /\ news # <<>> /\ Head(news).up /\ Numbers # {}
               /\ active' = Head(news).net
               /\ news' = Tail(news)
               /\ jobs' = NoJobs /\ Cancelled(Accounts)
               /\ reading' = reading \cup Launched
               /\ UNCHANGED <<modes, asked, running, starts, network, unsynced, stranded, counts>>

\* The loss of a network that was already replaced cancels nothing.
Always(n) == TRUE
Concerns(n) == active = n
OnLost == /\ news # <<>> /\ ~Head(news).up
          /\ news' = Tail(news)
          /\ IF Concerns(Head(news).net)
             THEN active' = 0 /\ jobs' = NoJobs /\ Cancelled(Accounts)
             ELSE UNCHANGED <<active, jobs, heard>>
          /\ UNCHANGED <<modes, asked, running, starts, reading, network, unsynced, stranded, counts>>

Next == \/ \E a \in Accounts, mode \in Modes : ConfigureSync(a, mode)
        \/ Configured \/ Restore \/ OnStartCommand \/ Kill
        \/ \E r \in reading : ReadModes(r) \/ StopSelf(r) \/ Supervise(r)
        \/ \E a \in Accounts : Checks(a) \/ Synced(a) \/ Refused(a) \/ Fails(a) \/ SourceEnds(a) \/ WaitFails(a)
                            \/ DelayEnds(a) \/ Leaves(a) \/ OnEvent(a) \/ DebounceEnds(a) \/ AwaitEvent(a) \/ PassEnds(a)
        \/ NetworkUp \/ NetworkDown \/ OnAvailable \/ OnLost

Spec == Init /\ [][Next]_vars
-----------------------------------------------------------------------------
\* Nothing is on its way to change what is listened to.
Quiet == /\ ~asked /\ starts = 0 /\ reading = {} /\ news = <<>>
         /\ \A a \in Accounts : jobs[a] \notin {"starting", "leaving"}

\* Once the starts, the callbacks and the coroutines are through, the accounts listened
\* to are the continuous ones, except while the network is lost and for an account whose
\* listener ended by itself (refused by its server, or as it saw the mode before the
\* last) or was cut by a coroutine that had read the modes before the account became
\* continuous and came last (ContinuousSyncService.kt 74).  No other account is.  And
\* what a listener has heard of gets its pass: one is to come for the event, or the
\* listener begins anew, with a pass.
ListensToContinuous ==
  Quiet => /\ \A a \in Continuous \ stranded : running /\ (network = 0 \/ IsActive(a))
           /\ \A a \in Accounts : IsActive(a) => a \in Continuous
           /\ \A a \in unsynced \cap (Continuous \ stranded) :
                heard[a] # "none" \/ jobs[a] \in {"sync", "wait"} \/ network = 0
=============================================================================
